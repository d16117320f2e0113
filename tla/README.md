# TLA+ models of the Apify SDK for Python

This directory holds TLA+ specifications of the parts of the SDK in which asyncio
tasks, threads, the Apify platform and other processes interleave, the TLC
configurations that check them on small instances, and TLAPS proofs of the
properties that hold for every instance. Paths such as `_charging.py` are relative to
`src/apify/`; those of the request queue, dataset and alias code to
`src/apify/storage_clients/_apify/`.

1. [The system](#the-system)
2. [What makes it hard](#what-makes-it-hard)
3. [Modules and conventions](#modules-and-conventions)
4. [Charging](#charging)
5. [The abstract work queue](#the-abstract-work-queue)
6. [The single-consumer request queue](#the-single-consumer-request-queue)
7. [The shared request queue](#the-shared-request-queue)
8. [The event manager](#the-event-manager)
9. [The Actor's life](#the-actors-life)
10. [Aliases](#aliases)
11. [The Scrapy integration](#the-scrapy-integration)
12. [Proofs](#proofs)
13. [Where the code falls short of its documentation](#where-the-code-falls-short-of-its-documentation)
14. [Not modelled](#not-modelled)

## The system

An Actor is a Python process started by the Apify platform or on a developer's
machine. `Actor` (`_actor.py`) is the entry point. It owns a configuration, an event
manager, a charging manager and storage clients, and it opens datasets, key-value
stores and request queues through Crawlee's storage classes, which call back into
the clients of this repository. Everything runs in one event loop, except that the
Scrapy integration runs a second loop in a thread.

| Component | State | Operations | Correct means | Module |
|---|---|---|---|---|
| Charging manager, `_charging.py` | pricing, budget, per-event counts and amounts, `active`, a reentrant lock, a context variable | enter, exit, `charge`, budget arithmetic | the budget is never passed; the platform is told no more than is accounted for | `Charging` |
| Charged pushes, `_actor.py`, `_dataset_client.py`, `_ppe_dataset_mixin.py` | none of their own; the lock is held from reservation to charge | `Actor.push_data`, `Actor.charge`, `Dataset.push_data` | what is pushed is charged for, exactly once; every call ends | `Charging` |
| Single-consumer queue client, `_request_queue_single_client.py` | local head, cache, requests in progress, being added, handled; counters | add a batch, fetch, mark, reclaim, get, `is_empty`, `is_finished` | no false success, no duplicate write or hand-out, nothing lost, `is_finished` covers its listing; to its tasks it is a work queue | `RequestQueueSingle` |
| Shared queue client, `_request_queue_shared_client.py` | local head with server-side locks, cache, requests in progress, being added and not yet seen handled, a fetch lock | the same, against clients that lock requests on the platform | as above; for as long as they are promised a request, the clients together are one work queue | `RequestQueueShared` |
| Queue client facade, `_request_queue_client.py` | the implementation chosen | delegates | what both implementations promise | `WorkQueue` |
| Actor lifecycle, `_actor.py` | active, exiting and rebooting flags, exit code, stores with persisted values | `__aenter__`, `__aexit__`, `exit`, `fail`, `reboot`, `use_state` | managers are entered and left in pairs, a failure is reported, state is saved, a failed reboot can be repeated | `ActorLifecycle` |
| Event manager, `events/_apify_event_manager.py` | reference count, websocket task, connection future, backoff, periodic task | enter, exit, process messages, reconnect | who is in hears of events, a migration is followed by persisting, nothing outlives the last user | `ApifyEventManager` |
| Alias resolution, `_alias_resolving.py`, `_api_client_creation.py` | alias map in memory and in the default key-value store, a lock | open by alias, by name, the default storage; store a mapping | an alias is one storage, also after a restart; the lock is always returned | `AliasResolving` |
| Scrapy event loop thread and scheduler, `scrapy/_async_thread.py`, `scrapy/scheduler.py` | an event loop thread, the queue opened on it | run a coroutine, close; open, enqueue, next, has-pending | a synchronous call ends, no coroutine that timed out acts behind its caller's back, each request is given once | `AsyncThread`, `ScrapyScheduler` |
| Scrapy HTTP cache, `scrapy/extensions/_httpcache.py` | the key-value store, its own thread | open, retrieve, store, sweep and close | the sweep deletes nothing the cache would still answer with | `ScrapyHttpCache` |
| Key-value store client, smart and file-system storage clients | open clients | one API or file operation each | - | not modelled |
| Proxy configuration, request list, configuration, webhooks, cryptography | values read at start | parsing, validation, URL building, encryption | - | not modelled |

How they interact: `Actor.push_data` takes the charging lock, calls
`Dataset.push_data`, whose client takes the same lock again, asks the charging
manager how many items may pass, sends them and charges for them; then
`Actor.push_data` charges the explicit event. Charging finds its manager through a
context variable, so a task created before the Actor was entered does not have it.
The request queue client is shared by all tasks of a crawler; the platform is
shared with other runs. The Actor enters the event manager and then the charging
manager, and leaves both in its cleanup; crawlers enter the same event manager. The
event manager calls listeners (state persistence among them) as tasks, and leaving
the Actor waits for these with a timeout. Scrapy's callbacks are synchronous: the
scheduler and the HTTP cache hand coroutines to a loop in a thread of their own.

## What makes it hard

- **Suspension points.** Between two awaits a task runs alone; at each await
  everything may change. Push limits, counters read before and after an await, head
  listings and in-progress markers all straddle awaits.
- **Failing calls.** An API call fails before the platform executed it or after. The
  client cannot tell which. Batches are accepted in part, pushes stored in part.
- **Stale answers.** An answer describes the platform when the call was executed, and
  is applied later to caches that have moved on.
- **Time.** Server-side locks lapse while a request waits in a local head or for an
  answer; timeouts race with late answers and leave coroutines behind.
- **Exit at any time.** The main task leaves the Actor while others are in mid-call;
  any of them may exit, fail or reboot it; an entering user of the event manager
  is cancelled.
- **Several processes** share a queue, an alias mapping, a cache, or a dataset, and
  are restarted.

Every such place is listed with its line under `hazards` in `PROJECT.json`, together
with the properties that watch it, or the reason why none does.

## Modules and conventions

| Module | Kind | About |
|---|---|---|
| `Charging` | specification | charging manager, lock, pushes, exit |
| `WorkQueue` | abstract specification | what a request queue promises to the workers that share it |
| `RequestQueueSingle` | specification | the single-consumer queue client and the platform's queue; implements `WorkQueue` |
| `RequestQueueShared` | specification | several shared queue clients, the platform's locks, time; implements `WorkQueue` |
| `ApifyEventManager` | specification | the users of the event manager, its connection task, the platform |
| `ActorLifecycle` | specification | init, exit, fail, cleanup, state, reboot, from several tasks |
| `AliasResolving` | specification | opening storages, processes that share a mapping, restarts |
| `AsyncThread` | specification | an event loop in a thread and the callbacks that wait for it |
| `ScrapyScheduler`, `ScrapyHttpCache` | specifications | the two owners of such a thread |
| `ScrapyCrawl` | composition | the reactor with the scheduler, the cache and their threads; restarts |
| `MCCharging`, `MCRequestQueueSingle`, `MCRequestQueueShared`, `MCApifyEventManager`, `MCActorLifecycle`, `MCAliasResolving`, `MCScrapyCrawl` | instances | constants for TLC |
| `ChargingProofs`, `RequestQueueSingleProofs`, `RequestQueueSharedProofs`, `RequestQueueLeaseProofs`, `ApifyEventManagerProofs`, `ActorLifecycleProofs`, `AliasResolvingProofs`, `ScrapyCrawlProofs` | proofs | see [Proofs](#proofs) |

One action stands for an operation, or for a stretch of one between two awaits,
with the task as its parameter; `pc[t]` names the await the task is suspended at and
`op[t]` holds the arguments and locals of its call. History variables are declared as
such; they appear in properties, and never in a guard of what the code does. Bounds are
constants named `Max...`. Definitions whose name says what is wrong with them
(`AffordableRoundedUp`, `KeepsFlag`, `TornDownUnguarded`, ...) are faulty variants of the
definition that follows them; no action uses them. Each property is run against one of
them in place of the right definition, to see that it notices.

`CHECK_DEADLOCK FALSE` stands where the system may stop: an Actor exits, users leave,
a crawl closes, calls are used up. The queue runs check deadlock, since a task can always
ask for the next request or look one up.

## Charging

`Charging.tla` follows a call from one await to the next:

| Action | Code |
|---|---|
| `Enter`, `Exit` | `ChargingManagerImplementation.__aenter__`, `__aexit__` |
| `CallCharge`, `CallActorPush`, `CallDatasetPush` | `Actor.charge`, `Actor.push_data`, `ApifyDatasetClient.push_data` are called |
| `Reserve` | `charge_lock_if_charging`, `compute_push_data_limit`, `_compute_limit_for_push` |
| `StoreChunk`, `PushFails` | the loop over `_serialize_chunk` and `push_items` |
| `ChargeItems`, `ItemsLogged` | `_charge_for_items`, hence `charge` of the synthetic item event |
| `Charge`, `PlatformCharges`, `ChargeAnswered`, `ChargeFails` | `charge` of an explicit event: account, API call or local log, result |

`charge` awaits nothing between entering the lock and updating its state, so that
stretch is one step (`Scheduled` keeps other tasks out of stretches with no await in
them). `asyncio.Lock` is free or owned; a task that owns it enters again at once. A
task in `Inheriting` sees the manager in its context; another task charges through
`Actor` without the lock and pushes to datasets without charging, as in the code. Money is
an integer; the total is kept as one number, which the code recomputes from
per-event amounts. `PriceOf` keeps the three prices an event can have: the configured one,
0 on the platform and 1 locally.

| Run | Question | Bounds |
|---|---|---|
| `ChargingPlatform` | On the platform: `TypeOK`, `BudgetRespected`, the platform's account (`PlatformWithinAccount`), both push properties (`PushChargesEveryItem`, `PushReportsOwnItems`), items accounted for against items stored (`ItemAccountMatchesDataset`) | 2 tasks, scrape costs 2, an item 1, budget 9 with one scrape charged earlier, 3 calls for 1 to 3 events, 1 failure |
| `ChargingLocal` | In a local test run with events of unknown price and one task outside the manager's context: `BudgetRespected`, and every call returns or raises (`CallsEnd`) | 2 tasks, scrape costs 2, budget 7, 3 calls for 2 events, 1 failure |

Three calls are one to spend most of the budget, one suspended between
reservation and charge, and one to interfere; the budget is small enough that limits
truncate both kinds of push, to zero included. One failure is enough to leave an
inconsistent state behind and two more calls to build on it.

Fairness (`FairSpec`): the API answers or times out and the event loop resumes a task
whose await is over (weak fairness of `Progress`); `asyncio.Lock` is first-in-first-out,
so that a task waiting for it gets it if it is released again and again (strong
fairness of `Reserve` and `Charge`, the two actions that enter it). No call is ever
obliged to start, nor to fail.

## The abstract work queue

`WorkQueue.tla` says what a request queue promises to its workers, whatever client
stands between them and the platform: requests are queued and never forgotten
(`Enqueue`), a queued request that is not finished and in nobody's hands is handed to one
worker (`Hand`), workers give requests back or run out of time (`Release`), finish them
(`Finish`), and the queue may hear of a request in nobody's hands (`HearOf`: a late mark, a
reclaim of what was finished). What the callers of `RequestQueueSingle` and
`RequestQueueShared` can see is mapped to its three variables by an INSTANCE in each; the runs check
`ImplementsWorkQueue == Work!Spec`. It is a theorem for the single-consumer client, and for the
shared clients under the conditions their section names.

## The single-consumer request queue

`RequestQueueSingle.tla` models one client, the tasks of the process that use it,
the platform's queue and other clients. A call to the API is three steps: the
task suspends with the request sent, the platform executes it (`AnswerRead`,
`AnswerBatch`, `AnswerUpdate`) and records what it answers, and the task resumes. `Fail` stands
for an exception at any of these points, before or after the execution.

| Action | Code |
|---|---|
| `CallAdd`, `CachesListed`, `BatchAnswered`, `AddReturns` | `add_batch_of_requests`, `_init_caches`, `settle_pending_addition`, `resolve_awaited_in_flight` |
| `CallFetch`, `FetchHeadListed`, `FetchedRequest` | `fetch_next_request`, `_ensure_head_is_non_empty`, `_list_head`, `_get_request_by_id` |
| `CallFinished`, `FinishedHeadListed` | `is_finished` (and, in it, `is_empty`) |
| `CallGet`, `GotRequest` | `get_request` |
| `CallMark`, `CallReclaim`, `Updated` | `mark_request_as_handled`, `reclaim_request`, `_update_request` |
| `OtherAdds`, `OtherHandles` | another client of the same queue |

State maps one to one to the client's fields; a request is its ID. Abstracted: the
order in which the platform lists pending requests (any order; `forefront` is kept for
the local head only), the listing limits (a listing returns everything, the cache
never evicts: a head listing asks for at least 200 requests, the first listing for 10,000,
the cache holds a million), request contents, and a batch that names one request twice.
Callers use the client as Crawlee's crawlers do: a task marks or reclaims what it was
handed; it may also reclaim what it has marked, which the code provides for. The
platform may answer a lookup of an existing request with nothing, which the code guards
against.

| Run | Question | Bounds |
|---|---|---|
| `RQSAdd` | `AddsTruthful`, `SendsOnce`, `CallsReturn`: adds that overlap, fail, are accepted in part, and rely on one another | 3 tasks, 2 requests, 3 adds of one or both, 1 failure |
| `RQSConsume` | `HandedOutOnce`, `ImplementsWorkQueue`, while requests are fetched, marked and reclaimed, and another client adds and handles one of them | 2 tasks, 2 requests, 2 adds or reclaims, 1 failure; tasks are symmetric |
| `RQSLiveness` | `CountsMatchPlatform`, `FinishedCoversListing`, `AddedGetsHandled` from every initial content of the queue | 2 tasks, 2 requests, 2 adds or reclaims, no failure |
| `RQSFinished` | `FinishedMeansHandled`, which is violated (see [below](#where-the-code-falls-short-of-its-documentation)) | 2 tasks, 1 request, 2 adds or reclaims |

Three adding tasks are one that sends, one that waits for it, and one that
retries. Two consumers are one whose listing or lookup is late and one that moves on
meanwhile. Failures are left out of `RQSLiveness` because a failed update leaves
the platform and the client in disagreement for good, by design of the code (the
error is logged), and a failed lookup leaves its request in progress.

Fairness: the API answers and the loop resumes tasks (`FairSpec`). `ConsumedSpec` adds what
the user of the client does: each consumer goes on fetching and in the end marks
what it was handed. Strong fairness is needed because a consumer may also reclaim, which
disables both for a while; reclaims are bounded by `MaxCalls`.

In the refinement a task's `holder` is what it is processing, `queued` what the platform
has, and `finished` what was marked and not reclaimed, which is ahead of the platform while
the mark is on its way.

`FinishedCoversListing` is the strongest statement about `is_finished` that holds: at
the moment it says True, each request that was pending when its listing was taken
has been handled. It has two conditions: no task reclaims what it has marked, and no other
client handles requests. Without them a request can be handled, listed by `_init_caches`, and
reopened before that listing is applied; it then counts as handled here although it is
pending, and TLC finds `is_finished` True over it. Other clients may add requests and calls may
fail. What the documentation says is stronger and fails.

## The shared request queue

`RequestQueueShared.tla` models any number of client objects on one platform queue,
each used by tasks (`ClientOf`). The platform locks what it lists for a client; an add,
a listing, a prolonging, a read or an update is again sent, executed (`AnswerBatch`,
`AnswerListing`, `AnswerProlong`, `AnswerRead`, `AnswerVerify`, `AnswerUpdate`) and continued.

| Action | Code |
|---|---|
| `CallAdd`, `BatchAnswered`, `AddReturns` | `add_batch_of_requests` and the helpers it shares with the other client |
| `CallFetch`, `FetchHeadListed` | `fetch_next_request`, `_ensure_head_is_non_empty`, `_list_head`, the choice of a request under the fetch lock (`Pick`) |
| `Prolonged` | `_ensure_lock_window` after the call of `prolong_request_lock` |
| `Hydrated`, `Refetched` | `_get_or_hydrate_request`, the read of the full request (`LookUp`) |
| `CallMark`, `CallReclaim`, `Updated` | `mark_request_as_handled`, `reclaim_request` |
| `CallFinished`, `FinishedHeadListed`, `Verified` | `is_finished`, `is_empty`, `_confirm_requests_handled` |
| `Fail` | an exception in any of them |
| `Tick` | time passes: locks lapse, on the platform and in what clients know of them |

A point in time is how far it lies ahead, so that the state space is finite: `Tick` counts
every lease down, 0 is past. `LockTime` stands for `_DEFAULT_LOCK_TIME` (3 minutes),
`HandoffTime` for `_MIN_LOCK_TIME_AT_HANDOFF` (half of it). `_fetch_lock` is modelled by
`LockFree`, over the awaits under it. Left open, because the code does not depend on it:
whether the platform lets a client prolong a lock that has lapsed, and whether a
reclaim releases the lock of its own client. A listing may lag and miss requests, a read
may not know a request yet; each of these counts as a failure.

| Run | Question | Bounds |
|---|---|---|
| `RQSharedTasks` | one client: `HandedOutOnce`, `AddsTruthful`, `CountsMatchPlatform`, `FinishedCoversAdded`, while locks expire in the local head and in mid-call | 2 tasks, 2 requests, 2 adds (overlapping batches) or reclaims, locks of 2, hand-off of 1, 1 failure; tasks are symmetric |
| `RQSharedClients` | two clients: `ImplementsWorkQueue`, `AddedGetsHandled`, `EveryTaskLearns` | 1 task each, 1 request, 2 adds or reclaims, locks of 4, hand-off of 2, 1 failure |

In `RQSharedTasks` nothing is assumed of time (`KeepsLease` is FALSE): a lock may lapse at any
await. In `RQSharedClients` it is TRUE: no call takes as long as a unit of time and no request is
processed for longer than `HandoffTime`, which is what the lock window is for. Without that
assumption two clients do process one request, and the refinement does not hold. It needs two
more conditions, which the run meets and the theorem states:

- `OneTaskEach`: a client serves one task. `mark_request_as_handled` and `reclaim_request` take the
  request out of `_requests_in_progress` before the platform is told
  (`_request_queue_shared_client.py:319`), so that another task of the client whose listing is
  answered late puts it back into the head.
- `HeadsSpareInProgress`: a request in progress is not in the head of its client. That is so as
  long as nobody reclaims to the forefront (`NoneAtForefront`). After such a reclaim the head is
  listed anew and its leftovers are put behind the new one without being compared with it
  (`:640-694`): a request whose lock lapsed meanwhile is in the head twice, and when its mark is
  executed and the answer lost it is handed out once more.

In the mapping a task's `holder` is what it was handed for as long as it was promised it (`term`), the mark on
its way included. One contended request and two clients make every order of listing,
lapse, prolonging and update; the locks are long enough that the window closes
while its request waits in the head, is prolonged, and closes again.

`FinishedCoversAdded` is stronger than what the other client keeps: `is_finished` here reads
back each request it has not seen handled, hence covers everything this client had
confirmed as added when the call began.

Fairness: the API answers, the loop resumes tasks, and time goes on (`Fairness`). `Consuming`
says what the users do: each task goes on fetching and asking whether the queue is finished,
fetches while the head has something eligible (it asks much more often than locks lapse), and
keeps nothing forever; now and then no call is under way (breaks between calls
are long). `AddedGetsHandled` leaves out a request a failed last read has left in progress
(`Lost`), `EveryTaskLearns` behaviours with failures: there `is_finished` stays False.

## The event manager

`ApifyEventManager.tla` has any number of users: the Actor and the crawlers that enter the
same manager, in any overlap.

| Action | Code |
|---|---|
| `Enter`, `Entered`, `EntryFails`, `EntryCancelled` | `__aenter__`: the count, the outermost user's connection, what is undone when it fails or is cancelled |
| `Exit`, `TornDown`, `Left` | `__aexit__`: the last user cancels the task, waits for it, closes the websocket, resets the fields; then Crawlee's part, with its `PERSIST_STATE` |
| `Connected`, `Refused`, `Dropped`, `Slept` | `_process_platform_messages`, `_should_reconnect_after_close`: the first connection, retries, a drop after a healthy or a rapid connection, the sleep between rapid ones |
| `Migrating`, `MigrationHandled` | a `MIGRATING` message: emit it, stop the periodic `PERSIST_STATE`, emit one |
| `TaskEnds` | the cancelled task ends and closes its connection |

Of Crawlee's manager the model keeps the count, the periodic task, and the
`PERSIST_STATE` of the last exit. Messages other than `MIGRATING`, malformed ones included,
change nothing the manager keeps. Run `EventManager`: 3 users, 5 entries, 4 drops, 2
migrations, which is enough for a third user to come while the first leaves and the
second fails to connect, and for the backoff to be primed, slept upon and reset.
`NothingLeftBehind` (at most one connection; none, no task and no periodic event once
everybody is out), `EventsArrive` (who is in has a live task), `BacksOff` (two rapid drops in
a row are not answered by two connections without a sleep), `MigrationPersists`,
`UsersSettle`. Fairness: the loop resumes users and the task (`WF` of each), and the first
connection attempt ends within its timeout. `EventsArrive` and `MigrationPersists` leave out
behaviours where somebody entered while the outermost user was on its way in or out
(`overlapped`), and the former a task that ended for good (`hopeless`).

## The Actor's life

`ActorLifecycle.tla`: the main task runs the `async with Actor` block, helpers are other
tasks of the loop. Of the event manager it keeps the count, of the charging manager whether
it is active.

| Action | Code |
|---|---|
| `CallInit`, `EventsEntered`, `EventsFail`, `ChargingEntered`, `ChargingFails`, `Undone`, `Opened`, `OpeningFails` | `__aenter__`, with what it undoes when the charging manager fails, and what it leaves when opening the input's store fails |
| `BlockEnds` | the end of the main task's block: normally, or with an exception, `SystemExit`, `KeyboardInterrupt` or a cancellation |
| `CallExit`, `CallFail` | `exit`, and `fail` with the exception it is given, which `__aexit__` treats like one of the block |
| `StatusSent`, `ListenersDone`, `ManagersExited`, `Saved` | the cleanup of `__aexit__` in its order |
| `CleanupTimesOut`, `CleanupCancelled` | its timeout, or a cancellation of the task that exits, at any of its awaits |
| `UseState`, `Persisted` | `use_state` and the listener that saves its values |
| `CallReboot`, `ListenersCalled`, `Rebooted`, `RebootFails` | `reboot`: the flag, all `PERSIST_STATE` and `MIGRATING` listeners with their timeout, the API call |

Run `Lifecycle`: the main task and two helpers (symmetric), 2 stores, 5 calls of init, exit, fail and
reboot, 3 failures; both values of `is_at_home` and `exit_process`. An exit can overlap another
while a third task reboots, one store can fail and the other be saved, and the
cleanup time out or be cancelled after an init that failed and was repeated. The main task's block, and a call
of `fail`, comes with nothing, an `Exception`, a `SystemExit` with or without a code, or an interrupt
(`KeyboardInterrupt`, `CancelledError`); after an interrupt, and after a cancellation, `__aexit__` ends
without `sys.exit`, and what then becomes of the process is up to what ended the main task's block
(`GoesOn`). `FailureReported` (a run that failed does not end with code 0), `StateKept` (what was put in a store before the end is saved, except where saving
that very store failed), `ManagersBalanced`, `RebootCanBeRetried`. The first leaves out exits
that overlapped and exits that were called off (`called_off`: a call of `exit` or `fail` was cancelled, or
`fail` was given an interrupt; see [below](#where-the-code-falls-short-of-its-documentation)), the second
cleanups that were cut short: what they leave behind is then the timeout's or the cancellation's doing. No fairness:
a process may be stopped anywhere, and the properties say what holds wherever it is.

## Aliases

`AliasResolving.tla`: tasks of one or more processes open storages of one type, in
memory and on the platform.

| Action | Code |
|---|---|
| `OpenAlias`, `OpenDefault`, `CreateDefault`, `OpenNamed` | `create_storage_api_client` |
| `Locked`, `Loaded` | `open_by_alias` takes the lock; `resolve_id`, `_get_alias_map` |
| `Got`, `Created` | does the storage exist still; create one |
| `LoadedToStore`, `Remembered`, `Read`, `Written` | `store_mapping`: memory, then the record is read, changed and written |
| `Fails` | an API call fails: loading, looking and creating raise, storing is logged |
| `Restart`, `Drop` | a process loses its memory; somebody drops a storage |

Run `Aliases`: 3 tasks in 2 processes, two aliases and one the platform predefines, 4 calls, 4
storages, and one failure, restart and drop. Two tasks of a process contend for its lock, the other
process for the record. `AliasIsStable` (in a process, an alias is one storage while that exists),
`AliasSurvivesRestart` (on the platform also after a restart, if one process alone writes the
record and no call failed), `LockIsHeld`. The drop of a predefined storage is left out of the
first two: each opening then creates another one, as the code has nowhere to remember it.

## The Scrapy integration

`AsyncThread.tla` is the bridge from Scrapy's synchronous callbacks to coroutines on a loop in
another thread, `ScrapyScheduler.tla` and `ScrapyHttpCache.tla` are its two owners, and
`ScrapyCrawl.tla` puts them on the reactor, which waits for one coroutine of one owner at a time, and
restarts the process.

| Action | Code |
|---|---|
| `LoopStarts`, `StartsCoro`, `CancelsTask`, `StopsLoop`, `Answers`, `Unwinds` | `_start_event_loop`, `run_coroutine_threadsafe`, the coroutines, on the loop |
| `ShutsDownTasks`, `Gathered` | `_shutdown_tasks`: cancel the others, then wait for them |
| `Runs`, `TimesOut`, `Interrupted`, `Close`, `ShutDown`, `Join` | `run_coro` and `close`, in the reactor's thread |
| `Open`, `Opened`, `OpenFails` | `ApifyScheduler.open` |
| `HasPendingRequests`, `EnqueueRequest`, `Answered`, `NextRequest`, `Fetched`, `Marked`, `CallTimesOut`, `CallInterrupted`, `CloseScheduler` | the scheduler's other calls; an entry that cannot be rebuilt is marked as handled |
| `IsFinished`, `AddRequest`, `FetchNextRequest`, `MarkRequestAsHandled`, `Adds`, `UpdateFails` | the queue's client under these calls (`QueueActs`) |
| `OpenSpider`, `SpiderOpened`, `OpenSpiderFails`, `RetrieveResponse`, `StoreResponse`, `CacheAnswered`, `CacheTimesOut`, `CacheInterrupted` | `ApifyCacheStorage` |
| `CloseSpider`, `SweepReads`, `SweepDeletes`, `SweepEnds`, `Swept` | `close_spider`, `_expire_kvs` |
| `Updates`, `Stores`, `Deletes`, `LateRequest`, `LateStoreRequest`, `StorageFails` | the storages: a request is executed while a coroutine waits for it, or later, or never; a call raises |
| `Restart`, `OtherRunStores`, `Tick` | the environment |

A loop has a queue of callbacks (`ready`): the start of a coroutine, the cancellation of one, and the stop.
A timeout cancels a future, which only puts a cancellation at the end of that queue: the coroutine may still
start and act before, it unwinds at some time after (`Unwinds`), and a request it sent
(`sent`) remains on its way, to be executed late or never, also after the process has been restarted.
A `KeyboardInterrupt` out of a wait cancels nothing (`interrupted`), so that the coroutine goes on behind the
next call, and the sweep goes on beside `_shutdown_tasks`.

`ScrapyScheduler` has the queue of `RequestQueueSingle` at the grain of its calls. A call reads and changes
what the client knows (`head`, `in_progress`, `handled_here`) at one point, and what it asked of the platform is
executed at a later one; it may be given up on or raise before, between and after the two. An update of
`mark_request_as_handled` that fails is logged and the call returns (`UpdateFails`): the engine gets the
request, and the platform may have it pending (`untold`). Assumed, since `RequestQueueSingle` has the rest: a
listing is current when it is applied, the client's first listing shows the whole queue (it asks for 10,000), and
a listed request can be looked up.

Run `Scrapy`: the scheduler's thread or the cache's, 2 requests of which one cannot be rebuilt, 1 key,
3 coroutines on a loop, 2 troubles (time-outs, interrupts, failures, restarts), time 0 to 2, entries that
expire after 1. The two threads share nothing but the reactor, which uses one at a time; a crawl with both
would only interleave idle loops. Two troubles are a coroutine given up on and a restart or a second one
behind it, or a swallowed update and the restart that shows it.

- `AloneOnLoop`: when the coroutine the reactor waits for has started, those it gave up on are being
  cancelled and act no more; unless it was interrupted on that thread.
- `GivenOnce`: each request reaches the engine once at most in a process, and only handled on the
  platform or with an update that failed; no later process gives it again but in the latter case.
- `SweepSparesFresh`: the sweep deletes no entry that a lookup would still answer with, however late the
  deletion is executed; an entry another run put there after the sweep's read is left out.
- `QueueDrains`: every pending entry is handled in time, the one that cannot be rebuilt included; unless its update
  failed, a call of `next_request` raised, or somebody interrupted or closed the scheduler.
- `ThreadsEnd`: the thread of an owner that closed, or failed to open, ends, whatever times out.

Fairness: each loop and the reactor's own steps go on, the storages answer, and the engine keeps
opening the scheduler and asking it for requests (strong fairness, since other calls come between);
`Scrapy` never obliges it to enqueue or to close, nor the platform to execute what nobody waits for.

## Proofs

Each proof module extends its component's module and proves, for all constants that satisfy the
module's named assumption, an invariant that is inductive and what follows from it. TLC evaluates
the assumptions in the runs of the component.

`ChargingProofs` (from `ChargingAssumption` and `InitialAmountAssumption`: the amount charged before
the start is a natural number; it is a sum over a fold, which TLC evaluates):

| Theorem | Statement | Argument |
|---|---|---|
| `TypeCorrect` | `Spec => []TypeOK` | with `CallInv`, `LifeInv` and `LockInv` as `ControlInv`, one lemma per action |
| `BudgetIsRespected` | `Spec => []BudgetRespected` | `Division`, `WithinIsPaidFor`: a step accounts for what the remaining budget pays for, or for nothing |
| `PlatformIsWithinAccount` | `Spec => []PlatformWithinAccount` | with `PendingChargeInv`: a charge on its way is accounted for, and the lock allows one only |
| `PushIsChargedInFull` | `Spec => []PushChargesEveryItem` | with `ReservationInv`, below |
| `PushReportIsItsOwn` | `Spec => []PushReportsOwnItems` | with `ReservationInv` |
| `ItemsAreAccountedFor` | `Spec => []ItemAccountMatchesDataset` | with `ItemAccountInv`: what the process accounted for and what the push that has the lock has stored of its items (`Unsettled`) are together what is stored; after a failure, at most that |

Neither push property is inductive: that a push which returns was charged in full says
nothing of one under way. `ReservationInv` says what holds in between, at each
place a push can be suspended: the remaining budget pays for the rest of what the
push reserved, and the shared counter stands where the push read it plus what the push
added. It is preserved because nobody else accounts while the lock is held
(`OthersKeepReservations`, from `LockInv`: the lock is owned exactly in the stretches the code
means it to cover), and because the task's own steps use up the reservation step by step
(`ReserveReserves`, `ChargeItemsUsesReservation`, `ChargeUsesReservation`). The limit of
`Actor.push_data` divides by the price of both events, which is why the cap of the dataset client
never bites a second time (`WithinOfWhatFits`).

`RequestQueueSingleProofs` (from `QueueAssumption`, with finitely many requests):

| Theorem | Statement | Argument |
|---|---|---|
| `TypesHold` | `Spec => []TypeOK` | with which call is at which await (`TypeInv`) |
| `NoFalseSuccess` | `Spec => []AddsTruthful` | `PresentInv`: whatever any local set, head or call names is on the platform, which forgets nothing |
| `OneWritePerRequest` | `Spec => []SendsOnce` | `SendsInv`: what is being sent is in `beingAdded`, what was confirmed in the cache or among the handled |
| `HandsOutOnce` | `Spec => []HandedOutOnce` | `HandInv`: a request a task looks up or processes is in progress and not done, and nobody else claims it |
| `CountersAgree` | `Spec => []CountsMatchPlatform` | `TotalInv`: `metadata.total` counts what is on the platform but for what the adds under way owe, each request owed by one of them; `HandledInv`: `metadata.handled` counts what is handled there and the updates not yet executed or counted (`Charges`), one at most for a request |
| `Implements` | `Spec => ImplementsWorkQueue` | one lemma per step under these invariants: it is a step of `WorkQueue` or a stutter |
| `FinishedCovers` | `Spec => FinishedCoversListing` | `CoverInv`: what is among the handled, or is so in an answer on its way, is handled on the platform or was marked here (`Settled`), and stays so because nobody can reopen it (`SettledStays`, from `OldInv`) |

`RequestQueueSharedProofs` (from `SharedAssumption`), with nothing assumed of time or of the speed of
calls:

| Theorem | Statement | Argument |
|---|---|---|
| `NoFalseSuccess` | `Spec => []AddsTruthful` | `IInv`: caches and calls know only what the platform has (`ClientFits`, `AnswerFits`) |
| `FinishedCovers` | `Spec => FinishedCoversAdded` | `IInv`: what was added and not handled is in the set `is_finished` reads back, and a `handled` it has read is true |
| `HandsOutOnce` | `Spec => []HandedOutOnce` | `HandInv`: a task reserves what it was handed or looks up; it is in progress, and no other task of the client reserves it. The head may name it again after its lock lapsed |
| `CountersAgree` | `Spec => []CountsMatchPlatform` | `CountsInv`, for an only client: the platform's numbers are the counters, what adds owe (`Owed`), and the updates that close or reopen a request (`Closing`, `Opening`) |

`RequestQueueLeaseProofs` extends them to the refinement; `KeepsLease` and `OneTaskEach` are assumed,
and the condition on heads is part of the behaviour:

| Theorem | Statement | Argument |
|---|---|---|
| `Implements` | `Spec /\ []HeadsSpareInProgress => ImplementsWorkQueue` | `LeaseInv`, one lemma per step for its invariance and one for the step of `WorkQueue` it is |
| `ImplementsWithoutForefront` | `Spec /\ []NoneAtForefront => ImplementsWorkQueue` | `TidyInv`: a head has no request twice and none that is in progress, and is listed anew only when it is empty; hence `HeadsSpareInProgress` |
| `ProcessedOnce` | `Spec /\ []NoneAtForefront => []Work!Exclusive` | `ProcessedLeased`: what a task was promised is locked for its client, for at least as long, and pending |

That two clients do not process one request cannot be seen from either of them. `LeaseInv`
says what each must believe for the platform's lock to separate them: for every request in its
head, in the answer of a listing or prolonging under way, or in its task's hands, the time its
client counts on is at most what the platform has left for it (`Firm`), and the request is
pending. `Tick` preserves it because it counts both down and, with `KeepsLease`, does not come while a
call is under way; another client's steps preserve it because the platform gives a locked
request to nobody else.

`ApifyEventManagerProofs` (for any set of users):

| Theorem | Statement | Argument |
|---|---|---|
| `LeavesNothing` | `Spec => []NothingLeftBehind` | `CountInv`: the count is the number of users inside; `ConnectionInv`: the connection belongs to the task and both to somebody inside who has not torn them down |
| `Served` | `Spec => []EventsArrive` | `AloneInv`, `ServedInv`: without overlaps whoever tears down is alone |
| `BackedOff` | `Spec => BacksOff` | `BackoffInv`: unprimed means no rapid drop, and on a connection at most one |

`ActorLifecycleProofs` (for any helpers and stores):

| Theorem | Statement | Argument |
|---|---|---|
| `Balanced` | `Spec => []ManagersBalanced` | `CountInv`, under one init and one exit at a time (`OneInits`, `OneExits`) |
| `Reported` | `Spec => []FailureReported` | `FailureInv`: while a failed run still lives, somebody is exiting with a code other than 0, and only the task whose block ends does so without `sys.exit`, leaving its exception to end the process |
| `Kept` | `Spec => []StateKept` | `SavedInv`: from the saving on, what is owed is among what was lost |
| `RebootsAgain` | `Spec => []RebootCanBeRetried` | inductive by itself |

`AliasResolvingProofs` (for any processes, tasks and aliases):

| Theorem | Statement | Argument |
|---|---|---|
| `LockReturned` | `Spec => []LockIsHeld` | `LockInv`: the lock's owner is in the stretch it covers, and only the owner |
| `Stable` | `Spec => AliasIsStable` | `MemoryInv`, `HolderInv`: the memory, or the task that has the lock, has what the process opened last |
| `Survives` | `Spec => AliasSurvivesRestart` | `RecordInv`: with one process and no failure the record has what was opened, or the task that has the lock is about to write it |

`ScrapyCrawlProofs` (from `ThreadAssumption`, `SchedulerAssumption`, `CacheAssumption` and
`SettingsAssumption`; for any threads, requests, keys and bounds, and a crawl that uses both owners):

| Theorem | Statement | Argument |
|---|---|---|
| `CrawlTyped` | `Spec => []TypeOK` | with `ThreadInv`: a free number exists for each coroutine handed over (`FreshNumber`) |
| `WaitedForAlone` | `Spec => []AloneOnLoop` | `CancelOf`: until a thread is stopped or a wait for it interrupted, each coroutine on its loop is the one waited for, and then the last callback handed over, or is being cancelled, or has its cancellation before that one in the queue |
| `GivenAtMostOnce` | `Spec => []GivenOnce` | `FetchInv`, `MarkInv`: what the fetch that is waited for returned was never given, and a mark that was answered was executed or is `untold`; a late result of another coroutine is told apart by its number (`NumbersOf`). `BeforeInv`: what earlier engines got is handled for good, in no head, and no addition under way brings it back |
| `FreshSpared` | `Spec => SweepSparesFresh` | `SentInv`: a deletion on its way is of an entry that had expired when it was sent, and time only goes on |

Only model-checked: every liveness property (`CallsEnd`, `CallsReturn`, `AddedGetsHandled`,
`EveryTaskLearns`, `MigrationPersists`, `UsersSettle`, `QueueDrains`, `ThreadsEnd`; liveness under
fairness is outside the prover's reach). The refinement of
the shared clients is proved under its conditions; TLC checks it with a reclaim to the forefront too,
for one request, which then cannot be a leftover behind itself.

## Where the code falls short of its documentation

`RQSFinished` is expected to be refuted (`FinishedMeansHandled`; `PROJECT.json` quotes the lines): `is_finished`
combines a listing from before its await with the in-progress set from after it; a request added,
fetched and reclaimed in between is in neither. The shared client, which verifies, does not have
this (`FinishedCoversAdded`).

Other behaviours met while modelling, kept in the models, which no property therefore excludes:

- A push whose second chunk fails leaves the first one stored and unaccounted for; later pushes may
  then go beyond the user's limit (hence the bound `failures = 0` in `ItemAccountMatchesDataset`).
- `Actor.charge` accepts the synthetic item event, which `Actor.push_data` refuses
  (`_actor.py:681`); charged by hand it is accounted for without an item (hence `ChargesFollowItems`).
- A local run without pay-per-event pricing but with a budget truncates `push_data`, since unknown
  events cost 1 there.
- When the lookup inside `fetch_next_request` raises, the request stays in progress with nobody
  processing it, and `is_finished` never becomes True; in the shared client the same follows from its
  last read (`Lost`), in the Scrapy scheduler from a fetch or a mark that times out, until
  the process restarts.
- A reclaimed request is available locally before the reclaim has reached the platform; handled by
  another task meanwhile, it ends pending on the platform. If what is reclaimed was marked before, the
  next mark may overtake the reclaim: two marks and one reclaim are counted, and the single client's
  `handled_request_count` is off (hence `ReclaimsHandled` in `CountsMatchPlatform`).
- A listing of `_init_caches`, or an answer to a lookup, that was taken while a request was handled
  and is applied after its reclaim puts it among the handled for good
  (`_request_queue_single_client.py:128`, `:400`): this client does not hand it out again, and
  `is_finished` may be True while it is pending (hence the conditions of `FinishedCoversListing`).
- A shared client that serves several tasks may hand a request out again while its mark is on its
  way (`_request_queue_shared_client.py:319`), and any of them after a reclaim to the forefront, from
  the leftovers of its head (`:640-694`); see [its section](#the-shared-request-queue).
- The shared client hands out a request although the last read of it shows that it was handled
  meanwhile (`_request_queue_shared_client.py:281-313`).
- `Actor.fail` in a task while the main task's block returns may end with code 0
  (`docs/02_concepts/01_actor_lifecycle.mdx:77` promises the code of `fail`), and an exit during
  another one replaces its code: `FailureReported` says `~overlapped`.
- An exit that is called off leaves `sys.exit` out, and the run may then end with code 0 although
  `fail` was called: `Actor.fail(exception=...)` with a `KeyboardInterrupt` or `CancelledError` returns
  (`_actor.py:303-305`), and so does the process when the main task's block goes on to its end; a task that is
  cancelled in the cleanup of its `exit` or `fail` ends there (`called_off` in `FailureReported`). With
  `SystemExit` or `SystemExit(0)` as the exception, `fail` itself sets the code to 0 (`:252-255`).
- The scheduler's `mark_request_as_handled` swallows a failed update
  (`_request_queue_single_client.py:276-278`): the engine has the request, the platform keeps it
  pending, this process skips it from then on (`:362-365`), and the next one gives it again (`untold`).
- A `KeyboardInterrupt` out of `run_coro` does not cancel the coroutine (`scrapy/_async_thread.py:70`),
  which goes on beside the next one; the sweep of the cache beside `_shutdown_tasks`, which cancels it then.
- After an init that failed in the charging manager, that manager stays active; after one that
  failed in opening the input's key-value store, the Actor and both its managers do, although
  `async with` then calls no `__aexit__`.
- The cleanup timeout may cancel the event manager's exit, which swallows the cancellation
  (`_apify_event_manager.py:159`); the cleanup then goes on past its time.
- `Event.EXIT` is documented (`docs/02_concepts/04_actor_events.mdx:79-80`) and never emitted on the
  platform.
- A user that enters the event manager while the outermost user is connecting or tearing down
  receives no events (`overlapped`).
- The mapping of an alias is lost when its write fails or two processes write the record at the
  same time; a restarted process then creates another storage.
- The sweep of the HTTP cache may delete an entry another run has stored between the sweep's read
  and its delete.

## Not modelled

- *Key-value store client, the clients of webhooks and metadata, `metamorph`, `abort`, `call`,
  `start`, status messages*: one API call each, with no state that a later call depends on.
- *Smart and file-system storage clients*: a choice made once, and file operations inherited
  from Crawlee; what is charged for local datasets is in `Charging`.
- *Proxy configuration, request list, configuration, webhooks, event data types*: parsing,
  validation and URL building, sequential, with no state that evolves.
- *Cryptography*: encryption and signatures delegate to a library.
- *Wording, logging, titles, the charging log's content, request and response contents*: nothing
  a property tells apart.
- *Opening storages by ID, purging and dropping queues*: single API calls.
- *The event manager without a websocket URL* (`_apify_event_manager.py:109-111`): connects to
  nothing.
- *Everything inherited from Crawlee*, except as the callers and the base classes described above.

The modelled code is the third of `src/apify` that keeps state between calls or across awaits. The
rest of it is docstrings, data types and settings, single API calls and conversions as listed above;
the rest of the repository is tests, documentation examples and the website.
