---------------------------- MODULE ScrapyCrawl ----------------------------
(***************************************************************************)
(* A Scrapy crawl on Apify.  Its settings choose the scheduler, the HTTP    *)
(* cache or both; each has an AsyncThread of its own, and both are called   *)
(* from the reactor's thread.  The process may be restarted at any point,   *)
(* with the same storages.                                                  *)
(***************************************************************************)
EXTENDS ScrapyScheduler, ScrapyHttpCache

CONSTANT Settings   \* what crawls use: sets of threads

(* The coroutines, the callbacks that start, cancel or stop them, and what  *)
(* the reactor's thread may be at.                                          *)
CallNames ==
  {"open", "is_finished", "add_request", "fetch_next_request", "mark_request_as_handled",
   "get_value", "set_value", "expire", "shutdown"}
Args ==
  Requests \cup {NoRequest} \cup Keys \cup {NoKey} \cup [key : Keys, time : 0..MaxTime] \cup {NoCoro}
Coros ==
  {c \in [id : 1..MaxCoros, call : CallNames, arg : Args] :
     /\ c.call \in {"add_request", "mark_request_as_handled"} => c.arg \in Requests
     /\ c.call = "set_value" => c.arg \in [key : Keys, time : 0..MaxTime]
     /\ c.call = "expire" => expiration_secs > 0}
Results ==
  Requests \cup Unanswered
    \cup {NoRequest, "raised", "done", "finished", "unfinished", "added", "was_already_present",
          "marked", "opened", "got", "set", "swept"}
Sendable ==
  [call : {"add_request", "mark_request_as_handled"}, arg : Requests]
    \cup [call : {"set_value"}, arg : [key : Keys, time : 0..MaxTime]]
    \cup [call : {"delete_value"}, arg : [key : Keys, entry : [time : 0..MaxTime, form : Forms]]]
Callbacks == [run : {"start", "cancel"}, coro : Coros] \cup {Stop}
Places ==
  {Idle} \cup [at : {"coro", "shutdown"}, on : Threads, coro : Coros]
    \cup [at : {"close", "join"}, on : Threads, coro : {NoCoro}]

ASSUME SettingsAssumption ==
  Settings \subseteq SUBSET Threads /\ Scheduler # Cache /\ NoCoro \notin Coros

VARIABLE used

vars == <<threads, gone, scheduler, cache, used>>

Init ==
  /\ used \in Settings
  /\ AsyncThreadInit(used \cap {Scheduler})
  /\ SchedulerInit(Scheduler \in used) /\ CacheInit(Cache \in used)

(* The next process knows of its requests what the platform does.  What the *)
(* last one sent may still be executed.                                     *)
Restart ==
  /\ Trouble
  /\ loop' = [th \in Threads |-> IF th \in used \cap {Scheduler} THEN "starting" ELSE "none"]
  /\ ready' = [th \in Threads |-> <<>>] /\ tasks' = [th \in Threads |-> {}]
  /\ Ends /\ gone' = {} /\ interrupted' = {}
  /\ head' = {} /\ in_progress' = {} /\ handled_here' = {} /\ rq' = FALSE
  /\ kvs' = FALSE /\ sweep' = NoSweep
  /\ given' = [r \in Requests |-> 0] /\ untold' = {} /\ disturbed' = FALSE
  /\ before' = before \cup {r \in Requests \ untold : given[r] > 0}
  /\ UNCHANGED <<sent, platform, entries, clock>>

SchedulerStep ==
  /\ Scheduler \in used
  /\ EngineCalls \/ Continues \/ QueueActs \/ UpdateFails \/ LateRequest
  /\ UNCHANGED cache

CacheStep ==
  /\ Cache \in used
  /\ MiddlewareCalls \/ CacheContinues \/ CacheLoop \/ LateStoreRequest \/ OtherRunStores \/ Tick
  /\ UNCHANGED scheduler

ThreadStep ==
  /\ Closing \/ \E th \in Threads : Loop(th)
  /\ UNCHANGED <<scheduler, cache>>

FailureStep == \E th \in Threads : StorageFails(th) /\ UNCHANGED <<scheduler, cache>>

Next ==
  (SchedulerStep \/ CacheStep \/ ThreadStep \/ FailureStep \/ Restart) /\ UNCHANGED used

Spec == Init /\ [][Next]_vars

(* Each thread goes on with what it has begun, the storages answer, and     *)
(* the engine keeps opening the scheduler and asking it for requests, as it *)
(* does at least with every heartbeat.                                      *)
Fairness ==
  /\ \A th \in Threads : WF_vars(Loop(th) /\ UNCHANGED <<scheduler, cache, used>>)
  /\ WF_vars(Closing /\ UNCHANGED <<scheduler, cache, used>>)
  /\ WF_vars((QueueActs \/ Continues) /\ UNCHANGED <<cache, used>>)
  /\ WF_vars((CacheLoop \/ CacheContinues) /\ UNCHANGED <<scheduler, used>>)
  /\ SF_vars(Scheduler \in used /\ (Open \/ NextRequest) /\ UNCHANGED <<cache, used>>)

FairSpec == Spec /\ Fairness

-----------------------------------------------------------------------------
(* The type of every variable; a loop nobody started yet holds nothing.     *)
TypeOK ==
  /\ loop \in [Threads -> {"none", "starting", "running", "closed"}]
  /\ ready \in [Threads -> Seq(Callbacks)]
  /\ tasks \in [Threads -> SUBSET [coro : Coros, result : Results]]
  /\ \A th \in Threads : loop[th] = "none" => ready[th] = <<>> /\ tasks[th] = {}
  /\ outcome \in Results
  /\ reactor \in Places /\ gone \cup interrupted \subseteq Threads
  /\ sent \subseteq Sendable
  /\ platform \in [Requests -> {"absent", "pending", "handled"}]
  /\ head \cup in_progress \cup handled_here \cup before \cup untold \subseteq Requests
  /\ given \in [Requests -> Nat]
  /\ entries \in [Keys -> {NoEntry} \cup [time : 0..MaxTime, form : Forms]]
  /\ clock \in 0..MaxTime
  /\ sweep \in [now : 0..MaxTime, done : SUBSET Keys, key : Keys \cup {NoKey},
                seen : {NoEntry} \cup [time : 0..MaxTime, form : Forms]]
  /\ sweep.now <= clock
=============================================================================
