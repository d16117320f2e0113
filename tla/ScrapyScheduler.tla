-------------------------- MODULE ScrapyScheduler --------------------------
(***************************************************************************)
(* ApifyScheduler: Scrapy's queue of requests, kept in an Apify request     *)
(* queue that is driven from an AsyncThread.  Each call of the engine runs  *)
(* one coroutine and waits; next_request runs two, to fetch a request and   *)
(* to mark it as handled before the engine gets it.                         *)
(*                                                                          *)
(* The queue is the one of RequestQueueSingle at the grain of its calls:    *)
(* what the client knows changes at one point of a call, what it asks of    *)
(* the platform is executed at a later one, and the call may be given up    *)
(* on, or fail, before, between and after them.                             *)
(***************************************************************************)
EXTENDS AsyncThread

CONSTANTS
  Scheduler,   \* the thread of the scheduler
  Requests, NoRequest,
  Malformed    \* entries to_scrapy_request cannot rebuild

ASSUME SchedulerAssumption ==
  /\ Scheduler \in Threads
  /\ ({NoRequest, "raised"} \cup Unanswered) \cap Requests = {} /\ Malformed \subseteq Requests

VARIABLES
  platform,      \* what the platform has of each request: "absent", "pending" or "handled"
  head,          \* _head_requests
  in_progress,   \* _requests_in_progress
  handled_here,  \* _requests_already_handled
  rq,            \* whether _rq is set
  given,         \* history: how often the engine of this process got each request
  before,        \* history: requests engines of earlier processes got, but for untold ones
  untold,        \* history: requests whose update as handled failed in this process
  disturbed      \* history: a call of next_request raised

queue == <<platform, head, in_progress, handled_here>>
history == <<given, before, untold, disturbed>>
scheduler == <<queue, rq, history>>

(* Entries of an earlier version are there from the start.                  *)
SchedulerInit(used) ==
  /\ platform = [r \in Requests |-> IF used /\ r \in Malformed THEN "pending" ELSE "absent"]
  /\ head = {} /\ in_progress = {} /\ handled_here = {} /\ rq = FALSE
  /\ given = [r \in Requests |-> 0] /\ before = {} /\ untold = {} /\ disturbed = FALSE

Calls(call, arg) ==
  /\ reactor = Idle /\ Scheduler \notin gone
  /\ Runs(Scheduler, call, arg)
  /\ UNCHANGED <<loop, tasks, sent, gone, interrupted, troubles, scheduler>>

-----------------------------------------------------------------------------
(* The engine's calls.                                                      *)

Open == ~rq /\ Calls("open", NoRequest)

HasPendingRequests == rq /\ Calls("is_finished", NoRequest)

(* A request that cannot be converted is refused and gets no further.       *)
EnqueueRequest == rq /\ \E r \in Requests \ Malformed : Calls("add_request", r)

NextRequest == rq /\ Calls("fetch_next_request", NoRequest)

CloseScheduler ==
  /\ reactor = Idle /\ Scheduler \notin gone
  /\ gone' = gone \cup {Scheduler}
  /\ Moves("close", Scheduler, NoCoro)
  /\ UNCHANGED <<thread, scheduler>>

-----------------------------------------------------------------------------
(* The queue's client, on the loop.                                         *)

Known == in_progress \cup handled_here

(* _list_head: a short head gets what the platform has pending and the      *)
(* client does not know to be in progress or handled.                       *)
Listed ==
  head \cup {r \in Requests : Cardinality(head) <= 1 /\ platform[r] = "pending" /\ r \notin Known}

Opens(t) ==
  t.coro.call = "open" /\ Keeps(Scheduler, t, "opened") /\ UNCHANGED <<sent, queue>>

IsFinished(t) ==
  /\ t.coro.call = "is_finished"
  /\ Keeps(Scheduler, t, IF Listed = {} /\ in_progress = {} THEN "finished" ELSE "unfinished")
  /\ head' = Listed
  /\ UNCHANGED <<sent, platform, in_progress, handled_here>>

(* What is known is popped and skipped on the way to the next request.      *)
FetchNextRequest(t) ==
  /\ t.coro.call = "fetch_next_request"
  /\ \/ /\ Listed \subseteq Known
        /\ Keeps(Scheduler, t, NoRequest) /\ head' = {} /\ UNCHANGED in_progress
     \/ \E r \in Listed \ Known, skipped \in SUBSET (Listed \cap Known) :
          /\ Keeps(Scheduler, t, r)
          /\ head' = Listed \ ({r} \cup skipped) /\ in_progress' = in_progress \cup {r}
  /\ UNCHANGED <<sent, platform, handled_here>>

(* A request that is there already is recognized: the first call fills the  *)
(* client's caches from the platform.                                       *)
AddRequest(t) ==
  /\ t.coro.call = "add_request"
  /\ IF platform[t.coro.arg] = "absent"
     THEN Sends(Scheduler, t, Request("add_request", t.coro.arg))
     ELSE Keeps(Scheduler, t, "was_already_present") /\ UNCHANGED sent
  /\ UNCHANGED queue

(* The client takes the request for handled before the platform learns.     *)
MarkRequestAsHandled(t) ==
  /\ t.coro.call = "mark_request_as_handled"
  /\ handled_here' = handled_here \cup {t.coro.arg}
  /\ in_progress' = in_progress \ {t.coro.arg}
  /\ Sends(Scheduler, t, Request("mark_request_as_handled", t.coro.arg))
  /\ UNCHANGED <<platform, head>>

(* An update that fails is logged, and mark_request_as_handled returns; the *)
(* request sent may or may not be executed later.                           *)
UpdateFails ==
  /\ Trouble
  /\ \E t \in tasks[Scheduler] :
       /\ t.coro.call = "mark_request_as_handled" /\ t.result = "sent"
       /\ Keeps(Scheduler, t, "marked")
       /\ untold' = untold \cup {t.coro.arg}
  /\ UNCHANGED <<loop, ready, sent, reactor, gone, interrupted>>
  /\ UNCHANGED <<queue, rq, given, before, disturbed>>

(* A call raises, before or after what it sent was executed: not so one     *)
(* that is ending already.                                                  *)
StorageFails(th) ==
  /\ Trouble
  /\ \E t \in tasks[th] :
       t.coro.call # "shutdown" /\ t.result # "cancelled" /\ Ended(th, t, "raised")
  /\ UNCHANGED <<loop, ready, sent, reactor, gone, interrupted>>

IsAwaited(request) == \E t \in tasks[Scheduler] : Awaiting(t, request)

(* The platform's side; a call that learns of its addition adds to the head. *)
Adds(request) ==
  /\ request.call = "add_request"
  /\ platform' = [platform EXCEPT ![request.arg] = IF @ = "absent" THEN "pending" ELSE @]
  /\ head' = IF IsAwaited(request) THEN head \cup {request.arg} ELSE head
  /\ Executed(Scheduler, request,
       IF platform[request.arg] = "absent" THEN "added" ELSE "was_already_present")

Updates(request) ==
  /\ request.call = "mark_request_as_handled"
  /\ platform' = [platform EXCEPT ![request.arg] = "handled"] /\ UNCHANGED head
  /\ Executed(Scheduler, request, "marked")

Executes(request) ==
  /\ Adds(request) \/ Updates(request)
  /\ UNCHANGED <<loop, ready, reactor, gone, interrupted, troubles>>
  /\ UNCHANGED <<in_progress, handled_here, rq, history>>

QueueActs ==
  \/ /\ \E t \in tasks[Scheduler] :
          /\ t.result = Pending
          /\ Opens(t) \/ IsFinished(t) \/ FetchNextRequest(t) \/ AddRequest(t) \/ MarkRequestAsHandled(t)
     /\ UNCHANGED <<loop, ready, reactor, gone, interrupted, troubles, rq, history>>
  \/ \E request \in sent : IsAwaited(request) /\ Executes(request)

(* What nobody waits for any more reaches the platform late, or never.      *)
LateRequest == \E request \in sent : ~IsAwaited(request) /\ Executes(request)

-----------------------------------------------------------------------------
(* The rest of the calls, in the reactor's thread.                          *)

Opened ==
  /\ Returned(Scheduler, "open") /\ outcome # "raised"
  /\ rq' = TRUE
  /\ Ends
  /\ UNCHANGED <<thread, gone, queue, history>>

Raises(th) == Ends

(* A failed open closes the thread, then raises.                            *)
ClosesAndRaises(th) == Moves("close", th, NoCoro)

OpenFails ==
  /\ \/ /\ Returned(Scheduler, "open") /\ outcome = "raised"
        /\ UNCHANGED <<ready, interrupted, troubles>>
     \/ Awaits(Scheduler, "open") /\ TimesOut(Scheduler)
  /\ gone' = gone \cup {Scheduler}
  /\ ClosesAndRaises(Scheduler)
  /\ UNCHANGED <<loop, tasks, sent, scheduler>>

(* has_pending_requests and enqueue_request return or raise.                *)
Answered ==
  /\ \/ Returned(Scheduler, "is_finished")
     \/ Returned(Scheduler, "add_request")
  /\ Ends
  /\ UNCHANGED <<thread, gone, scheduler>>

(* to_scrapy_request does not raise.                                        *)
Rebuilt(r) == r \notin Malformed

MarksRebuilt(r) == r \in Requests /\ Rebuilt(r)

(* An entry that cannot be rebuilt is marked as well.                       *)
Marks(r) == r \in Requests

Fetched ==
  /\ Returned(Scheduler, "fetch_next_request")
  /\ IF Marks(outcome) THEN Runs(Scheduler, "mark_request_as_handled", outcome)
     ELSE Ends /\ UNCHANGED ready
  /\ disturbed' = (disturbed \/ outcome = "raised")
  /\ UNCHANGED <<loop, tasks, sent, gone, interrupted, troubles, queue, rq, given, before, untold>>

GivesRegardless(r) == Rebuilt(r)

Gives(r) == Rebuilt(r) /\ outcome # "raised"

Marked ==
  /\ Returned(Scheduler, "mark_request_as_handled")
  /\ LET r == reactor.coro.arg
     IN  given' = IF Gives(r) THEN [given EXCEPT ![r] = @ + 1] ELSE given
  /\ disturbed' = (disturbed \/ outcome = "raised")
  /\ Ends
  /\ UNCHANGED <<thread, gone, queue, rq, before, untold>>

(* A call that times out raises.                                            *)
CallTimesOut ==
  /\ \E call \in {"is_finished", "add_request", "fetch_next_request", "mark_request_as_handled"} :
       /\ Awaits(Scheduler, call) /\ TimesOut(Scheduler)
       /\ disturbed' = (disturbed \/ call \in {"fetch_next_request", "mark_request_as_handled"})
  /\ Ends
  /\ UNCHANGED <<loop, tasks, sent, gone, queue, rq, given, before, untold>>

(* No call catches a KeyboardInterrupt, open neither: the thread stays.     *)
CallInterrupted ==
  /\ reactor.at = "coro" /\ reactor.on = Scheduler /\ Interrupted(Scheduler)
  /\ Ends
  /\ UNCHANGED <<loop, tasks, sent, gone, scheduler>>

EngineCalls == Open \/ HasPendingRequests \/ EnqueueRequest \/ NextRequest \/ CloseScheduler

Continues ==
  Opened \/ OpenFails \/ Answered \/ Fetched \/ Marked \/ CallTimesOut \/ CallInterrupted

-----------------------------------------------------------------------------
(* Properties.                                                              *)

(* The engine gets a request at most once, and only when the platform has   *)
(* it as handled or its update failed and was only logged; so a later       *)
(* process gives no request again but such a one.  That holds whatever      *)
(* times out, fails, is interrupted or restarted between fetching a         *)
(* request, marking it and handing it over, and however late the platform   *)
(* executes what it was sent.                                               *)
GivenOnce ==
  \A r \in Requests :
    /\ given[r] <= 1
    /\ given[r] > 0 => r \in handled_here /\ (platform[r] = "handled" \/ r \in untold)
    /\ r \in before => given[r] = 0

(* While the engine keeps asking, each entry of the queue is handled in     *)
(* time, also one that cannot be rebuilt; unless its update failed, which   *)
(* the client skips from then on, a call of next_request was lost, whose    *)
(* request stays in progress, or a KeyboardInterrupt came.                  *)
QueueDrains ==
  \A r \in Requests :
    (platform[r] = "pending")
      ~> \/ platform[r] = "handled" \/ r \in untold
         \/ disturbed \/ Scheduler \in gone \cup interrupted
=============================================================================
