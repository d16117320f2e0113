------------------------- MODULE RequestQueueSingle -------------------------
(***************************************************************************)
(* The single-consumer request queue client: one client object shared by    *)
(* the asyncio tasks of a process, the platform's queue behind it, and      *)
(* other clients that add requests to the same queue.                       *)
(*                                                                          *)
(* Every await on the API is two steps: the platform executes the call      *)
(* (Answer), and later the task resumes with that answer, stale by then if  *)
(* others moved on.  Between two awaits a task runs alone.  A call fails    *)
(* before the platform executed it or after (Fail).                         *)
(*                                                                          *)
(* A request is its ID.  The order of the requests in a batch and in a head *)
(* listing is left open.  The LRU cache is taken to be large enough (it     *)
(* holds a million requests).  The first element of `head` is the right end *)
(* of the deque, the one popped next.                                       *)
(***************************************************************************)
EXTENDS Integers, SequencesExt

CONSTANTS
  Producers,       \* asyncio tasks that add requests and look them up
  Consumers,       \* asyncio tasks that fetch and process them; may be the same
  Requests,        \* request IDs
  NoRequest,
  Batches,         \* the arguments of add_batch_of_requests
  Initially,       \* what the queue may hold when the process starts
  OthersAdd,       \* requests other clients may add
  OthersHandle,    \* requests other clients may mark as handled
  ReclaimsHandled, \* TRUE: tasks reclaim requests they marked as handled
  MaxCalls,        \* bound: calls that add or reclaim in one behaviour
  MaxFailures      \* bound: failed API calls in one behaviour

Tasks == Producers \cup Consumers

Status == {"absent", "pending", "handled"}

ASSUME QueueAssumption ==
  /\ IsFiniteSet(Requests) /\ NoRequest \notin Requests
  /\ Batches \subseteq (SUBSET Requests) \ {{}}
  /\ Initially \subseteq [Requests -> Status]
  /\ OthersAdd \subseteq Requests /\ OthersHandle \subseteq Requests
  /\ ReclaimsHandled \in BOOLEAN
  /\ MaxCalls \in Nat /\ MaxFailures \in Nat

VARIABLES
  platform,    \* the platform's view of each request
  initialized, \* _initialized_caches
  cache,       \* _requests_cache
  head,        \* _head_requests
  handled,     \* _requests_already_handled
  inProgress,  \* _requests_in_progress
  beingAdded,  \* _requests_being_added
  metadata,    \* local metadata.total_request_count, .handled_request_count
  pc,          \* the await each task is suspended at
  op,          \* the arguments and locals of each task's call
  holds,       \* the request each task was handed
  added,       \* history: requests whose addition was confirmed to this client
  done,        \* history: requests marked as handled and not reclaimed since
  calls, failures

clientVars == <<initialized, cache, head, handled, inProgress, beingAdded, metadata>>
taskVars == <<pc, op, holds>>
historyVars == <<added, done>>
vars == <<platform, clientVars, taskVars, historyVars, calls, failures>>

ApiCalls == {"list_requests", "batch_add", "list_head", "get_request", "update_request"}

(* batch: what add_batch_of_requests was called with, then what it sends;   *)
(* answered, seen, rejected: whether the platform executed the call, what   *)
(* it held then, which requests of a batch it did not process; known: the   *)
(* requests reported as present already; new: those reported as added;      *)
(* waits: those another task's call is adding.                              *)
OpRecord ==
  [call : {"none", "add", "fetch", "finished", "get", "mark", "reclaim"},
   batch : SUBSET Requests, request : Requests \cup {NoRequest},
   answered : BOOLEAN, seen : [Requests -> Status], rejected : SUBSET Requests,
   known : SUBSET Requests, new : SUBSET Requests, waits : SUBSET Requests,
   finished : BOOLEAN]

Nothing == [r \in Requests |-> "absent"]

NewOp(call, b, r) ==
  [call |-> call, batch |-> b, request |-> r,
   answered |-> FALSE, seen |-> Nothing, rejected |-> {},
   known |-> {}, new |-> {}, waits |-> {}, finished |-> FALSE]

NoOp == NewOp("none", {}, NoRequest)

(* What a task holds: a request, whether its handled_at is set, and whether *)
(* the task still processes it or has marked it as handled.                 *)
Held(r, stamped, processing) == [request |-> r, stamped |-> stamped, processing |-> processing]
HoldsNothing == Held(NoRequest, FALSE, FALSE)

Holding(t, r) == holds[t].request = r /\ holds[t].processing

Count(held, status) == Cardinality({r \in Requests : held[r] \in status})

Init ==
  /\ platform \in Initially
  /\ initialized = FALSE
  /\ cache = {} /\ head = <<>> /\ handled = {} /\ inProgress = {} /\ beingAdded = {}
  /\ metadata = [total |-> Count(platform, {"pending", "handled"}),
                 handled |-> Count(platform, {"handled"})]
  /\ pc = [t \in Tasks |-> "idle"]
  /\ op = [t \in Tasks |-> NoOp]
  /\ holds = [t \in Tasks |-> HoldsNothing]
  /\ added = {} /\ done = {}
  /\ calls = 0 /\ failures = 0

Idle(t) == pc[t] = "idle"
Calls(t) == Idle(t) /\ calls < MaxCalls /\ calls' = calls + 1

Awaits(t, at, record) ==
  pc' = [pc EXCEPT ![t] = at] /\ op' = [op EXCEPT ![t] = record]

Returns(t, record) == Awaits(t, "idle", record)

Answered(t, at) == pc[t] = at /\ op[t].answered

-----------------------------------------------------------------------------
(* The platform.                                                            *)

Reply(t) == [op[t] EXCEPT !.answered = TRUE, !.seen = platform]

(* A read returns what the platform holds; a request it should know may     *)
(* still come back as None.                                                 *)
AnswerRead(t) ==
  /\ pc[t] \in {"list_requests", "list_head", "get_request"} /\ ~op[t].answered
  /\ \/ op' = [op EXCEPT ![t] = Reply(t)] /\ UNCHANGED failures
     \/ /\ pc[t] = "get_request" /\ failures < MaxFailures /\ failures' = failures + 1
        /\ op' = [op EXCEPT ![t] = [Reply(t) EXCEPT !.seen = Nothing]]
  /\ UNCHANGED <<platform, clientVars, pc, holds, historyVars, calls>>

(* Of a batch the platform may leave requests unprocessed; those it holds   *)
(* already stay as they are.                                                *)
AnswerBatch(t) ==
  /\ pc[t] = "batch_add" /\ ~op[t].answered
  /\ \E rejected \in SUBSET op[t].batch :
       /\ rejected # {} => failures < MaxFailures
       /\ failures' = IF rejected = {} THEN failures ELSE failures + 1
       /\ op' = [op EXCEPT ![t] = [Reply(t) EXCEPT !.rejected = rejected]]
       /\ platform' = [r \in Requests |->
            IF r \in op[t].batch \ rejected /\ platform[r] = "absent"
            THEN "pending" ELSE platform[r]]
  /\ UNCHANGED <<clientVars, pc, holds, historyVars, calls>>

(* An update is an upsert; its answer tells what the request was before.    *)
AnswerUpdate(t) ==
  /\ pc[t] = "update_request" /\ ~op[t].answered
  /\ platform' = [platform EXCEPT ![op[t].request] =
                    IF op[t].call = "mark" THEN "handled" ELSE "pending"]
  /\ op' = [op EXCEPT ![t] = Reply(t)]
  /\ UNCHANGED <<clientVars, pc, holds, historyVars, calls, failures>>

OtherAdds(r) ==
  /\ r \in OthersAdd /\ platform[r] = "absent"
  /\ platform' = [platform EXCEPT ![r] = "pending"]
  /\ UNCHANGED <<clientVars, taskVars, historyVars, calls, failures>>

OtherHandles(r) ==
  /\ r \in OthersHandle /\ platform[r] = "pending"
  /\ platform' = [platform EXCEPT ![r] = "handled"]
  /\ UNCHANGED <<clientVars, taskVars, historyVars, calls, failures>>

-----------------------------------------------------------------------------
(* add_batch_of_requests.                                                   *)

AlwaysSends(b) == b \ (handled' \cup cache')

(* What of a batch must go to the platform: no one here knows it yet, and   *)
(* no concurrent call is sending it.                                        *)
ToSend(b) == b \ (handled' \cup cache' \cup beingAdded)

(* Sort the batch into known, being added and new requests, and send the    *)
(* new ones; with none to send the call waits for the others, if any.       *)
Dispatch(t, b) ==
  LET known == b \cap (handled' \cup cache')
      send == ToSend(b)
      waits == b \ (known \cup send)
      record == [NewOp("add", send, NoRequest) EXCEPT !.known = known, !.waits = waits]
  IN  /\ beingAdded' = beingAdded \cup send
      /\ IF send # {} THEN Awaits(t, "batch_add", record)
         ELSE IF waits # {} THEN Awaits(t, "in_flight", record)
         ELSE Returns(t, record)

CallAdd(t) ==
  /\ Calls(t)
  /\ \E b \in Batches :
       IF initialized THEN UNCHANGED <<cache, handled>> /\ Dispatch(t, b)
       ELSE /\ Awaits(t, "list_requests", NewOp("add", b, NoRequest))
            /\ UNCHANGED <<cache, handled, beingAdded>>
  /\ UNCHANGED <<platform, initialized, head, inProgress, metadata, holds, historyVars, failures>>

(* _init_caches: a call that found the caches uninitialized fills them,     *)
(* also when another one did so meanwhile, and goes on with its batch.      *)
CachesListed(t) ==
  /\ Answered(t, "list_requests")
  /\ handled' = handled \cup {r \in Requests : op[t].seen[r] = "handled"}
  /\ cache' = cache \cup {r \in Requests : op[t].seen[r] = "pending"}
  /\ initialized' = TRUE
  /\ Dispatch(t, op[t].batch)
  /\ UNCHANGED <<platform, head, inProgress, metadata, holds, historyVars, calls, failures>>

CommitAll(t) == op[t].batch

(* The requests of t's batch the platform accepted.                         *)
Committed(t) == op[t].batch \ op[t].rejected

CountsEveryAdded(record) == Cardinality(record.new \cup record.known)

CountsAsNew(record) == Cardinality(record.new)

SettleCommitted(t, at, record, committed) ==
  /\ beingAdded' = beingAdded \ op[t].batch
  /\ pc' = [pc EXCEPT ![t] = at]
  /\ op' = [u \in Tasks |->
       IF u = t THEN record
       ELSE [op[u] EXCEPT !.known = @ \cup (op[u].waits \cap committed),
                          !.waits = @ \ committed]]

(* settle_pending_addition for t's whole batch: the markers go, and every   *)
(* task that waits for one learns whether its request was committed.        *)
Settle(t, at, record, committed) ==
  /\ beingAdded' = beingAdded \ op[t].batch
  /\ pc' = [pc EXCEPT ![t] = at]
  /\ op' = [u \in Tasks |->
       IF u = t THEN record
       ELSE [op[u] EXCEPT !.known = @ \cup (op[u].waits \cap committed),
                          !.waits = @ \ op[t].batch]]

(* Commit what the platform accepted to the cache and to the local head (at *)
(* its top for forefront), settle the markers, then wait for the requests   *)
(* other tasks are adding, or return and count the new ones.                *)
BatchAnswered(t) ==
  /\ Answered(t, "batch_add")
  /\ LET committed == Committed(t)
         record == [op[t] EXCEPT !.batch = {},
                      !.new = {r \in committed : op[t].seen[r] = "absent"},
                      !.known = @ \cup {r \in committed : op[t].seen[r] # "absent"}]
     IN  /\ cache' = cache \cup committed
         /\ \E news \in SetToSeqs(committed) : head' \in {head \o news, news \o head}
         /\ added' = added \cup committed
         /\ Settle(t, IF record.waits = {} THEN "idle" ELSE "in_flight", record, committed)
         /\ metadata' = IF record.waits = {}
                        THEN [metadata EXCEPT !.total = @ + CountsAsNew(record)] ELSE metadata
  /\ UNCHANGED <<platform, initialized, handled, inProgress, holds, done, calls, failures>>

(* The last awaited marker has been settled.                                *)
AddReturns(t) ==
  /\ pc[t] = "in_flight" /\ op[t].waits = {}
  /\ metadata' = [metadata EXCEPT !.total = @ + CountsAsNew(op[t])]
  /\ Returns(t, op[t])
  /\ UNCHANGED <<platform, initialized, cache, head, handled, inProgress, beingAdded, holds,
                 historyVars, calls, failures>>

-----------------------------------------------------------------------------
(* fetch_next_request, is_empty and is_finished.                            *)

(* A listing adds, at the end of the head, the pending requests that are    *)
(* not in progress, not known as handled and not in the head yet.           *)
IsNews(r) == r \notin inProgress \cup handled \cup ToSet(head)

HeadWithNews(t) ==
  {head \o news : news \in SetToSeqs({r \in Requests : op[t].seen[r] = "pending" /\ IsNews(r)})}

SkipsInProgress(r, progress) == r \in progress

(* What a task pops off the head and throws away: another one has it, or it *)
(* was handled since it got there.                                          *)
Skips(r, progress) == r \in progress \cup handled

PopUnreserved(t, h, progress) ==
  LET open == {i \in DOMAIN h : ~Skips(h[i], progress)}
  IN  IF open = {}
      THEN /\ head' = <<>> /\ inProgress' = progress
           /\ Returns(t, NoOp) /\ UNCHANGED holds
      ELSE \E next \in open :
             /\ \A i \in open : next <= i
             /\ head' = SubSeq(h, next + 1, Len(h))
             /\ IF h[next] \in cache
                THEN /\ holds' = [holds EXCEPT ![t] = Held(h[next], FALSE, TRUE)]
                     /\ inProgress' = progress \cup {h[next]}
                     /\ Returns(t, NoOp)
                ELSE /\ Awaits(t, "get_request", NewOp("fetch", {}, h[next]))
                     /\ inProgress' = progress /\ UNCHANGED holds

(* Pop requests off h until one is neither in progress nor handled; hand it *)
(* over if it is cached, otherwise ask the platform for it.                 *)
PopFrom(t, h, progress) ==
  LET open == {i \in DOMAIN h : ~Skips(h[i], progress)}
  IN  IF open = {}
      THEN /\ head' = <<>> /\ inProgress' = progress
           /\ Returns(t, NoOp) /\ UNCHANGED holds
      ELSE \E next \in open :
             /\ \A i \in open : next <= i
             /\ head' = SubSeq(h, next + 1, Len(h))
             /\ inProgress' = progress \cup {h[next]}
             /\ IF h[next] \in cache
                THEN holds' = [holds EXCEPT ![t] = Held(h[next], FALSE, TRUE)] /\ Returns(t, NoOp)
                ELSE Awaits(t, "get_request", NewOp("fetch", {}, h[next])) /\ UNCHANGED holds

(* A task that is done with its request asks for the next one.              *)
CallFetch(t) ==
  /\ Idle(t) /\ ~holds[t].processing
  /\ IF Len(head) <= 1
     THEN /\ Awaits(t, "list_head", NewOp("fetch", {}, NoRequest))
          /\ UNCHANGED <<head, inProgress, holds>>
     ELSE PopFrom(t, head, inProgress)
  /\ UNCHANGED <<platform, initialized, cache, handled, beingAdded, metadata, historyVars,
                 calls, failures>>

FetchHeadListed(t) ==
  /\ Answered(t, "list_head") /\ op[t].call = "fetch"
  /\ \E h \in HeadWithNews(t) : PopFrom(t, h, inProgress)
  /\ UNCHANGED <<platform, initialized, cache, handled, beingAdded, metadata, historyVars,
                 calls, failures>>

(* The request comes back as the platform has it, handled or not; a None    *)
(* releases the ID and the loop goes on.                                    *)
FetchedRequest(t) ==
  /\ Answered(t, "get_request") /\ op[t].call = "fetch"
  /\ LET r == op[t].request
         status == op[t].seen[r]
     IN  IF status = "absent"
         THEN PopFrom(t, head, inProgress \ {r})
         ELSE /\ holds' = [holds EXCEPT ![t] = Held(r, status = "handled", TRUE)]
              /\ Returns(t, NoOp)
              /\ UNCHANGED <<head, inProgress>>
  /\ UNCHANGED <<platform, initialized, cache, handled, beingAdded, metadata, historyVars,
                 calls, failures>>

Emptied == head' = <<>>

(* is_finished is is_empty and nothing in progress, the latter read after   *)
(* the former's await.                                                      *)
Finished == head' = <<>> /\ inProgress = {}

Verdict(t) == Returns(t, [NewOp("finished", {}, NoRequest) EXCEPT !.finished = Finished])

CallFinished(t) ==
  /\ Idle(t)
  /\ IF Len(head) <= 1 THEN Awaits(t, "list_head", NewOp("finished", {}, NoRequest))
     ELSE head' = head /\ Verdict(t)
  /\ UNCHANGED <<platform, clientVars, holds, historyVars, calls, failures>>

FinishedHeadListed(t) ==
  /\ Answered(t, "list_head") /\ op[t].call = "finished"
  /\ head' \in HeadWithNews(t)
  /\ Verdict(t)
  /\ UNCHANGED <<platform, initialized, cache, handled, inProgress, beingAdded, metadata, holds,
                 historyVars, calls, failures>>

-----------------------------------------------------------------------------
(* get_request by unique key.                                               *)

CallGet(t) ==
  /\ Idle(t)
  /\ \E r \in Requests :
       IF r \in cache THEN Returns(t, NoOp)
       ELSE Awaits(t, "get_request", NewOp("get", {}, r))
  /\ UNCHANGED <<platform, clientVars, holds, historyVars, calls, failures>>

GotRequest(t) ==
  /\ Answered(t, "get_request") /\ op[t].call = "get"
  /\ LET r == op[t].request
         status == IF op[t].request \in inProgress THEN "absent" ELSE op[t].seen[r]
     IN  /\ handled' = IF status = "handled" THEN handled \cup {r} ELSE handled
         /\ cache' = IF status = "pending" THEN cache \cup {r} ELSE cache
         /\ Returns(t, NoOp)
  /\ UNCHANGED <<platform, initialized, head, inProgress, beingAdded, metadata, holds,
                 historyVars, calls, failures>>

-----------------------------------------------------------------------------
(* mark_request_as_handled and reclaim_request: the local state changes     *)
(* first, then the platform is told; a failed update is only logged.        *)

CallMark(t) ==
  /\ Idle(t) /\ holds[t].processing
  /\ LET r == holds[t].request
     IN  /\ handled' = handled \cup {r}
         /\ inProgress' = inProgress \ {r}
         /\ cache' = cache \ {r}
         /\ done' = done \cup {r}
         /\ metadata' = IF holds[t].stamped THEN metadata
                        ELSE [metadata EXCEPT !.handled = @ + 1]
         /\ Awaits(t, "update_request", NewOp("mark", {}, r))
         /\ holds' = [holds EXCEPT ![t] = IF ReclaimsHandled THEN Held(r, TRUE, FALSE)
                                          ELSE HoldsNothing]
  /\ UNCHANGED <<platform, initialized, head, beingAdded, added, calls, failures>>

ReclaimInProgress(t) ==
  /\ Calls(t) /\ holds[t] # HoldsNothing
  /\ LET r == holds[t].request
     IN  /\ cache' = cache \cup {r}
         /\ handled' = handled \ {r}
         /\ done' = done \ {r}
         /\ head' \in {head, <<r>> \o head}
         /\ Awaits(t, "update_request", NewOp("reclaim", {}, r))
         /\ holds' = [holds EXCEPT ![t] = HoldsNothing]
  /\ UNCHANGED <<platform, initialized, inProgress, beingAdded, metadata, added, failures>>

CallReclaim(t) ==
  /\ Calls(t) /\ holds[t] # HoldsNothing
  /\ LET r == holds[t].request
     IN  /\ cache' = cache \cup {r}
         /\ inProgress' = inProgress \ {r}
         /\ handled' = handled \ {r}
         /\ done' = done \ {r}
         /\ head' \in {head, <<r>> \o head}  \* forefront=False, forefront=True
         /\ Awaits(t, "update_request", NewOp("reclaim", {}, r))
         /\ holds' = [holds EXCEPT ![t] = HoldsNothing]
  /\ UNCHANGED <<platform, initialized, beingAdded, metadata, added, failures>>

Updated(t) ==
  /\ Answered(t, "update_request")
  /\ metadata' = IF op[t].call = "reclaim" /\ op[t].seen[op[t].request] = "handled"
                 THEN [metadata EXCEPT !.handled = @ - 1] ELSE metadata
  /\ Returns(t, NoOp)
  /\ UNCHANGED <<platform, initialized, cache, head, handled, inProgress, beingAdded, holds,
                 historyVars, calls, failures>>

-----------------------------------------------------------------------------
(* An API call fails, or its answer is lost.  A failed batch settles its    *)
(* markers as not committed; any other call changes nothing it has not      *)
(* changed yet.                                                             *)
Fail(t) ==
  /\ pc[t] \in ApiCalls
  /\ failures < MaxFailures /\ failures' = failures + 1
  /\ IF pc[t] = "batch_add" THEN Settle(t, "idle", NoOp, {})
     ELSE Returns(t, NoOp) /\ UNCHANGED beingAdded
  /\ UNCHANGED <<platform, initialized, cache, head, handled, inProgress, metadata, holds,
                 historyVars, calls>>

Call(t) ==
  \/ t \in Producers /\ (CallAdd(t) \/ CallGet(t))
  \/ t \in Consumers /\ (CallFetch(t) \/ CallFinished(t) \/ CallMark(t) \/ CallReclaim(t))

Answer(t) == AnswerRead(t) \/ AnswerBatch(t) \/ AnswerUpdate(t)

Resume(t) ==
  \/ CachesListed(t) \/ BatchAnswered(t) \/ AddReturns(t)
  \/ FetchHeadListed(t) \/ FetchedRequest(t) \/ FinishedHeadListed(t)
  \/ GotRequest(t) \/ Updated(t)

Step(t) == Call(t) \/ Answer(t) \/ Resume(t) \/ Fail(t)

Next ==
  \/ \E t \in Tasks : Step(t)
  \/ \E r \in Requests : OtherAdds(r) \/ OtherHandles(r)

Spec == Init /\ [][Next]_vars

(* The API answers every call in the end, and the event loop resumes a task *)
(* whose await is over.                                                     *)
Fairness == \A t \in Tasks : WF_vars(Answer(t)) /\ WF_vars(Resume(t))

FairSpec == Spec /\ Fairness

(* What the code that uses the client does besides: each consumer goes on   *)
(* fetching, and marks what it was handed as handled in the end.            *)
Consuming == \A t \in Consumers : SF_vars(CallFetch(t)) /\ SF_vars(CallMark(t))

ConsumedSpec == FairSpec /\ Consuming

-----------------------------------------------------------------------------
(* Properties.                                                              *)

TypeOK ==
  /\ platform \in [Requests -> Status] /\ initialized \in BOOLEAN
  /\ cache \subseteq Requests /\ handled \subseteq Requests
  /\ inProgress \subseteq Requests /\ beingAdded \subseteq Requests
  /\ head \in Seq(Requests)
  /\ metadata \in [total : Nat, handled : Int]
  /\ pc \in [Tasks -> ApiCalls \cup {"idle", "in_flight"}]
  /\ op \in [Tasks -> OpRecord]
  /\ holds \in [Tasks -> [request : Requests, stamped : BOOLEAN, processing : BOOLEAN]
                         \cup {HoldsNothing}]
  /\ added \subseteq Requests /\ done \subseteq Requests
  /\ calls \in 0..MaxCalls /\ failures \in 0..MaxFailures

(* No false success: a request that add_batch_of_requests reports as added  *)
(* or present is on the platform, also when the call relied on another one  *)
(* that failed, lost its answer or left the request unprocessed.            *)
AddsTruthful ==
  \A t \in Tasks, r \in Requests :
    op[t].call = "add" /\ r \in op[t].known \cup op[t].new => platform[r] # "absent"

(* Each request costs one write: no two calls send it at the same time, and *)
(* none sends it once the platform has confirmed it to this client, however *)
(* often it was fetched, handled and reclaimed since.                       *)
SendsOnce ==
  \A t \in Tasks : pc[t] = "batch_add" =>
    /\ op[t].batch \cap added = {}
    /\ \A u \in Tasks \ {t} : pc[u] = "batch_add" => op[t].batch \cap op[u].batch = {}

(* A request is in the hands of one task at a time, and of none between its *)
(* marking as handled and its reclaim.                                      *)
HandedOutOnce ==
  \A t \in Tasks, r \in Requests : Holding(t, r) =>
    /\ r \notin done
    /\ \A u \in Tasks \ {t} : ~Holding(u, r)

(* To the tasks, the client and what lies behind it are a work queue: each  *)
(* of its steps is one the abstract queue allows, or none it can see.       *)
Work == INSTANCE WorkQueue WITH
  Workers <- Tasks,
  queued <- {r \in Requests : platform[r] # "absent"},
  finished <- done,
  holder <- [t \in Tasks |-> IF holds[t].processing THEN holds[t].request ELSE NoRequest]

ImplementsWorkQueue == Work!Spec

(* is_finished says True only when every request that was pending when its  *)
(* head listing was taken has been handled, however long the listing was on *)
(* its way and whatever was fetched and reclaimed meanwhile.  Not so where  *)
(* a handled request is reopened, by a task that reclaims what it marked or *)
(* what another client handled meanwhile: a listing of the queue that is    *)
(* applied late then puts it among the handled once more.                   *)
Concludes(t) == pc[t] = "list_head" /\ pc'[t] = "idle" /\ op'[t].finished

FinishedCoversListing ==
  [][\A t \in Tasks : Concludes(t) /\ OthersHandle = {} /\ ~ReclaimsHandled =>
       \A r \in Requests : op[t].seen[r] = "pending" => r \in done \/ platform[r] = "handled"]_vars

(* The local counters are those of the platform whenever no call is under   *)
(* way, if no call failed and no other client touched the queue: each       *)
(* request is counted by exactly one of the calls that add it.  That of the *)
(* handled requests is so unless a task reclaims what it has marked: a mark *)
(* by the next task can overtake such a reclaim on the way to the platform, *)
(* and then two marks were counted and one reclaim.                         *)
CountsMatchPlatform ==
  failures = 0 /\ OthersAdd = {} /\ OthersHandle = {} /\ (\A t \in Tasks : Idle(t)) =>
    /\ metadata.total = Count(platform, {"pending", "handled"})
    /\ ~ReclaimsHandled => metadata.handled = Count(platform, {"handled"})

(* No call waits forever, in particular not for the outcome of a request    *)
(* another one was adding.                                                  *)
CallsReturn == \A t \in Tasks : ~Idle(t) ~> Idle(t)

(* While consumers go on fetching, every added request gets handled,        *)
(* however often it is reclaimed before.                                    *)
AddedGetsHandled ==
  \A r \in Requests : r \in added ~> (r \in done \/ platform[r] = "handled")

-----------------------------------------------------------------------------
(* A statement of the documentation that the code's behaviour does not      *)
(* keep.                                                                    *)

(* docs/02_concepts/03_storages.mdx: "To check if all the requests in the   *)
(* queue are handled": those this very client has added are.                *)
FinishedMeansHandled ==
  [][\A t \in Tasks : Concludes(t) =>
       \A r \in added : r \in done \/ platform[r] = "handled"]_vars
=============================================================================
