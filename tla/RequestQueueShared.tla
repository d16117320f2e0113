------------------------- MODULE RequestQueueShared -------------------------
(***************************************************************************)
(* The shared request queue client: several client objects (processes) on   *)
(* one platform queue, each shared by asyncio tasks.  The platform locks    *)
(* the requests it lists for a client for a while; the client hands out     *)
(* only requests it believes it still has locked.                           *)
(*                                                                          *)
(* As in RequestQueueSingle every await on the API is two steps, Answer and *)
(* the task's next step, and a request is its ID.  A point in time is how   *)
(* far it lies ahead, counted down by Tick: 0 is past, NoLease is None.     *)
(* The client's own clock readings are used before its next await, so       *)
(* nothing comes between.  The LRU cache is taken to be large enough.  A    *)
(* call that waits for the fetch lock is one that has not begun.            *)
(***************************************************************************)
EXTENDS Integers, SequencesExt

CONSTANTS
  Clients, Tasks,
  ClientOf,        \* the client each task uses
  Requests, NoRequest, NoClient,
  LockTime,        \* _DEFAULT_LOCK_TIME
  HandoffTime,     \* _MIN_LOCK_TIME_AT_HANDOFF, half of it
  Batches,         \* the arguments of add_batch_of_requests
  KeepsLease,      \* TRUE: calls are fast and tasks done within HandoffTime
  MaxCalls,        \* bound: calls that add or reclaim in one behaviour
  MaxFailures      \* bound: API calls that fail or lag in one behaviour

ASSUME SharedAssumption ==
  /\ ClientOf \in [Tasks -> Clients]
  /\ IsFiniteSet(Requests) /\ NoRequest \notin Requests /\ NoClient \notin Clients
  /\ HandoffTime \in Nat \ {0} /\ LockTime \in Nat /\ HandoffTime <= LockTime
  /\ Batches \subseteq (SUBSET Requests) \ {{}}
  /\ KeepsLease \in BOOLEAN /\ MaxCalls \in Nat /\ MaxFailures \in Nat

VARIABLES
  platform,  \* the platform's view of each request
  lock,      \* the platform's lock on each request: whose, for how long
  local,     \* the attributes of each client object
  pc,        \* the await each task is suspended at
  op,        \* the arguments and locals of each task's call
  holds,     \* the request each task was handed
  term,      \* history: what is left of the time each task was promised it for
  added,     \* history: requests whose addition was confirmed to each client
  done,      \* history: requests that were marked as handled on the platform
  calls, failures

taskVars == <<pc, op, holds, term>>
historyVars == <<added, done>>
vars == <<platform, lock, local, taskVars, historyVars, calls, failures>>

Status == {"absent", "pending", "handled"}
NoLease == -1
Lease == NoLease..LockTime
Unlocked == [owner |-> NoClient, left |-> 0]

(* A cache entry: the status its hydrated request shows, "no" without one;  *)
(* "uncached" stands for no entry.                                          *)
Entry(hydrated, left) == [hydrated |-> hydrated, left |-> left]
Uncached == Entry("uncached", NoLease)

NewClient(known) ==
  [cache |-> [r \in Requests |-> Uncached],  \* _requests_cache
   head |-> <<>>,                            \* _queue_head
   inProgress |-> {},                        \* _requests_in_progress
   beingAdded |-> {},                        \* _requests_being_added
   unhandled |-> {},                         \* _unhandled_request_ids
   locked |-> FALSE,                         \* _queue_has_locked_requests
   forefront |-> FALSE,                      \* _should_check_for_forefront_requests
   total |-> 0, handled |-> 0]               \* metadata

(* batch: the requests to send or to verify; request: the one a call is     *)
(* about; answered, seen, rejected: as in RequestQueueSingle; left: the     *)
(* lease of each listed request, or the one of a captured cache entry;      *)
(* known, new, waits: the outcomes of an addition, or, for is_finished, the *)
(* requests known when it began; forefront; rest: the leftovers of a head;  *)
(* yes: what the call has found out or returned.                            *)
NewOp(call) ==
  [call |-> call, batch |-> {}, request |-> NoRequest, answered |-> FALSE,
   seen |-> [r \in Requests |-> "absent"], rejected |-> {},
   left |-> [r \in Requests |-> NoLease], known |-> {}, new |-> {}, waits |-> {},
   forefront |-> FALSE, rest |-> <<>>, yes |-> FALSE]

NoOp == NewOp("none")

Init ==
  /\ platform = [r \in Requests |-> "absent"]
  /\ lock = [r \in Requests |-> Unlocked]
  /\ local = [c \in Clients |-> NewClient({})]
  /\ pc = [t \in Tasks |-> "idle"]
  /\ op = [t \in Tasks |-> NoOp]
  /\ holds = [t \in Tasks |-> NoRequest]
  /\ term = [t \in Tasks |-> 0]
  /\ added = [c \in Clients |-> {}] /\ done = {}
  /\ calls = 0 /\ failures = 0

My(t) == local[ClientOf[t]]
SameClient(t, u) == ClientOf[u] = ClientOf[t]
ManyClients == \E c, d \in Clients : c # d

Idle(t) == pc[t] = "idle"
Calls == calls < MaxCalls /\ calls' = calls + 1
MayFail == failures < MaxFailures /\ failures' = failures + 1

(* The awaits under _fetch_lock.                                            *)
LockFree(t) ==
  \A u \in Tasks : SameClient(t, u) =>
    /\ pc[u] \notin {"list_and_lock_head", "metadata", "verify"}
    /\ ~(pc[u] = "update_request" /\ op[u].call = "reclaim")

Awaits(t, at, record) == pc' = [pc EXCEPT ![t] = at] /\ op' = [op EXCEPT ![t] = record]
Returns(t) == Awaits(t, "idle", NoOp)
Answered(t, at) == pc[t] = at /\ op[t].answered
Pending(t, at) == pc[t] = at /\ ~op[t].answered

(* The client object of t becomes l.                                        *)
Becomes(t, l) == local' = [local EXCEPT ![ClientOf[t]] = l]

KeepsInProgress(l, r) == l

Discard(l, r) == [l EXCEPT !.inProgress = @ \ {r}]

(* _cache_request.                                                          *)
Cache(l, r, entry, isHandled) ==
  [l EXCEPT !.cache[r] = entry,
            !.unhandled = IF isHandled THEN @ \ {r} ELSE @ \cup {r}]

-----------------------------------------------------------------------------
(* The platform.                                                            *)

Reply(t) == [op[t] EXCEPT !.answered = TRUE, !.seen = platform]

AnswerBatch(t) ==
  /\ Pending(t, "batch_add")
  /\ \E rejected \in SUBSET op[t].batch :
       /\ IF rejected = {} THEN UNCHANGED failures ELSE MayFail
       /\ op' = [op EXCEPT ![t] = [Reply(t) EXCEPT !.rejected = rejected]]
       /\ platform' = [r \in Requests |->
            IF r \in op[t].batch \ rejected /\ platform[r] = "absent" THEN "pending"
            ELSE platform[r]]
  /\ UNCHANGED <<lock, local, pc, holds, term, historyVars, calls>>

(* list_and_lock_head: all pending requests nobody has locked, one at most  *)
(* for is_empty; a lagging listing misses some.  It tells whether others    *)
(* have requests locked.                                                    *)
AnswerListing(t) ==
  /\ Pending(t, "list_and_lock_head")
  /\ LET open == {r \in Requests : platform[r] = "pending" /\ lock[r] = Unlocked}
         limited == op[t].call = "finished" /\ open # {}
     IN  \E items \in SUBSET open :
           /\ limited => Cardinality(items) <= 1
           /\ IF items = open \/ (limited /\ items # {}) THEN UNCHANGED failures ELSE MayFail
           /\ lock' = [r \in Requests |->
                IF r \in items THEN [owner |-> ClientOf[t], left |-> LockTime] ELSE lock[r]]
           /\ op' = [op EXCEPT ![t] = [Reply(t) EXCEPT
                !.left = [r \in Requests |-> IF r \in items THEN LockTime ELSE NoLease],
                !.yes = \E r \in Requests : lock[r].owner \notin {NoClient, ClientOf[t]}]]
  /\ UNCHANGED <<platform, local, pc, holds, term, historyVars, calls>>

(* prolong_request_lock: only of a pending request no other client has      *)
(* locked; whether a lapsed lock can be had again is left open.             *)
AnswerProlong(t) ==
  /\ Pending(t, "prolong_request_lock")
  /\ LET r == op[t].request
     IN  \/ /\ platform[r] = "pending" /\ lock[r].owner \in {ClientOf[t], NoClient}
            /\ lock' = [lock EXCEPT ![r] = [owner |-> ClientOf[t], left |-> LockTime]]
            /\ op' = [op EXCEPT ![t] = [Reply(t) EXCEPT !.left[r] = LockTime]]
         \/ /\ ~(platform[r] = "pending" /\ lock[r].owner = ClientOf[t])
            /\ op' = [op EXCEPT ![t] = [Reply(t) EXCEPT !.left[r] = NoLease]]
            /\ UNCHANGED lock
  /\ UNCHANGED <<platform, local, pc, holds, term, historyVars, calls, failures>>

(* get_request; an answer that lags does not know the request yet.          *)
AnswerRead(t) ==
  /\ Pending(t, "hydrate") \/ Pending(t, "refetch") \/ Pending(t, "metadata")
  /\ \/ op' = [op EXCEPT ![t] = Reply(t)] /\ UNCHANGED failures
     \/ /\ pc[t] # "metadata" /\ MayFail
        /\ op' = [op EXCEPT ![t].answered = TRUE]
  /\ UNCHANGED <<platform, lock, local, pc, holds, term, historyVars, calls>>

(* One of the concurrent reads of is_finished's verification.               *)
AnswerVerify(t, r) ==
  /\ pc[t] = "verify" /\ r \in op[t].waits
  /\ \/ op' = [op EXCEPT ![t].waits = @ \ {r}, ![t].seen[r] = platform[r]] /\ UNCHANGED failures
     \/ MayFail /\ op' = [op EXCEPT ![t].waits = @ \ {r}]
  /\ UNCHANGED <<platform, lock, local, pc, holds, term, historyVars, calls>>

(* An update is an upsert, whoever has the request locked.  A handled       *)
(* request is locked by nobody; whether a reclaim unlocks the request for   *)
(* its own client is left open.                                             *)
AnswerUpdate(t) ==
  /\ Pending(t, "update_request")
  /\ LET r == op[t].request
     IN  /\ op' = [op EXCEPT ![t] = Reply(t)]
         /\ IF op[t].call = "mark"
            THEN /\ platform' = [platform EXCEPT ![r] = "handled"]
                 /\ done' = done \cup {r}
                 /\ lock' = [lock EXCEPT ![r] = Unlocked]
            ELSE /\ platform' = [platform EXCEPT ![r] = "pending"]
                 /\ UNCHANGED done
                 /\ \/ UNCHANGED lock
                    \/ /\ lock[r].owner = ClientOf[t]
                       /\ lock' = [lock EXCEPT ![r] = Unlocked]
  /\ UNCHANGED <<local, pc, holds, term, added, calls, failures>>

-----------------------------------------------------------------------------
(* add_batch_of_requests.                                                   *)

CallAdd(t) ==
  /\ Idle(t) /\ Calls
  /\ \E b \in Batches :
       LET l == My(t)
           known == {r \in b : l.cache[r] # Uncached}
           send == b \ (known \cup l.beingAdded)
           waits == b \ (known \cup send)
           record == [NewOp("add") EXCEPT !.batch = send, !.known = known, !.waits = waits]
       IN  /\ Becomes(t, [l EXCEPT !.beingAdded = @ \cup send])
           /\ IF b = known THEN Returns(t)
              ELSE Awaits(t, IF send # {} THEN "batch_add" ELSE "in_flight", record)
  /\ UNCHANGED <<platform, lock, holds, term, historyVars, failures>>

SettleAll(t, at, record, committed) ==
  /\ pc' = [pc EXCEPT ![t] = at]
  /\ op' = [u \in Tasks |->
       IF u = t \/ op[u].call # "add" \/ ~SameClient(t, u)
       THEN IF u = t THEN record ELSE op[u]
       ELSE [op[u] EXCEPT !.known = @ \cup (op[u].waits \cap op[t].batch),
                          !.waits = @ \ op[t].batch]]

(* settle_pending_addition for t's batch: the tasks of the same client that *)
(* wait for one of its requests learn whether it was committed.             *)
Settle(t, at, record, committed) ==
  /\ pc' = [pc EXCEPT ![t] = at]
  /\ op' = [u \in Tasks |->
       IF u = t \/ op[u].call # "add" \/ ~SameClient(t, u)
       THEN IF u = t THEN record ELSE op[u]
       ELSE [op[u] EXCEPT !.known = @ \cup (op[u].waits \cap committed),
                          !.waits = @ \ op[t].batch]]

(* Each accepted request replaces what the cache has on it, also what a     *)
(* listing has put there meanwhile.                                         *)
BatchAnswered(t) ==
  /\ Answered(t, "batch_add")
  /\ LET committed == op[t].batch \ op[t].rejected
         new == {r \in committed : op[t].seen[r] = "absent"}
         record == [op[t] EXCEPT !.batch = {}, !.new = new, !.known = @ \cup (committed \ new)]
         returns == record.waits = {}
     IN  /\ Becomes(t, [My(t) EXCEPT
              !.cache = [r \in Requests |-> IF r \in committed THEN Entry("no", NoLease) ELSE @[r]],
              !.unhandled = @ \cup committed,
              !.beingAdded = @ \ op[t].batch,
              !.total = IF returns THEN @ + Cardinality(new) ELSE @])
         /\ added' = [added EXCEPT ![ClientOf[t]] = @ \cup committed]
         /\ IF returns THEN Settle(t, "idle", NoOp, committed)
            ELSE Settle(t, "in_flight", record, committed)
  /\ UNCHANGED <<platform, lock, holds, term, done, calls, failures>>

AddReturns(t) ==
  /\ pc[t] = "in_flight" /\ op[t].waits = {}
  /\ Becomes(t, [My(t) EXCEPT !.total = @ + Cardinality(op[t].new)])
  /\ Returns(t)
  /\ UNCHANGED <<platform, lock, holds, term, historyVars, calls, failures>>

-----------------------------------------------------------------------------
(* fetch_next_request.                                                      *)

EligibleUnexpired(l) == {i \in DOMAIN l.head : l.cache[l.head[i]].left # 0}

(* The requests at the head this client may hand out: it is not processing  *)
(* them, and its lock on them, as far as it knows, has not lapsed.          *)
Eligible(l) ==
  {i \in DOMAIN l.head :
     l.head[i] \notin l.inProgress /\ l.cache[l.head[i]].left # 0}

(* The cache has the request as something to process.                       *)
CachedPending(l, r) == l.cache[r].hydrated = "pending"

(* _get_or_hydrate_request: a hydrated request from the cache, or a read by *)
(* ID that carries the lease the cache entry has now; then the full request *)
(* is read by ID, unless the one at hand was handled already.               *)
LookUp(t, r, l) ==
  LET record == [NewOp("fetch") EXCEPT !.request = r, !.left[r] = l.cache[r].left]
  IN  IF l.cache[r].hydrated \notin {"pending", "handled"}
      THEN Becomes(t, l) /\ Awaits(t, "hydrate", record)
      ELSE IF CachedPending(l, r) THEN Becomes(t, l) /\ Awaits(t, "refetch", record)
      ELSE Becomes(t, Discard(l, r)) /\ Returns(t)

WindowOpen(left) == left # 0

(* A request needs no prolonging while enough of its lock is left.          *)
WindowSuffices(left) == left >= HandoffTime

StopsAtExpired(t, l) ==
  IF Eligible(l) = {} THEN Becomes(t, l) /\ Returns(t)
  ELSE LET r == l.head[Min(Eligible(l))]
       IN  LookUp(t, r, [l EXCEPT !.head = Tail(@), !.inProgress = @ \cup {r}])

(* Take the first eligible request off the head and reserve it before the   *)
(* lock is released; then make sure its lock lasts long enough.             *)
Pick(t, l) ==
  \/ Eligible(l) = {} /\ Becomes(t, [l EXCEPT !.head = <<>>]) /\ Returns(t)
  \/ \E i \in Eligible(l) :
       /\ \A j \in Eligible(l) : i <= j
       /\ LET r == l.head[i]
              reserved == [l EXCEPT !.head = SubSeq(@, i + 1, Len(@)), !.inProgress = @ \cup {r}]
          IN  IF WindowSuffices(l.cache[r].left) THEN LookUp(t, r, reserved)
              ELSE /\ Becomes(t, reserved)
                   /\ Awaits(t, "prolong_request_lock", [NewOp("fetch") EXCEPT !.request = r])

(* The head as the client has it serves _list_head.                         *)
HeadServes(l) == l.head # <<>> /\ ~l.forefront

(* _list_head's call: to learn of requests at the forefront the local head  *)
(* is emptied first, its requests kept for the end of the new one.          *)
List(t, record) ==
  /\ Becomes(t, [My(t) EXCEPT !.head = <<>>, !.forefront = FALSE])
  /\ Awaits(t, "list_and_lock_head", [record EXCEPT !.rest = My(t).head])

(* With several clients even a cached head costs a call, for the metadata.  *)
CallFetch(t) ==
  /\ Idle(t) /\ holds[t] = NoRequest /\ LockFree(t)
  /\ IF ~HeadServes(My(t)) THEN List(t, NewOp("fetch"))
     ELSE IF ManyClients /\ Len(My(t).head) = 1
          THEN Awaits(t, "metadata", NewOp("fetch")) /\ UNCHANGED local
     ELSE Pick(t, My(t))
  /\ UNCHANGED <<platform, lock, holds, term, historyVars, calls, failures>>

(* The end of _list_head: the listed requests are cached with their leases  *)
(* and become the head, in any order; then come the leftovers.              *)
Listed(t) ==
  LET l == My(t)
      items == {r \in Requests : op[t].left[r] # NoLease} \ l.inProgress
  IN  {[l EXCEPT !.head = @ \o news \o op[t].rest, !.locked = op[t].yes,
                 !.unhandled = @ \cup items,
                 !.cache = [r \in Requests |-> IF r \in items THEN Entry("pending", op[t].left[r])
                                               ELSE @[r]]] :
         news \in SetToSeqs(items)}

FetchHeadListed(t) ==
  /\ op[t].call = "fetch"
  /\ \/ Answered(t, "metadata") /\ Pick(t, My(t))
     \/ Answered(t, "list_and_lock_head") /\ \E l \in Listed(t) : Pick(t, l)
  /\ UNCHANGED <<platform, lock, holds, term, historyVars, calls, failures>>

(* The rest of _ensure_lock_window: without the lock the request is left to *)
(* others.                                                                  *)
Prolonged(t) ==
  /\ Answered(t, "prolong_request_lock")
  /\ LET r == op[t].request
         l == My(t)
     IN  IF op[t].left[r] = NoLease THEN Becomes(t, Discard(l, r)) /\ Returns(t)
         ELSE LookUp(t, r, [l EXCEPT !.cache[r].left = op[t].left[r]])
  /\ UNCHANGED <<platform, lock, holds, term, historyVars, calls, failures>>

Hydrated(t) ==
  /\ Answered(t, "hydrate")
  /\ LET r == op[t].request
         status == op[t].seen[r]
         l == Cache(My(t), r, Entry(status, op[t].left[r]), status = "handled")
     IN  IF status = "absent" THEN Becomes(t, Discard(My(t), r)) /\ Returns(t)
         ELSE IF CachedPending(l, r)
              THEN Becomes(t, l) /\ Awaits(t, "refetch", [NewOp("fetch") EXCEPT !.request = r])
         ELSE Becomes(t, Discard(l, r)) /\ Returns(t)
  /\ UNCHANGED <<platform, lock, holds, term, historyVars, calls, failures>>

(* The full request is handed out, whatever its handled_at is by now.       *)
Refetched(t) ==
  /\ Answered(t, "refetch")
  /\ LET r == op[t].request
     IN  IF op[t].seen[r] = "absent"
         THEN Becomes(t, Discard(My(t), r)) /\ UNCHANGED <<holds, term>>
         ELSE /\ holds' = [holds EXCEPT ![t] = r]
              /\ term' = [term EXCEPT ![t] = HandoffTime]
              /\ UNCHANGED local
  /\ Returns(t)
  /\ UNCHANGED <<platform, lock, historyVars, calls, failures>>

-----------------------------------------------------------------------------
(* mark_request_as_handled and reclaim_request: the task gives its request  *)
(* up before the platform is told.                                          *)

GivesUp(t, call) ==
  /\ holds' = [holds EXCEPT ![t] = NoRequest]
  /\ Becomes(t, Discard(My(t), holds[t]))
  /\ \E forefront \in IF call = "reclaim" THEN BOOLEAN ELSE {FALSE} :
       Awaits(t, "update_request",
              [NewOp(call) EXCEPT !.request = holds[t], !.forefront = forefront])
  /\ UNCHANGED <<platform, lock, term, historyVars, failures>>

CallMark(t) == Idle(t) /\ holds[t] # NoRequest /\ GivesUp(t, "mark") /\ UNCHANGED calls

CallReclaim(t) ==
  Idle(t) /\ holds[t] # NoRequest /\ LockFree(t) /\ Calls /\ GivesUp(t, "reclaim")

CountsEvery(call, was) == IF call = "mark" THEN 1 ELSE -1

(* How an update moves the counter of handled requests.                     *)
CountsChange(call, was) ==
  IF call = "mark" /\ ~was THEN 1 ELSE IF call = "reclaim" /\ was THEN -1 ELSE 0

(* The answer tells whether the request was handled before, which decides   *)
(* how the local counter moves; the cache gets its status from now on.      *)
Updated(t) ==
  /\ Answered(t, "update_request")
  /\ LET r == op[t].request
         marks == op[t].call = "mark"
         l == [My(t) EXCEPT !.handled = @ + CountsChange(op[t].call, op[t].seen[r] = "handled"),
                            !.forefront = @ \/ op[t].forefront]
     IN  Becomes(t, Cache(l, r, Entry(IF marks THEN "handled" ELSE "pending", NoLease), marks))
  /\ Returns(t)
  /\ term' = [term EXCEPT ![t] = 0]
  /\ UNCHANGED <<platform, lock, holds, historyVars, calls, failures>>

-----------------------------------------------------------------------------
(* is_finished, of which is_empty is the first half.                        *)

Verdict(t, record, yes) ==
  IF yes THEN Awaits(t, "idle", [NewOp("finished") EXCEPT !.known = record.known, !.yes = TRUE])
  ELSE Returns(t)

TrustsListing(t, record, l, empty) ==
  Verdict(t, record, empty /\ ~l.locked /\ l.inProgress = {} /\ l.beingAdded = {})

(* With the head empty, nothing locked elsewhere, in progress or being      *)
(* added, every request not yet seen handled is read by ID.                 *)
Concludes(t, record, l, empty) ==
  IF ~empty \/ l.locked \/ l.inProgress # {} \/ l.beingAdded # {} THEN Verdict(t, record, FALSE)
  ELSE IF l.unhandled = {} THEN Verdict(t, record, TRUE)
  ELSE Awaits(t, "verify", [NewOp("finished") EXCEPT
                              !.known = record.known, !.batch = l.unhandled, !.waits = l.unhandled])

(* A cached head counts as empty when its first request is not hydrated.    *)
CountsEmpty(l) == l.cache[Head(l.head)].hydrated = "no"

CallFinished(t) ==
  /\ Idle(t) /\ LockFree(t)
  /\ LET l == My(t)
         record == [NewOp("finished") EXCEPT !.known = added[ClientOf[t]]]
     IN  IF ~HeadServes(l) THEN List(t, record)
         ELSE /\ UNCHANGED local
              /\ IF ManyClients THEN Awaits(t, "metadata", [record EXCEPT !.yes = CountsEmpty(l)])
                 ELSE Concludes(t, record, l, CountsEmpty(l))
  /\ UNCHANGED <<platform, lock, holds, term, historyVars, calls, failures>>

FinishedHeadListed(t) ==
  /\ op[t].call = "finished"
  /\ \/ Answered(t, "metadata") /\ Concludes(t, op[t], My(t), op[t].yes) /\ UNCHANGED local
     \/ /\ Answered(t, "list_and_lock_head")
        /\ \E l \in Listed(t) :
             Becomes(t, l) /\ Concludes(t, op[t], l, \A r \in Requests : op[t].left[r] = NoLease)
  /\ UNCHANGED <<platform, lock, holds, term, historyVars, calls, failures>>

(* _confirm_requests_handled: those the platform has as handled need no     *)
(* further reads.                                                           *)
Verified(t) ==
  /\ pc[t] = "verify" /\ op[t].waits = {}
  /\ LET confirmed == {r \in op[t].batch : op[t].seen[r] = "handled"}
     IN  /\ Becomes(t, [My(t) EXCEPT !.unhandled = @ \ confirmed])
         /\ Verdict(t, op[t], confirmed = op[t].batch)
  /\ UNCHANGED <<platform, lock, holds, term, historyVars, calls, failures>>

-----------------------------------------------------------------------------
(* Failures and time.                                                       *)

(* An API call fails, or its answer is lost.  A failed batch settles its    *)
(* markers; a failed prolonging or first read gives the request up; any     *)
(* other failure ends the call as it stands, the request of a failed last   *)
(* read still in progress.                                                  *)
Fail(t) ==
  /\ pc[t] \notin {"idle", "in_flight"} /\ MayFail
  /\ term' = [term EXCEPT ![t] = IF holds[t] = NoRequest THEN 0 ELSE @]
  /\ IF pc[t] = "batch_add"
     THEN /\ Settle(t, "idle", NoOp, {})
          /\ Becomes(t, [My(t) EXCEPT !.beingAdded = @ \ op[t].batch])
     ELSE /\ Returns(t)
          /\ IF pc[t] \in {"prolong_request_lock", "hydrate"}
             THEN Becomes(t, Discard(My(t), op[t].request)) ELSE UNCHANGED local
  /\ UNCHANGED <<platform, lock, holds, historyVars, calls>>

Down(left) == IF left > 0 THEN left - 1 ELSE left
Lapses(k) == IF k.left > 1 THEN [k EXCEPT !.left = @ - 1] ELSE Unlocked

(* No call takes as long as a unit of time, and no request is processed for *)
(* longer than it was promised.                                             *)
LeaseKept(t) == Idle(t) /\ term[t] # 1

Tick ==
  /\ \E r \in Requests : lock[r] # Unlocked \/ \E c \in Clients : local[c].cache[r].left > 0
  /\ KeepsLease => \A t \in Tasks : LeaseKept(t)
  /\ lock' = [r \in Requests |-> Lapses(lock[r])]
  /\ local' = [c \in Clients |-> [local[c] EXCEPT
       !.cache = [r \in Requests |-> Entry(@[r].hydrated, Down(@[r].left))]]]
  /\ op' = [t \in Tasks |-> [op[t] EXCEPT !.left = [r \in Requests |-> Down(@[r])]]]
  /\ term' = [t \in Tasks |-> Down(term[t])]
  /\ UNCHANGED <<platform, pc, holds, historyVars, calls, failures>>

Call(t) == CallAdd(t) \/ CallFetch(t) \/ CallMark(t) \/ CallReclaim(t) \/ CallFinished(t)

Answer(t) ==
  \/ AnswerBatch(t) \/ AnswerListing(t) \/ AnswerProlong(t) \/ AnswerRead(t) \/ AnswerUpdate(t)
  \/ \E r \in Requests : AnswerVerify(t, r)

Resume(t) ==
  \/ BatchAnswered(t) \/ AddReturns(t) \/ FetchHeadListed(t) \/ Prolonged(t) \/ Hydrated(t)
  \/ Refetched(t) \/ Updated(t) \/ FinishedHeadListed(t) \/ Verified(t)

Next == Tick \/ \E t \in Tasks : Call(t) \/ Answer(t) \/ Resume(t) \/ Fail(t)

Spec == Init /\ [][Next]_vars

(* The API answers, the event loop resumes, and time goes on.               *)
Fairness == SF_vars(Tick) /\ \A t \in Tasks : WF_vars(Answer(t) \/ Resume(t))

FetchesEligible(t) == CallFetch(t) /\ Eligible(My(t)) # {}

(* Each task goes on fetching, also, since it asks much more often than     *)
(* locks lapse, while the head has something to hand out; it goes on asking *)
(* whether the queue is finished, and processes nothing forever.  Calls are *)
(* short and the breaks between them long: now and then none is under way.  *)
Consuming ==
  /\ []<>(\A t \in Tasks : Idle(t))
  /\ \A t \in Tasks :
       /\ []<><<CallFetch(t)>>_vars /\ SF_vars(FetchesEligible(t))
       /\ []<>(holds[t] = NoRequest) /\ []<><<CallFinished(t)>>_vars

ConsumedSpec == Spec /\ Fairness /\ Consuming

-----------------------------------------------------------------------------
(* Properties.                                                              *)

TypeOK ==
  /\ platform \in [Requests -> Status]
  /\ lock \in [Requests -> [owner : Clients, left : 1..LockTime] \cup {Unlocked}]
  /\ \A c \in Clients :
       /\ \A r \in Requests : local[c].cache[r].left \in Lease
       /\ local[c].head \in Seq(Requests)
       /\ local[c].inProgress \cup local[c].beingAdded \cup local[c].unhandled \subseteq Requests
  /\ holds \in [Tasks -> Requests \cup {NoRequest}]
  /\ term \in [Tasks -> 0..HandoffTime]
  /\ calls \in 0..MaxCalls /\ failures \in 0..MaxFailures

(* Two tasks of one client never process the same request, also when its    *)
(* lock lapsed meanwhile, it was listed again or is in the head twice.      *)
HandedOutOnce ==
  \A t, u \in Tasks : t # u /\ SameClient(t, u) /\ holds[t] # NoRequest => holds[t] # holds[u]

(* No false success: what add_batch_of_requests reports as added or present *)
(* is on the platform, also when the call relied on another one's outcome.  *)
AddsTruthful ==
  \A t \in Tasks, r \in Requests :
    (\/ r \in added[ClientOf[t]] \/ My(t).cache[r] # Uncached
     \/ op[t].call = "add" /\ r \in op[t].known \cup op[t].new)
    => platform[r] # "absent"

(* is_finished says True only when every request whose addition this client *)
(* had confirmed when the call began has been handled on the platform, also *)
(* while listings lag, locks lapse and updates are on their way.            *)
FinishedCoversAdded ==
  [][\A t \in Tasks :
       pc'[t] = "idle" /\ op'[t].call = "finished" /\ op'[t].yes /\ op'[t] # op[t] =>
         op'[t].known \subseteq done]_vars

(* The local counters of an only client are those of the platform whenever  *)
(* no call is under way, if no call failed.                                 *)
CountsMatchPlatform ==
  ~ManyClients /\ failures = 0 /\ (\A t \in Tasks : Idle(t)) =>
    \A c \in Clients :
      /\ local[c].total = Cardinality({r \in Requests : platform[r] # "absent"})
      /\ local[c].handled = Cardinality({r \in Requests : platform[r] = "handled"})

(* What a worker has for as long as it was promised it; the mark of a       *)
(* request belongs to its processing until the platform knows.              *)
Processes(t) ==
  IF term[t] = 0 THEN NoRequest
  ELSE IF Pending(t, "update_request") /\ op[t].call = "mark" THEN op[t].request ELSE holds[t]

(* The clients together are a work queue: a request is in the hands of one  *)
(* task of all clients at a time, for at least HandoffTime after hand-off,  *)
(* and of none once the platform has it handled.  This takes calls that are *)
(* fast (KeepsLease), and the two conditions below, without which it fails. *)
Work == INSTANCE WorkQueue WITH
  Workers <- Tasks,
  queued <- {r \in Requests : platform[r] # "absent"},
  finished <- {r \in Requests : platform[r] = "handled"},
  holder <- [t \in Tasks |-> Processes(t)]

ImplementsWorkQueue == Work!Spec

(* Several tasks of one client may be in each other's way: a request leaves *)
(* _requests_in_progress before the platform is told what became of it.     *)
OneTaskEach == \A t, u \in Tasks : SameClient(t, u) => t = u

(* No request is handed out while the head still has it.  The leftovers of  *)
(* a head, put behind a new one after a reclaim to the forefront, are not   *)
(* compared with it: what was listed again is then in the head twice.       *)
HeadsSpareInProgress ==
  \A c \in Clients : \A i \in DOMAIN local[c].head : local[c].head[i] \notin local[c].inProgress

(* A request a failed last read has left in progress: its client lists and  *)
(* locks it again and again, and never hands it out.                        *)
Lost(r) ==
  \E c \in Clients : r \in local[c].inProgress
                    /\ \A t \in Tasks : holds[t] # r /\ ~(op[t].call = "fetch" /\ op[t].request = r)

(* Every request a client added gets handled, whatever fails, lapses or is  *)
(* given back, unless it is lost.                                           *)
AddedGetsHandled ==
  \A r \in Requests :
    (\E c \in Clients : r \in added[c]) ~> (platform[r] = "handled" \/ Lost(r))

(* Once all there is stays handled, every task that asks learns that the    *)
(* queue is finished, if no call failed.                                    *)
EveryTaskLearns ==
  [](failures = 0) /\ <>[](\A r \in Requests : platform[r] # "pending") =>
    \A t \in Tasks : []<>(op[t].call = "finished" /\ op[t].yes)
=============================================================================
