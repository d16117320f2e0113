------------------------------ MODULE Charging ------------------------------
(***************************************************************************)
(* Pay-per-event charging inside one Actor process: the charging manager,   *)
(* its reentrant lock, and the two ways of pushing to a dataset that        *)
(* reserve part of the budget first and charge for it afterwards.           *)
(*                                                                          *)
(* The actors are asyncio tasks.  A step of a task is the code it runs from *)
(* one suspension point to the next; between two steps any other task may   *)
(* run, the main task may leave the Actor context (Exit), and an API call   *)
(* may fail, before or after it took effect on the platform.                *)
(*                                                                          *)
(* Money is an integer number of the smallest unit.  Of the state of        *)
(* _charging_state the model keeps the count of each event and, as one      *)
(* number, the sum of the amounts (the code adds them up on every use; only *)
(* `charge` changes them).  Events the pricing info does not price are      *)
(* either tier-priced or unknown: the two differ in a log message only.     *)
(***************************************************************************)
EXTENDS Integers, FiniteSetsExt

CONSTANTS
  Tasks,               \* asyncio tasks that use the Actor
  Inheriting,          \* those whose context carries charging_manager_ctx
  NoTask,              \* the lock has no owner
  ExplicitEvents,      \* event names the Actor charges itself
  ItemEvent,           \* DEFAULT_DATASET_ITEM_EVENT, the synthetic event
  NoEvent,             \* push_data without charged_event_name
  Priced,              \* events with a flat price in _pricing_info
  PricingInfo,         \* their prices
  UnknownPrice,        \* price of an unpriced event outside the platform
  IsAtHome,            \* TRUE on the Apify platform
  PayPerEvent,         \* _pricing_model = 'PAY_PER_EVENT'
  MaxTotalCharge,      \* max_total_charge_usd, or NoLimit
  NoLimit,
  ChargedEventCounts,  \* what the run had charged before this process started
  Chargeable,          \* the events passed to Actor.charge
  Counts,              \* event counts and item counts of the calls
  MaxOps,              \* bound: calls made in one behaviour
  MaxFailures          \* bound: calls that fail in one behaviour

Events == ExplicitEvents \cup {ItemEvent}

(* A price of 0 is what the platform gives an event it does not know, a     *)
(* nonzero one lets a local test run reach its budget.                      *)
PriceOf(e) == IF e \in Priced THEN PricingInfo[e]
              ELSE IF IsAtHome THEN 0 ELSE UnknownPrice

(* The counts loaded at start are priced from _pricing_info alone.          *)
InitialAmount ==
  MapThenSumSet(LAMBDA e : IF e \in Priced THEN ChargedEventCounts[e] * PricingInfo[e] ELSE 0,
                Events)

ASSUME ChargingAssumption ==
  /\ Inheriting \subseteq Tasks /\ NoTask \notin Tasks
  /\ ItemEvent \notin ExplicitEvents /\ NoEvent \notin Events
  /\ Priced \subseteq Events /\ PricingInfo \in [Priced -> Nat]
  /\ UnknownPrice \in Nat \ {0}
  /\ IsAtHome \in BOOLEAN /\ PayPerEvent \in BOOLEAN
  /\ ~PayPerEvent => Priced = {}
  /\ NoLimit \notin Int /\ MaxTotalCharge \in Nat \cup {NoLimit}
  /\ ChargedEventCounts \in [Events -> Nat]
  /\ Chargeable \subseteq Events
  /\ Counts \subseteq Nat \ {0}
  /\ MaxOps \in Nat /\ MaxFailures \in Nat

ASSUME InitialAmountAssumption == InitialAmount \in Nat

VARIABLES
  phase,        \* "new", "entered", "failed", "exited": where the manager is in its life
  active,       \* ChargingManagerImplementation.active
  charge_count, \* _charging_state[e].charge_count
  total,        \* calculate_total_charged_amount()
  owner,        \* ReentrantLock._owner (the inner asyncio.Lock is held iff there is one)
  pc,           \* where each task is suspended
  op,           \* the arguments and locals of each task's current or last call
  platform,     \* events the platform charged for through the API
  stored,       \* items the platform stored in the default dataset
  ops, failures \* calls made, calls that failed

vars == <<phase, active, charge_count, total, owner, pc, op, platform, stored, ops, failures>>
accountVars == <<charge_count, total>>
platformVars == <<platform, stored>>

Calls == {"charge", "actor_push", "dataset_push"}

(* limit: explicit events reserved; items: items let through to the dataset *)
(* API; left: of those, not yet stored; before: the counter `Actor.push_data`*)
(* reads first; charged: ChargeResult.charged_count.                        *)
OpRecord ==
  [call : Calls, event : Events \cup {NoEvent}, default : BOOLEAN, count : Nat,
   limit : Nat, items : Nat, left : Nat, before : Nat, charged : Int,
   outcome : {"running", "returned", "raised"}]

NewOp(call, e, default, n) ==
  [call |-> call, event |-> e, default |-> default, count |-> n,
   limit |-> IF call = "charge" THEN n ELSE 0, items |-> 0, left |-> 0,
   before |-> 0, charged |-> 0, outcome |-> "running"]

NoOp ==
  [call |-> "charge", event |-> NoEvent, default |-> FALSE, count |-> 0,
   limit |-> 0, items |-> 0, left |-> 0,
   before |-> 0, charged |-> 0, outcome |-> "raised"]

-----------------------------------------------------------------------------
(* Budget arithmetic.                                                       *)

Least(a, b) == IF a <= b THEN a ELSE b

(* How many units of the given price the remaining budget pays for;         *)
(* NoLimit where the code returns None or ignores the quotient.             *)
AffordableRoundedUp(price) ==
  IF price = 0 \/ MaxTotalCharge = NoLimit THEN NoLimit
  ELSE IF total >= MaxTotalCharge THEN 0
  ELSE (MaxTotalCharge - total + price - 1) \div price

Affordable(price) ==
  IF price = 0 \/ MaxTotalCharge = NoLimit THEN NoLimit
  ELSE IF total >= MaxTotalCharge THEN 0
  ELSE (MaxTotalCharge - total) \div price

Within(n, max) == IF max = NoLimit THEN n ELSE Least(n, max)

MaxEventChargeCountWithinLimit(e) == Affordable(PriceOf(e))

(* The dataset `Actor.push_data` writes to is always the default one.       *)
PushDataLimitOfExplicitEvent(n, e) == Within(n, Affordable(PriceOf(e)))

PushDataLimit(n, e) == Within(n, Affordable(PriceOf(e) + PriceOf(ItemEvent)))

-----------------------------------------------------------------------------
(* The event loop.  A task that has the lock and is about to charge the     *)
(* explicit event, or (on the platform) has no item to send, has not been   *)
(* suspended since its previous step, so no other task runs.                *)

Running(t) ==
  \/ pc[t] = "charge" /\ owner = t
  \/ pc[t] = "push" /\ op[t].items = 0 /\ IsAtHome
Scheduled(t) == \A u \in Tasks \ {t} : ~Running(u)

(* The manager a task finds in its context, set for pay-per-event only.     *)
HasManager(t) == PayPerEvent /\ t \in Inheriting

(* ReentrantLock: entered at once by the task that owns it, by another task *)
(* when nobody does; nested entries leave it to the outermost to release.   *)
NotReentrant(t) == owner = NoTask
NotLocked(t) == TRUE

CanEnterLock(t) == owner \in {NoTask, t}

ReleaseIfOwner(t) == owner' = IF owner = t THEN NoTask ELSE owner

Raise(t) ==
  /\ pc' = [pc EXCEPT ![t] = "idle"]
  /\ op' = [op EXCEPT ![t].outcome = "raised"]
  /\ ReleaseIfOwner(t)

Return(t, charged) ==
  /\ pc' = [pc EXCEPT ![t] = "idle"]
  /\ op' = [op EXCEPT ![t].outcome = "returned", ![t].charged = charged]
  /\ ReleaseIfOwner(t)

(* Accounting for n events: `charge` updates its state before any await.    *)
Account(e, n) ==
  /\ charge_count' = [charge_count EXCEPT ![e] = @ + n]
  /\ total' = total + n * PriceOf(e)

(* Once the items are stored and charged for: Actor.push_data goes on to    *)
(* the explicit event, or reports how far the synthetic counter moved.      *)
AfterItems(t) ==
  IF op[t].event # NoEvent
  THEN /\ pc' = [pc EXCEPT ![t] = "charge"]
       /\ UNCHANGED <<op, owner>>
  ELSE IF op[t].call = "dataset_push" THEN Return(t, 0)
  ELSE IF active THEN Return(t, charge_count'[ItemEvent] - op[t].before)
  ELSE Raise(t)

-----------------------------------------------------------------------------
(* Life of the manager.                                                     *)

Init ==
  /\ phase = "new" /\ active = FALSE
  /\ charge_count = [e \in Events |-> 0] /\ total = 0
  /\ owner = NoTask
  /\ pc = [t \in Tasks |-> "idle"] /\ op = [t \in Tasks |-> NoOp]
  /\ platform = ChargedEventCounts /\ stored = 0
  /\ ops = 0 /\ failures = 0

(* No task can use the manager before __aenter__ is over (the Actor is not  *)
(* initialized yet), so its awaits are one step.  When the pricing info     *)
(* cannot be fetched it raises and leaves `active` set.                     *)
Enter ==
  /\ phase = "new"
  /\ active' = TRUE
  /\ \/ /\ phase' = "entered"
        /\ charge_count' = ChargedEventCounts
        /\ total' = InitialAmount
     \/ phase' = "failed" /\ UNCHANGED accountVars
  /\ UNCHANGED <<owner, pc, op, platformVars, ops, failures>>

(* The main task leaves the Actor context; other tasks may be anywhere.     *)
Exit ==
  /\ phase = "entered" /\ \A t \in Tasks : ~Running(t)
  /\ phase' = "exited" /\ active' = FALSE
  /\ UNCHANGED <<accountVars, owner, pc, op, platformVars, ops, failures>>

-----------------------------------------------------------------------------
(* Calls.                                                                   *)

Start(t, call, e, default, n, at) ==
  /\ phase = "entered" /\ active /\ pc[t] = "idle" /\ Scheduled(t)
  /\ ops < MaxOps /\ ops' = ops + 1
  /\ pc' = [pc EXCEPT ![t] = at]
  /\ op' = [op EXCEPT ![t] = NewOp(call, e, default, n)]
  /\ UNCHANGED <<phase, active, accountVars, owner, platformVars, failures>>

(* Actor.charge(e, count=n): it queues for the lock.                        *)
CallCharge(t) ==
  \E e \in Chargeable, n \in Counts : Start(t, "charge", e, FALSE, n, "charge")

(* Actor.push_data(n items, charged_event_name=e or None); charging for a   *)
(* synthetic event by name is refused before anything happens.              *)
CallActorPush(t) ==
  \E e \in ExplicitEvents \cup {NoEvent}, n \in Counts : Start(t, "actor_push", e, TRUE, n, "reserve")

(* Dataset.push_data(n items) on the default or another dataset.            *)
CallDatasetPush(t) ==
  \E default \in BOOLEAN, n \in Counts : Start(t, "dataset_push", NoEvent, default, n, "reserve")

-----------------------------------------------------------------------------
(* Pushing.  A task whose context carries the manager takes the lock and    *)
(* keeps it to the end of the call, whatever is nested in it; any other     *)
(* task goes ahead without it.  In the same step it reserves: the explicit  *)
(* limit of Actor.push_data, then the synthetic one of the dataset client.  *)

UsesManager(t) == op[t].call = "actor_push" \/ (HasManager(t) /\ op[t].default)

ExplicitLimit(t) ==
  IF op[t].event = NoEvent THEN op[t].count ELSE PushDataLimit(op[t].count, op[t].event)

UncappedItemLimit(t, n) == n

ItemLimit(t, n) ==
  IF HasManager(t) /\ op[t].default THEN Within(n, MaxEventChargeCountWithinLimit(ItemEvent)) ELSE n

Reserve(t) ==
  /\ pc[t] = "reserve" /\ Scheduled(t)
  /\ HasManager(t) => CanEnterLock(t)
  /\ IF UsesManager(t) /\ ~active
     THEN Raise(t)
     ELSE LET n == ExplicitLimit(t)
              m == ItemLimit(t, n)
          IN  /\ op' = [op EXCEPT ![t].limit = n, ![t].items = m, ![t].left = m,
                                  ![t].before = charge_count[ItemEvent]]
              /\ pc' = [pc EXCEPT ![t] = "push"]
              /\ owner' = IF HasManager(t) THEN t ELSE owner
  /\ UNCHANGED <<phase, active, accountVars, platformVars, ops, failures>>

StoreChunkAgain(t) ==
  /\ pc[t] = "push" /\ op[t].left > 0 /\ Scheduled(t)
  /\ \E k \in 1..op[t].items :
       /\ op' = [op EXCEPT ![t].left = @ - k]
       /\ stored' = IF op[t].default THEN stored + k ELSE stored
  /\ UNCHANGED <<phase, active, accountVars, owner, pc, platform, ops, failures>>

(* The platform stores one more chunk (any number of items fits, at least   *)
(* one); the task is waiting for the answer.                                *)
StoreChunk(t) ==
  /\ pc[t] = "push" /\ op[t].left > 0 /\ Scheduled(t)
  /\ \E k \in 1..op[t].left :
       /\ op' = [op EXCEPT ![t].left = @ - k]
       /\ stored' = IF op[t].default THEN stored + k ELSE stored
  /\ UNCHANGED <<phase, active, accountVars, owner, pc, platform, ops, failures>>

(* A chunk cannot be serialized, the call fails, or its answer is lost:     *)
(* the exception leaves push_data, and what was stored stays uncharged.     *)
PushFails(t) ==
  /\ pc[t] = "push" /\ op[t].items > 0 /\ Scheduled(t)
  /\ failures < MaxFailures /\ failures' = failures + 1
  /\ Raise(t)
  /\ UNCHANGED <<phase, active, accountVars, platformVars, ops>>

(* The last chunk is answered: charge the synthetic event for the items of  *)
(* the limit, again capped by the budget.  On the platform nothing else     *)
(* happens to it; locally the charging log is written, which suspends.      *)
ChargeItems(t) ==
  /\ pc[t] = "push" /\ op[t].left = 0 /\ Scheduled(t)
  /\ LET n == Within(op[t].items, MaxEventChargeCountWithinLimit(ItemEvent))
     IN  IF ~HasManager(t) \/ ~op[t].default
         THEN UNCHANGED accountVars /\ AfterItems(t)
         ELSE IF ~active
         THEN Raise(t) /\ UNCHANGED accountVars
         ELSE /\ Account(ItemEvent, n)
              /\ IF IsAtHome \/ n = 0 THEN AfterItems(t)
                 ELSE pc' = [pc EXCEPT ![t] = "log_items"] /\ UNCHANGED <<op, owner>>
  /\ UNCHANGED <<phase, active, platformVars, ops, failures>>

ItemsLogged(t) ==
  /\ pc[t] = "log_items" /\ Scheduled(t)
  /\ UNCHANGED <<phase, active, accountVars, platformVars, ops, failures>>
  /\ IF active THEN AfterItems(t) ELSE Raise(t)

-----------------------------------------------------------------------------
(* ChargingManagerImplementation.charge for an explicit event (or for any   *)
(* event, from Actor.charge): under the lock, taken here unless the task    *)
(* has it.  Only a priced, not synthetic event reaches the platform's       *)
(* charge endpoint.                                                         *)

GoesToPlatform(e) == IsAtHome /\ e \in Priced /\ e # ItemEvent

Charge(t) ==
  /\ pc[t] = "charge" /\ Scheduled(t)
  /\ LET e == op[t].event
         n == Within(op[t].limit, MaxEventChargeCountWithinLimit(e))
     IN  \/ /\ ~active
            /\ Raise(t) /\ UNCHANGED accountVars
         \/ /\ active /\ (~PayPerEvent \/ op[t].limit = 0)
            /\ Return(t, 0) /\ UNCHANGED accountVars
         \/ /\ active /\ PayPerEvent /\ op[t].limit > 0
            /\ CanEnterLock(t)
            /\ Account(e, n)
            /\ IF n = 0 \/ (IsAtHome /\ ~GoesToPlatform(e))
               THEN Return(t, n)
               ELSE /\ pc' = [pc EXCEPT ![t] = IF IsAtHome THEN "api" ELSE "finish"]
                    /\ op' = [op EXCEPT ![t].charged = n]
                    /\ owner' = t
  /\ UNCHANGED <<phase, active, platformVars, ops, failures>>

(* The platform executes the charge call.                                   *)
PlatformCharges(t) ==
  /\ pc[t] = "api" /\ Scheduled(t)
  /\ platform' = [platform EXCEPT ![op[t].event] = @ + op[t].charged]
  /\ pc' = [pc EXCEPT ![t] = "finish"]
  /\ UNCHANGED <<phase, active, accountVars, owner, op, stored, ops, failures>>

(* Its answer, or the end of the write to the charging log, resumes the     *)
(* task, which computes the result and leaves the lock.  The result reads   *)
(* the manager, which raises once the Actor has exited.                     *)
ChargeAnswered(t) ==
  /\ pc[t] = "finish" /\ Scheduled(t)
  /\ IF active THEN Return(t, op[t].charged) ELSE Raise(t)
  /\ UNCHANGED <<phase, active, accountVars, platformVars, ops, failures>>

(* The charge call fails before the platform executed it, its answer is     *)
(* lost after, or the charging log cannot be written: the exception leaves  *)
(* the lock, and the state keeps what it was told to account for.           *)
ChargeRolledBack(t) ==
  /\ pc[t] \in {"api", "finish"} /\ Scheduled(t)
  /\ failures < MaxFailures /\ failures' = failures + 1
  /\ Raise(t)
  /\ Account(op[t].event, -op[t].charged)
  /\ UNCHANGED <<phase, active, platformVars, ops>>

ChargeFails(t) ==
  /\ pc[t] \in {"api", "finish", "log_items"} /\ Scheduled(t)
  /\ failures < MaxFailures /\ failures' = failures + 1
  /\ Raise(t)
  /\ UNCHANGED <<phase, active, accountVars, platformVars, ops>>

-----------------------------------------------------------------------------
Call(t) == CallCharge(t) \/ CallActorPush(t) \/ CallDatasetPush(t)

Progress(t) ==
  \/ StoreChunk(t) \/ ChargeItems(t) \/ ItemsLogged(t)
  \/ PlatformCharges(t) \/ ChargeAnswered(t)

Fail(t) == PushFails(t) \/ ChargeFails(t)

Step(t) == Call(t) \/ Reserve(t) \/ Progress(t) \/ Charge(t) \/ Fail(t)

Next == Enter \/ Exit \/ \E t \in Tasks : Step(t)

Spec == Init /\ [][Next]_vars

(* The loop resumes a task whose await is over (every API call ends, by its *)
(* timeout if not by an answer), and asyncio.Lock wakes its waiters in the  *)
(* order they came, so a task waiting for the lock is not overtaken forever.*)
Fairness ==
  \A t \in Tasks : /\ WF_vars(Progress(t))
                   /\ SF_vars(Reserve(t)) /\ SF_vars(Charge(t))

FairSpec == Spec /\ Fairness

-----------------------------------------------------------------------------
(* Properties.                                                              *)

TypeOK ==
  /\ phase \in {"new", "entered", "failed", "exited"} /\ active \in BOOLEAN
  /\ charge_count \in [Events -> Nat] /\ total \in Nat
  /\ owner \in Tasks \cup {NoTask}
  /\ pc \in [Tasks -> {"idle", "reserve", "push", "log_items", "charge", "api", "finish"}]
  /\ op \in [Tasks -> OpRecord]
  /\ platform \in [Events -> Nat] /\ stored \in Nat
  /\ ops \in 0..MaxOps /\ failures \in 0..MaxFailures

(* What the process accounts for never passes max_total_charge_usd; a run   *)
(* that starts overdrawn never gets any further.  Every reservation is made *)
(* from a total nobody else changes before it is charged.                   *)
BudgetRespected ==
  MaxTotalCharge # NoLimit =>
    total <= IF InitialAmount <= MaxTotalCharge THEN MaxTotalCharge ELSE InitialAmount

(* The charge endpoint is never told of more events than the process has    *)
(* accounted for, so that a failed or unanswered call cannot make the       *)
(* process underestimate what its user already pays.                        *)
PlatformWithinAccount ==
  phase \in {"entered", "exited"} => \A e \in Events : platform[e] <= charge_count[e]

ReturnedPush(t) == op[t].call = "actor_push" /\ op[t].outcome = "returned"

(* Actor.push_data with an event charges it for exactly the items it pushed:*)
(* what other tasks push and charge in between never uses up the budget its *)
(* limit was computed from.                                                 *)
PushChargesEveryItem ==
  \A t \in Tasks :
    HasManager(t) /\ ReturnedPush(t) /\ op[t].event # NoEvent
      => op[t].items = op[t].limit /\ op[t].charged = op[t].limit

(* Actor.push_data without an event reports the synthetic events of its own *)
(* items, although it reads them off a counter all tasks share.             *)
PushReportsOwnItems ==
  \A t \in Tasks :
    HasManager(t) /\ ReturnedPush(t) /\ op[t].event = NoEvent
      => op[t].charged = op[t].items

(* The platform bills one synthetic event per stored item; the process      *)
(* never accounts for more of them, and, as long as no call has failed, for *)
(* exactly as many whenever no push is under way, if no task charges that   *)
(* event by hand (Actor.charge, unlike Actor.push_data, does not refuse it).*)
ChargesFollowItems == Inheriting = Tasks /\ PayPerEvent /\ ItemEvent \notin Chargeable

ItemAccountMatchesDataset ==
  phase = "entered" /\ ChargesFollowItems =>
    LET accounted == charge_count[ItemEvent] - ChargedEventCounts[ItemEvent]
    IN  /\ accounted <= stored
        /\ failures = 0 /\ owner = NoTask => accounted = stored

(* Every call on the Actor or a dataset ends, whoever holds the lock and    *)
(* whatever fails.                                                          *)
CallsEnd == \A t \in Tasks : pc[t] # "idle" ~> pc[t] = "idle"

-----------------------------------------------------------------------------
(* The parts that make the properties inductive.                            *)

InLockedSection(t) ==
  \/ pc[t] \in {"log_items", "api", "finish"}
  \/ pc[t] = "push" /\ HasManager(t)
  \/ pc[t] = "charge" /\ HasManager(t) /\ op[t].call = "actor_push"

(* The lock covers exactly the stretches the code means it to cover.        *)
LockInv ==
  \A t \in Tasks : /\ InLockedSection(t) => owner = t /\ PayPerEvent
                   /\ owner = t => InLockedSection(t)

(* The arguments and locals of a call fit the place it is suspended at.     *)
CallInv ==
  \A t \in Tasks :
    /\ pc[t] # "idle" <=> op[t].outcome = "running"
    /\ pc[t] # "idle" => phase \in {"entered", "exited"}
    /\ op[t].call = "charge" => pc[t] \notin {"reserve", "push", "log_items"}
    /\ op[t].call = "actor_push" => op[t].event # ItemEvent /\ op[t].default
    /\ op[t].call = "dataset_push" => op[t].event = NoEvent
    /\ pc[t] = "log_items" => HasManager(t) /\ op[t].default
    /\ pc[t] \in {"charge", "api", "finish"} => op[t].event # NoEvent
    /\ pc[t] \in {"api", "finish"} => op[t].charged \in Nat

LifeInv ==
  /\ phase = "entered" <=> active /\ phase # "failed"
  /\ phase = "new" => platform = ChargedEventCounts

(* Nothing is left to pay for, or the remaining budget pays for it.         *)
Fits(amount) ==
  MaxTotalCharge = NoLimit \/ amount = 0 \/ total + amount <= MaxTotalCharge

(* What a push of a task under the lock has reserved and not yet charged.   *)
ReservationInv ==
  \A t \in Tasks :
    HasManager(t) /\ op[t].call = "actor_push" =>
      IF op[t].event # NoEvent
      THEN /\ pc[t] \in {"push", "log_items", "charge", "api", "finish"} => op[t].items = op[t].limit
           /\ pc[t] = "push" => Fits(op[t].limit * (PriceOf(op[t].event) + PriceOf(ItemEvent)))
           /\ pc[t] \in {"log_items", "charge"} => Fits(op[t].limit * PriceOf(op[t].event))
           /\ pc[t] \in {"api", "finish"} => op[t].charged = op[t].limit
      ELSE /\ pc[t] = "push" => /\ Fits(op[t].items * PriceOf(ItemEvent))
                               /\ charge_count[ItemEvent] = op[t].before
           /\ pc[t] = "log_items" => charge_count[ItemEvent] = op[t].before + op[t].items

(* A charge the endpoint has still to execute is accounted for already.     *)
PendingChargeInv ==
  \A t \in Tasks : pc[t] = "api" =>
    platform[op[t].event] + op[t].charged <= charge_count[op[t].event]

(* A push to the default dataset fits the budget also where only its items  *)
(* are charged; no task charges the synthetic event but for stored items.   *)
ItemsFit ==
  \A t \in Tasks :
    /\ pc[t] = "push" => op[t].left <= op[t].items
    /\ pc[t] = "push" /\ op[t].default => Fits(op[t].items * PriceOf(ItemEvent))
    /\ pc[t] = "charge" => op[t].event # ItemEvent

(* Items the platform stored and the process has still to account for: only *)
(* the owner of the lock pushes to the default dataset.                     *)
Unsettled ==
  IF owner # NoTask /\ pc[owner] = "push" /\ op[owner].default
  THEN op[owner].items - op[owner].left ELSE 0

ItemAccountInv ==
  ChargesFollowItems =>
    LET settled == charge_count[ItemEvent] - ChargedEventCounts[ItemEvent] + Unsettled
    IN  /\ ItemsFit
        /\ phase = "new" => stored = 0
        /\ phase = "entered" => /\ settled <= stored
                                /\ failures = 0 => settled = stored
=============================================================================
