--------------------------- MODULE ChargingProofs ---------------------------
(* Proofs about Charging: the budget, the platform's account and the        *)
(* atomicity of a push, for every set of tasks, events and prices.          *)
EXTENDS Charging, TLAPS

-----------------------------------------------------------------------------
(* Arithmetic.                                                              *)

LEMMA Division ==
  ASSUME NEW a \in Nat, NEW p \in Nat \ {0}
  PROVE  /\ a \div p \in Nat
         /\ (a \div p) * p <= a
         /\ \A n \in Nat : n * p <= a => n <= a \div p
<1>1. a \div p \in Nat /\ (a \div p) * p <= a /\ a < (a \div p) * p + p
  BY SMT
<1>2. ASSUME NEW n \in Nat, n * p <= a, a \div p < n
      PROVE  FALSE
  <2> DEFINE q == a \div p
  <2>1. q \in Nat /\ q + 1 <= n
    BY <1>1, <1>2
  <2> HIDE DEF q
  <2>2. PICK d \in Nat : n = q + 1 + d
    BY <2>1
  <2>3. n * p = q * p + p + d * p
    BY <2>1, <2>2
  <2>4. d * p \in Nat
    BY SMT
  <2>5. QED
    BY <1>1, <1>2, <2>1, <2>3, <2>4 DEF q
<1>3. QED
  BY <1>1, <1>2

LEMMA PriceIsNat == \A e \in Events : PriceOf(e) \in Nat
BY ChargingAssumption DEF PriceOf

(* What Within lets through costs no more than the remaining budget.        *)
LEMMA WithinIsPaidFor ==
  ASSUME total \in Nat, NEW n \in Nat, NEW p \in Nat
  PROVE  LET m == Within(n, Affordable(p))
         IN  /\ m \in Nat /\ m <= n
             /\ Fits(m * p)
<1>1. CASE p = 0 \/ MaxTotalCharge = NoLimit
  BY <1>1 DEF Within, Affordable, Fits
<1>2. CASE p # 0 /\ MaxTotalCharge # NoLimit
  <2>1. MaxTotalCharge \in Nat /\ p \in Nat \ {0} /\ NoLimit \notin Int
    BY <1>2, ChargingAssumption
  <2>2. CASE total >= MaxTotalCharge
    <3>1. Affordable(p) = 0 /\ Affordable(p) # NoLimit
      BY <1>2, <2>1, <2>2 DEF Affordable
    <3>2. QED
      BY <3>1 DEF Within, Least, Fits
  <2>3. CASE ~(total >= MaxTotalCharge)
    <3> DEFINE q == (MaxTotalCharge - total) \div p
    <3>1. q \in Nat /\ q * p <= MaxTotalCharge - total
      BY <2>1, <2>3, Division
    <3>2. Affordable(p) = q /\ q # NoLimit
      BY <1>2, <2>1, <2>3, <3>1 DEF Affordable
    <3> HIDE DEF q
    <3> DEFINE m == Within(n, Affordable(p))
    <3>3. m \in Nat /\ m <= n /\ m <= q
      BY <3>1, <3>2 DEF Within, Least
    <3> HIDE DEF m
    <3>4. PICK d \in Nat : q = m + d
      BY <3>1, <3>3
    <3>5. q * p = m * p + d * p /\ d * p \in Nat /\ m * p \in Nat
      BY <3>3, <3>4
    <3>6. total + m * p <= MaxTotalCharge
      BY <2>1, <3>1, <3>5
    <3>7. QED
      BY <3>3, <3>6 DEF m, Fits
  <2>4. QED
    BY <2>2, <2>3
<1>3. QED
  BY <1>1, <1>2

(* What the remaining budget pays for, Within lets through in full.         *)
LEMMA WithinOfWhatFits ==
  ASSUME total \in Nat, NEW n \in Nat, NEW p \in Nat, Fits(n * p)
  PROVE  Within(n, Affordable(p)) = n
<1>1. CASE p = 0 \/ MaxTotalCharge = NoLimit
  BY <1>1 DEF Within, Affordable
<1>2. CASE p # 0 /\ MaxTotalCharge # NoLimit
  <2>1. MaxTotalCharge \in Nat /\ p \in Nat \ {0} /\ NoLimit \notin Int
    BY <1>2, ChargingAssumption
  <2>2. CASE n = 0
    <3>1. Within(n, Affordable(p)) \in Nat /\ Within(n, Affordable(p)) <= n
      BY WithinIsPaidFor
    <3>2. QED
      BY <2>2, <3>1
  <2>3. CASE n # 0
    <3>1. n * p \in Nat /\ n * p # 0
      BY <2>1, <2>3
    <3>2. total + n * p <= MaxTotalCharge
      BY <1>2, <3>1 DEF Fits
    <3>3. ~(total >= MaxTotalCharge) /\ MaxTotalCharge - total \in Nat /\ n * p <= MaxTotalCharge - total
      BY <2>1, <3>1, <3>2
    <3> DEFINE q == (MaxTotalCharge - total) \div p
    <3>4. q \in Nat /\ n <= q
      BY <2>1, <3>3, Division
    <3>5. Affordable(p) = q /\ q # NoLimit
      BY <1>2, <2>1, <3>3, <3>4 DEF Affordable
    <3>6. QED
      BY <3>4, <3>5 DEF Within, Least
  <2>4. QED
    BY <2>2, <2>3
<1>3. QED
  BY <1>1, <1>2

-----------------------------------------------------------------------------
(* Types, the fields of a call, and who holds the lock.                     *)

ControlInv == TypeOK /\ CallInv /\ LifeInv /\ LockInv

LEMMA ControlInit == Init => ControlInv
<1> SUFFICES ASSUME Init PROVE ControlInv
  OBVIOUS
<1> USE ChargingAssumption DEF Init
<1>1. NoOp \in OpRecord
  BY DEF NoOp, OpRecord, Calls
<1>2. TypeOK
  <2>1. charge_count \in [Events -> Nat] /\ platform \in [Events -> Nat] /\ total \in Nat /\ stored \in Nat
    OBVIOUS
  <2>2. pc \in [Tasks -> {"idle", "reserve", "push", "log_items", "charge", "api", "finish"}]
    OBVIOUS
  <2>3. op \in [Tasks -> OpRecord]
    BY <1>1
  <2>4. ops \in 0..MaxOps /\ failures \in 0..MaxFailures
    OBVIOUS
  <2>5. phase \in {"new", "entered", "failed", "exited"} /\ active \in BOOLEAN /\ owner \in Tasks \cup {NoTask}
    OBVIOUS
  <2>6. QED
    BY <2>1, <2>2, <2>3, <2>4, <2>5 DEF TypeOK
<1>3. CallInv
  BY DEF CallInv, NoOp
<1>4. LifeInv
  BY DEF LifeInv
<1>5. LockInv
  BY DEF LockInv, InLockedSection
<1>6. QED
  BY <1>2, <1>3, <1>4, <1>5 DEF ControlInv

LEMMA ControlStart ==
  ASSUME ControlInv, NEW t \in Tasks, Call(t)
  PROVE  ControlInv'
<1>1. PICK call \in Calls, e \in Events \cup {NoEvent}, d \in BOOLEAN, n \in Nat \ {0},
            at \in {"charge", "reserve"} :
        /\ Start(t, call, e, d, n, at)
        /\ call = "charge" <=> at = "charge"
        /\ call = "charge" => e # NoEvent
        /\ call = "actor_push" => e # ItemEvent /\ d
        /\ call = "dataset_push" => e = NoEvent
  BY ChargingAssumption DEF Call, CallCharge, CallActorPush, CallDatasetPush, Calls, Events
<1> DEFINE o == NewOp(call, e, d, n)
<1>2. /\ o \in OpRecord
      /\ op' = [op EXCEPT ![t] = o]
      /\ pc' = [pc EXCEPT ![t] = at]
      /\ pc[t] = "idle" /\ phase = "entered" /\ active
      /\ ops < MaxOps /\ ops' = ops + 1
      /\ UNCHANGED <<phase, active, charge_count, total, owner, platform, stored, failures>>
  BY <1>1 DEF Start, NewOp, OpRecord, accountVars, platformVars
<1> USE DEF ControlInv
<1>3. TypeOK'
  BY <1>2, ChargingAssumption DEF TypeOK
<1>4. CallInv'
  <2> SUFFICES ASSUME NEW u \in Tasks PROVE CallInv!(u)'
    BY DEF CallInv
  <2>1. CASE u = t
    BY <1>1, <1>2, <2>1 DEF TypeOK, CallInv, NewOp
  <2>2. CASE u # t
    BY <1>2, <2>2 DEF TypeOK, CallInv, HasManager
  <2>3. QED
    BY <2>1, <2>2
<1>5. LifeInv'
  BY <1>2 DEF LifeInv
<1>6. LockInv'
  <2> SUFFICES ASSUME NEW u \in Tasks
               PROVE  (InLockedSection(u) => owner = u /\ PayPerEvent)' /\ (owner = u => InLockedSection(u))'
    BY DEF LockInv
  <2>1. QED
    BY <1>1, <1>2 DEF TypeOK, LockInv, NewOp, InLockedSection, HasManager
<1>7. QED
  BY <1>3, <1>4, <1>5, <1>6

LEMMA LimitsAreNat ==
  ASSUME TypeOK, NEW t \in Tasks, NEW n \in Nat
  PROVE  /\ ExplicitLimit(t) \in Nat
         /\ ItemLimit(t, n) \in Nat /\ ItemLimit(t, n) <= n
         /\ \A e \in Events : Within(n, MaxEventChargeCountWithinLimit(e)) \in Nat
<1>1. total \in Nat /\ op[t].count \in Nat /\ op[t].event \in Events \cup {NoEvent} /\ ItemEvent \in Events
  BY DEF TypeOK, OpRecord, Events
<1>2. op[t].event # NoEvent => PriceOf(op[t].event) + PriceOf(ItemEvent) \in Nat
  BY <1>1, PriceIsNat
<1>3. ExplicitLimit(t) \in Nat
  BY <1>1, <1>2, WithinIsPaidFor DEF ExplicitLimit, PushDataLimit
<1>4. \A e \in Events : /\ Within(n, MaxEventChargeCountWithinLimit(e)) \in Nat
                         /\ Within(n, MaxEventChargeCountWithinLimit(e)) <= n
  BY <1>1, PriceIsNat, WithinIsPaidFor DEF MaxEventChargeCountWithinLimit
<1>5. QED
  BY <1>1, <1>3, <1>4 DEF ItemLimit

LEMMA ControlReserve ==
  ASSUME ControlInv, NEW t \in Tasks, Reserve(t)
  PROVE  ControlInv'
<1> USE DEF ControlInv
<1>1. TypeOK'
  <2> DEFINE n == ExplicitLimit(t)
             m == ItemLimit(t, n)
  <2>1. n \in Nat /\ m \in Nat /\ charge_count[ItemEvent] \in Nat
    BY LimitsAreNat DEF TypeOK, Events
  <2>2. \/ Raise(t)
        \/ /\ op' = [op EXCEPT ![t].limit = n, ![t].items = m, ![t].left = m,
                               ![t].before = charge_count[ItemEvent]]
           /\ pc' = [pc EXCEPT ![t] = "push"]
           /\ owner' = IF HasManager(t) THEN t ELSE owner
    BY DEF Reserve
  <2> HIDE DEF n, m
  <2>3. UNCHANGED <<phase, active, accountVars, platformVars, ops, failures>>
    BY DEF Reserve
  <2>4. CASE Raise(t)
    BY <2>3, <2>4 DEF TypeOK, Raise, ReleaseIfOwner, OpRecord, accountVars, platformVars
  <2>5. QED
    BY <2>1, <2>2, <2>3, <2>4 DEF TypeOK, OpRecord, accountVars, platformVars
<1>4. CallInv'
  <2> SUFFICES ASSUME NEW u \in Tasks PROVE CallInv!(u)'
    BY DEF CallInv
  <2>1. CASE u = t
    BY <2>1 DEF TypeOK, CallInv, OpRecord, Reserve, Raise, accountVars, platformVars
  <2>2. CASE u # t
    BY <2>2 DEF TypeOK, CallInv, HasManager, Reserve, Raise, accountVars, platformVars
  <2>3. QED
    BY <2>1, <2>2
<1>5. LifeInv'
  BY DEF LifeInv, Reserve, accountVars, platformVars
<1>6. LockInv'
  <2> SUFFICES ASSUME NEW u \in Tasks
               PROVE  (InLockedSection(u) => owner = u /\ PayPerEvent)' /\ (owner = u => InLockedSection(u))'
    BY DEF LockInv
  <2>1. QED
    BY ChargingAssumption DEF TypeOK, LockInv, InLockedSection, HasManager, Reserve, Raise, ReleaseIfOwner, accountVars, CanEnterLock
<1>7. QED
  BY <1>1, <1>4, <1>5, <1>6

LEMMA AccountIsTyped ==
  ASSUME TypeOK, NEW e \in Events, NEW n \in Nat, Account(e, n)
  PROVE  charge_count' \in [Events -> Nat] /\ total' \in Nat
<1>1. PriceOf(e) \in Nat
  BY PriceIsNat
<1>2. n * PriceOf(e) \in Nat
  BY <1>1
<1>3. QED
  BY <1>2 DEF TypeOK, Account

LEMMA ControlStoreChunk ==
  ASSUME ControlInv, NEW t \in Tasks, StoreChunk(t)
  PROVE  ControlInv'
<1> USE DEF ControlInv
<1>1. TypeOK'
  BY DEF TypeOK, OpRecord, StoreChunk, accountVars, platformVars
<1>2. CallInv'
  <2> SUFFICES ASSUME NEW u \in Tasks PROVE CallInv!(u)'
    BY DEF CallInv
  <2>1. CASE u = t
    BY <2>1 DEF TypeOK, CallInv, OpRecord, HasManager, StoreChunk, accountVars, platformVars
  <2>2. CASE u # t
    BY <2>2 DEF TypeOK, CallInv, HasManager, StoreChunk, accountVars, platformVars
  <2>3. QED
    BY <2>1, <2>2
<1>3. LifeInv'
  BY DEF LifeInv, StoreChunk, accountVars, platformVars
<1>4. LockInv'
  BY ChargingAssumption
     DEF TypeOK, CallInv, LockInv, InLockedSection, HasManager, StoreChunk, accountVars, platformVars
<1>5. QED
  BY <1>1, <1>2, <1>3, <1>4

LEMMA ControlFail ==
  ASSUME ControlInv, NEW t \in Tasks, Fail(t)
  PROVE  ControlInv'
<1> USE DEF ControlInv
<1>1. TypeOK'
  <2>1. /\ Raise(t) /\ failures < MaxFailures /\ failures' = failures + 1
        /\ UNCHANGED <<phase, active, accountVars, platformVars, ops>>
    BY DEF Fail, PushFails, ChargeFails
  <2>2. failures' \in 0..MaxFailures
    BY <2>1, ChargingAssumption DEF TypeOK
  <2>3. QED
    BY <2>1, <2>2 DEF TypeOK, OpRecord, Raise, ReleaseIfOwner, accountVars, platformVars
<1>2. CallInv'
  <2> SUFFICES ASSUME NEW u \in Tasks PROVE CallInv!(u)'
    BY DEF CallInv
  <2>1. CASE u = t
    BY <2>1 DEF TypeOK, CallInv, OpRecord, HasManager, Fail, PushFails, ChargeFails, Raise, ReleaseIfOwner, accountVars, platformVars
  <2>2. CASE u # t
    BY <2>2 DEF TypeOK, CallInv, HasManager, Fail, PushFails, ChargeFails, Raise, ReleaseIfOwner, accountVars, platformVars
  <2>3. QED
    BY <2>1, <2>2
<1>3. LifeInv'
  BY DEF LifeInv, Fail, PushFails, ChargeFails, Raise, ReleaseIfOwner, accountVars, platformVars
<1>4. LockInv'
  BY ChargingAssumption
     DEF TypeOK, CallInv, LockInv, InLockedSection, HasManager, Fail, PushFails, ChargeFails, Raise, ReleaseIfOwner, accountVars, platformVars
<1>5. QED
  BY <1>1, <1>2, <1>3, <1>4

LEMMA ControlItemsLogged ==
  ASSUME ControlInv, NEW t \in Tasks, ItemsLogged(t)
  PROVE  ControlInv'
<1> USE DEF ControlInv
<1>1. TypeOK'
  BY DEF TypeOK, OpRecord, Events, ItemsLogged, AfterItems, Raise, Return, ReleaseIfOwner, accountVars, platformVars
<1>2. CallInv'
  <2> SUFFICES ASSUME NEW u \in Tasks PROVE CallInv!(u)'
    BY DEF CallInv
  <2>1. CASE u = t
    BY <2>1 DEF TypeOK, CallInv, OpRecord, HasManager, ItemsLogged, AfterItems, Raise, Return, ReleaseIfOwner, accountVars, platformVars
  <2>2. CASE u # t
    BY <2>2 DEF TypeOK, CallInv, HasManager, ItemsLogged, AfterItems, Raise, Return, ReleaseIfOwner, accountVars, platformVars
  <2>3. QED
    BY <2>1, <2>2
<1>3. LifeInv'
  BY DEF LifeInv, ItemsLogged, AfterItems, Raise, Return, ReleaseIfOwner, accountVars, platformVars
<1>4. LockInv'
  BY ChargingAssumption
     DEF TypeOK, OpRecord, Calls, CallInv, LockInv, InLockedSection, HasManager, ItemsLogged, AfterItems, Raise, Return, ReleaseIfOwner, accountVars, platformVars
<1>5. QED
  BY <1>1, <1>2, <1>3, <1>4

LEMMA ControlPlatformCharges ==
  ASSUME ControlInv, NEW t \in Tasks, PlatformCharges(t)
  PROVE  ControlInv'
<1> USE DEF ControlInv
<1>1. TypeOK'
  BY DEF TypeOK, OpRecord, CallInv, PlatformCharges, accountVars
<1>2. CallInv'
  <2> SUFFICES ASSUME NEW u \in Tasks PROVE CallInv!(u)'
    BY DEF CallInv
  <2>1. CASE u = t
    BY <2>1 DEF TypeOK, CallInv, OpRecord, HasManager, PlatformCharges, accountVars
  <2>2. CASE u # t
    BY <2>2 DEF TypeOK, CallInv, HasManager, PlatformCharges, accountVars
  <2>3. QED
    BY <2>1, <2>2
<1>3. LifeInv'
  BY DEF LifeInv, CallInv, PlatformCharges, accountVars
<1>4. LockInv'
  BY ChargingAssumption
     DEF TypeOK, CallInv, LockInv, InLockedSection, HasManager, PlatformCharges, accountVars
<1>5. QED
  BY <1>1, <1>2, <1>3, <1>4

LEMMA ControlChargeAnswered ==
  ASSUME ControlInv, NEW t \in Tasks, ChargeAnswered(t)
  PROVE  ControlInv'
<1> USE DEF ControlInv
<1>1. TypeOK'
  BY DEF TypeOK, OpRecord, ChargeAnswered, Raise, Return, ReleaseIfOwner, accountVars, platformVars
<1>2. CallInv'
  <2> SUFFICES ASSUME NEW u \in Tasks PROVE CallInv!(u)'
    BY DEF CallInv
  <2>1. CASE u = t
    BY <2>1 DEF TypeOK, CallInv, OpRecord, HasManager, ChargeAnswered, Raise, Return, ReleaseIfOwner, accountVars, platformVars
  <2>2. CASE u # t
    BY <2>2 DEF TypeOK, CallInv, HasManager, ChargeAnswered, Raise, Return, ReleaseIfOwner, accountVars, platformVars
  <2>3. QED
    BY <2>1, <2>2
<1>3. LifeInv'
  BY DEF LifeInv, ChargeAnswered, Raise, Return, ReleaseIfOwner, accountVars, platformVars
<1>4. LockInv'
  BY ChargingAssumption
     DEF TypeOK, CallInv, LockInv, InLockedSection, HasManager, ChargeAnswered, Raise, Return, ReleaseIfOwner, accountVars, platformVars
<1>5. QED
  BY <1>1, <1>2, <1>3, <1>4

LEMMA ControlChargeItems ==
  ASSUME ControlInv, NEW t \in Tasks, ChargeItems(t)
  PROVE  ControlInv'
<1> USE DEF ControlInv
<1>1. TypeOK'
  <2> DEFINE n == Within(op[t].items, MaxEventChargeCountWithinLimit(ItemEvent))
  <2>1. n \in Nat /\ ItemEvent \in Events
    BY LimitsAreNat DEF TypeOK, OpRecord, Events
  <2>2. /\ \/ UNCHANGED accountVars
           \/ Account(ItemEvent, n)
        /\ AfterItems(t) \/ Raise(t) \/ (pc' = [pc EXCEPT ![t] = "log_items"] /\ UNCHANGED <<op, owner>>)
        /\ UNCHANGED <<phase, active, platformVars, ops, failures>>
    BY DEF ChargeItems
  <2> HIDE DEF n
  <2>3. charge_count' \in [Events -> Nat] /\ total' \in Nat
    BY <2>1, <2>2, AccountIsTyped DEF TypeOK, accountVars
  <2>4. QED
    BY <2>1, <2>2, <2>3 DEF TypeOK, OpRecord, AfterItems, Raise, Return, ReleaseIfOwner, platformVars
<1>2. CallInv'
  <2> SUFFICES ASSUME NEW u \in Tasks PROVE CallInv!(u)'
    BY DEF CallInv
  <2>1. CASE u = t
    BY <2>1 DEF TypeOK, CallInv, OpRecord, HasManager, ChargeItems, AfterItems, Account, Raise, Return, ReleaseIfOwner, accountVars, platformVars
  <2>2. CASE u # t
    BY <2>2 DEF TypeOK, CallInv, HasManager, ChargeItems, AfterItems, Account, Raise, Return, ReleaseIfOwner, accountVars, platformVars
  <2>3. QED
    BY <2>1, <2>2
<1>3. LifeInv'
  BY DEF LifeInv, ChargeItems, AfterItems, Account, Raise, Return, ReleaseIfOwner, accountVars, platformVars
<1>4. LockInv'
  BY ChargingAssumption
     DEF TypeOK, OpRecord, Calls, CallInv, LockInv, InLockedSection, HasManager, ChargeItems, AfterItems, Account, Raise, Return, ReleaseIfOwner, accountVars, platformVars
<1>5. QED
  BY <1>1, <1>2, <1>3, <1>4

(* The outcomes of Charge, with the number of events left abstract.         *)
LEMMA ChargeOutcomes ==
  ASSUME ControlInv, NEW t \in Tasks, Charge(t)
  PROVE  /\ pc[t] = "charge" /\ op[t].event \in Events
         /\ \E n \in Nat :
              \/ /\ UNCHANGED accountVars
                 /\ Raise(t) \/ Return(t, 0)
              \/ /\ PayPerEvent /\ active /\ CanEnterLock(t)
                 /\ n = Within(op[t].limit, MaxEventChargeCountWithinLimit(op[t].event))
                 /\ Account(op[t].event, n)
                 /\ \/ Return(t, n)
                    \/ /\ \E at \in {"api", "finish"} : pc' = [pc EXCEPT ![t] = at]
                       /\ op' = [op EXCEPT ![t].charged = n]
                       /\ owner' = t
         /\ UNCHANGED <<phase, active, platformVars, ops, failures>>
<1>1. pc[t] = "charge" /\ op[t].event \in Events /\ op[t].limit \in Nat
  BY DEF ControlInv, TypeOK, OpRecord, CallInv, Charge
<1> DEFINE n == Within(op[t].limit, MaxEventChargeCountWithinLimit(op[t].event))
<1>2. n \in Nat
  BY <1>1, LimitsAreNat DEF ControlInv
<1>3. QED
  BY <1>1, <1>2 DEF Charge

LEMMA ControlCharge ==
  ASSUME ControlInv, NEW t \in Tasks, Charge(t)
  PROVE  ControlInv'
<1>1. PICK n \in Nat :
        \/ /\ UNCHANGED accountVars
           /\ Raise(t) \/ Return(t, 0)
        \/ /\ PayPerEvent /\ CanEnterLock(t)
           /\ Account(op[t].event, n)
           /\ \/ Return(t, n)
              \/ /\ \E at \in {"api", "finish"} : pc' = [pc EXCEPT ![t] = at]
                 /\ op' = [op EXCEPT ![t].charged = n]
                 /\ owner' = t
  BY ChargeOutcomes
<1>2. /\ pc[t] = "charge" /\ op[t].event \in Events
      /\ UNCHANGED <<phase, active, platformVars, ops, failures>>
  BY ChargeOutcomes
<1> USE DEF ControlInv
<1>3. TypeOK'
  <2>1. charge_count' \in [Events -> Nat] /\ total' \in Nat
    BY <1>1, <1>2, AccountIsTyped DEF TypeOK, accountVars
  <2>2. QED
    BY <1>1, <1>2, <2>1 DEF TypeOK, OpRecord, Raise, Return, ReleaseIfOwner, platformVars
<1>4. CallInv'
  <2> SUFFICES ASSUME NEW u \in Tasks PROVE CallInv!(u)'
    BY DEF CallInv
  <2>1. CASE u = t
    BY <1>1, <1>2, <2>1, ChargingAssumption
       DEF TypeOK, CallInv, OpRecord, HasManager, Raise, Return, platformVars
  <2>2. CASE u # t
    BY <1>1, <1>2, <2>2 DEF TypeOK, CallInv, HasManager, Raise, Return, platformVars
  <2>3. QED
    BY <2>1, <2>2
<1>5. LifeInv'
  BY <1>2 DEF LifeInv, platformVars
<1>6. LockInv'
  BY <1>1, <1>2, ChargingAssumption
     DEF TypeOK, LockInv, InLockedSection, HasManager, Raise, Return, ReleaseIfOwner, CanEnterLock
<1>7. QED
  BY <1>3, <1>4, <1>5, <1>6

LEMMA ControlLife ==
  ASSUME ControlInv, Enter \/ Exit \/ UNCHANGED vars
  PROVE  ControlInv'
<1> USE DEF ControlInv
<1>1. TypeOK'
  BY ChargingAssumption, InitialAmountAssumption DEF TypeOK, Enter, Exit, vars, accountVars, platformVars
<1>2. CallInv'
  BY DEF CallInv, HasManager, Enter, Exit, vars
<1>3. LifeInv'
  BY DEF LifeInv, Enter, Exit, vars, platformVars
<1>4. LockInv'
  BY DEF LockInv, InLockedSection, HasManager, Enter, Exit, vars
<1>5. QED
  BY <1>1, <1>2, <1>3, <1>4

LEMMA ControlStep == ControlInv /\ [Next]_vars => ControlInv'
<1> SUFFICES ASSUME ControlInv, [Next]_vars PROVE ControlInv'
  OBVIOUS
<1>1. CASE Enter \/ Exit \/ UNCHANGED vars
  BY <1>1, ControlLife
<1>2. ASSUME NEW t \in Tasks, Call(t) PROVE ControlInv'
  BY <1>2, ControlStart
<1>3. ASSUME NEW t \in Tasks, Reserve(t) PROVE ControlInv'
  BY <1>3, ControlReserve
<1>4. ASSUME NEW t \in Tasks, Progress(t) PROVE ControlInv'
  BY <1>4, ControlStoreChunk, ControlChargeItems, ControlItemsLogged, ControlPlatformCharges,
     ControlChargeAnswered DEF Progress
<1>5. ASSUME NEW t \in Tasks, Charge(t) PROVE ControlInv'
  BY <1>5, ControlCharge
<1>6. ASSUME NEW t \in Tasks, Fail(t) PROVE ControlInv'
  BY <1>6, ControlFail
<1>7. QED
  BY <1>1, <1>2, <1>3, <1>4, <1>5, <1>6 DEF Next, Step

LEMMA ControlAlways == Spec => []ControlInv
<1>1. QED
  BY ControlInit, ControlStep, PTL DEF Spec

(* Every variable keeps its type.                                           *)
THEOREM TypeCorrect == Spec => []TypeOK
<1>1. ControlInv => TypeOK
  BY DEF ControlInv
<1>2. QED
  BY <1>1, ControlAlways, PTL

-----------------------------------------------------------------------------
(* The budget.  Only two steps account for events, and each for no more     *)
(* than the remaining budget pays for at that moment.                       *)

LEMMA ChargeItemsOutcomes ==
  ASSUME ControlInv, NEW t \in Tasks, ChargeItems(t)
  PROVE  /\ pc[t] = "push" /\ ItemEvent \in Events /\ op[t].items \in Nat
         /\ \E n \in Nat :
              \/ /\ UNCHANGED accountVars
                 /\ AfterItems(t) /\ ~(HasManager(t) /\ op[t].default)
              \/ UNCHANGED accountVars /\ Raise(t)
              \/ /\ HasManager(t)
                 /\ n = Within(op[t].items, MaxEventChargeCountWithinLimit(ItemEvent))
                 /\ Account(ItemEvent, n)
                 /\ \/ AfterItems(t)
                    \/ pc' = [pc EXCEPT ![t] = "log_items"] /\ UNCHANGED <<op, owner>>
         /\ UNCHANGED <<phase, active, platformVars, ops, failures>>
<1>1. ItemEvent \in Events /\ op[t].items \in Nat
  BY DEF ControlInv, TypeOK, OpRecord, Events
<1> DEFINE n == Within(op[t].items, MaxEventChargeCountWithinLimit(ItemEvent))
<1>2. n \in Nat
  BY <1>1, LimitsAreNat DEF ControlInv
<1>3. QED
  BY <1>1, <1>2 DEF ChargeItems

(* A step accounts for nothing, or for events of one kind the budget pays   *)
(* for, by a task that has or takes the lock.                               *)
AccountsFor(t) ==
  \E e \in Events, n \in Nat :
    /\ Account(e, n) /\ Fits(n * PriceOf(e)) /\ CanEnterLock(t) /\ phase = "entered"

LEMMA AccountedByTask ==
  ASSUME ControlInv, NEW t \in Tasks, Step(t)
  PROVE  UNCHANGED accountVars \/ AccountsFor(t)
<1>1. ASSUME ChargeItems(t)
      PROVE  UNCHANGED accountVars \/ AccountsFor(t)
  <2>1. ASSUME NEW n \in Nat, n = Within(op[t].items, MaxEventChargeCountWithinLimit(ItemEvent))
        PROVE  Fits(n * PriceOf(ItemEvent))
    <3>1. op[t].items \in Nat /\ total \in Nat /\ PriceOf(ItemEvent) \in Nat
      BY <1>1, ChargeItemsOutcomes, PriceIsNat DEF ControlInv, TypeOK
    <3>2. QED
      BY <2>1, <3>1, WithinIsPaidFor DEF MaxEventChargeCountWithinLimit
  <2>2. HasManager(t) => CanEnterLock(t)
    BY <1>1, ChargeItemsOutcomes DEF ControlInv, LockInv, InLockedSection, CanEnterLock
  <2>3. active => phase = "entered" \/ UNCHANGED accountVars
    BY <1>1 DEF ControlInv, LifeInv, CallInv, ChargeItems
  <2>4. ~active => UNCHANGED accountVars
    BY <1>1 DEF ChargeItems
  <2>5. QED
    BY <1>1, <2>1, <2>2, <2>3, <2>4, ChargeItemsOutcomes DEF AccountsFor
<1>2. ASSUME Charge(t)
      PROVE  UNCHANGED accountVars \/ AccountsFor(t)
  <2>1. ASSUME NEW n \in Nat, NEW e \in Events,
               n = Within(op[t].limit, MaxEventChargeCountWithinLimit(e))
        PROVE  Fits(n * PriceOf(e))
    <3>1. op[t].limit \in Nat /\ total \in Nat /\ PriceOf(e) \in Nat
      BY PriceIsNat DEF ControlInv, TypeOK, OpRecord
    <3>2. QED
      BY <2>1, <3>1, WithinIsPaidFor DEF MaxEventChargeCountWithinLimit
  <2>2. active => phase = "entered"
    BY <1>2 DEF ControlInv, LifeInv, CallInv, Charge
  <2>3. QED
    BY <1>2, <2>1, <2>2, ChargeOutcomes DEF AccountsFor
<1>3. ASSUME Call(t) \/ Reserve(t) \/ Fail(t)
      PROVE  UNCHANGED accountVars
  BY <1>3 DEF Call, CallCharge, CallActorPush, CallDatasetPush, Start, Reserve, Fail, PushFails, ChargeFails
<1>4. ASSUME Progress(t), ~ChargeItems(t)
      PROVE  UNCHANGED accountVars
  BY <1>4 DEF Progress, StoreChunk, ItemsLogged, PlatformCharges, ChargeAnswered
<1>5. QED
  BY <1>1, <1>2, <1>3, <1>4 DEF Step

LEMMA AccountedSteps ==
  ASSUME ControlInv, [Next]_vars
  PROVE  Enter \/ UNCHANGED accountVars \/ \E t \in Tasks : AccountsFor(t)
<1>1. Exit \/ UNCHANGED vars => UNCHANGED accountVars
  BY DEF Exit, vars, accountVars
<1>2. QED
  BY <1>1, AccountedByTask DEF Next

LEMMA BudgetStep == ControlInv /\ BudgetRespected /\ [Next]_vars => BudgetRespected'
<1> SUFFICES ASSUME ControlInv, BudgetRespected, [Next]_vars PROVE BudgetRespected'
  OBVIOUS
<1>1. CASE Enter
  BY <1>1, ChargingAssumption, InitialAmountAssumption DEF Enter, BudgetRespected, ControlInv, TypeOK, accountVars
<1>2. CASE UNCHANGED accountVars
  BY <1>2 DEF BudgetRespected, accountVars
<1>3. ASSUME NEW t \in Tasks, AccountsFor(t)
      PROVE  BudgetRespected'
  BY <1>3, ChargingAssumption, InitialAmountAssumption
     DEF AccountsFor, Account, Fits, BudgetRespected, ControlInv, TypeOK
<1>4. QED
  BY <1>1, <1>2, <1>3, AccountedSteps

(* The total accounted for never passes the user's limit, or what the run   *)
(* had already spent beyond it, however many tasks charge and push at once  *)
(* and whichever of their calls fail.                                       *)
THEOREM BudgetIsRespected == Spec => []BudgetRespected
<1>1. Init => BudgetRespected
  BY ChargingAssumption, InitialAmountAssumption DEF Init, BudgetRespected
<1>2. QED
  BY <1>1, BudgetStep, ControlAlways, PTL DEF Spec

-----------------------------------------------------------------------------
(* The platform's account.  A charge is accounted for before it is sent,    *)
(* and only the task that owns the lock has one on its way.                 *)

PlatformInv == PlatformWithinAccount /\ PendingChargeInv

LEMMA PlatformStep == ControlInv /\ PlatformInv /\ [Next]_vars => PlatformInv'
<1> SUFFICES ASSUME ControlInv, PlatformInv, [Next]_vars PROVE PlatformInv'
  OBVIOUS
<1> USE DEF PlatformInv
<1>1. CASE Enter
  BY <1>1, ChargingAssumption
     DEF Enter, PlatformWithinAccount, PendingChargeInv, ControlInv, TypeOK, LifeInv, CallInv, platformVars
<1>2. CASE Exit \/ UNCHANGED vars
  BY <1>2 DEF Exit, vars, PlatformWithinAccount, PendingChargeInv, ControlInv, LifeInv, accountVars, platformVars
<1>3. ASSUME NEW t \in Tasks, Call(t) \/ Reserve(t) \/ Fail(t) \/ StoreChunk(t) \/ ItemsLogged(t) \/ ChargeAnswered(t)
      PROVE  PlatformInv'
  <2>1. /\ UNCHANGED <<phase, charge_count, platform>>
        /\ \A u \in Tasks : pc'[u] = "api" => pc[u] = "api" /\ op'[u] = op[u]
    BY <1>3 DEF ControlInv, TypeOK, Call, CallCharge, CallActorPush, CallDatasetPush, Start, Reserve, Fail,
       PushFails, ChargeFails, StoreChunk, ItemsLogged, ChargeAnswered, AfterItems, Raise, Return,
       accountVars, platformVars
  <2>2. QED
    BY <2>1 DEF PlatformWithinAccount, PendingChargeInv
<1>4. ASSUME NEW t \in Tasks, ChargeItems(t)
      PROVE  PlatformInv'
  <2>1. /\ UNCHANGED <<phase, platform>>
        /\ \A u \in Tasks : pc'[u] = "api" => pc[u] = "api" /\ op'[u] = op[u]
    BY <1>4 DEF ControlInv, TypeOK, ChargeItems, AfterItems, Raise, Return, platformVars
  <2>2. \A e \in Events : charge_count'[e] \in Nat /\ charge_count[e] <= charge_count'[e]
    BY <1>4, ChargeItemsOutcomes DEF ControlInv, TypeOK, Account, accountVars
  <2>3. \A u \in Tasks : pc[u] = "api" => op[u].event \in Events /\ op[u].charged \in Nat
    BY DEF ControlInv, TypeOK, OpRecord, CallInv
  <2>4. \A e \in Events : charge_count[e] \in Nat /\ platform[e] \in Nat
    BY DEF ControlInv, TypeOK
  <2>5. PlatformWithinAccount'
    BY <2>1, <2>2, <2>4 DEF PlatformWithinAccount
  <2>6. PendingChargeInv'
    BY <2>1, <2>2, <2>3, <2>4 DEF PendingChargeInv
  <2>7. QED
    BY <2>5, <2>6
<1>5. ASSUME NEW t \in Tasks, Charge(t)
      PROVE  PlatformInv'
  <2>1. pc[t] = "charge" /\ op[t].event \in Events /\ UNCHANGED <<phase, platform>>
    BY <1>5, ChargeOutcomes DEF platformVars
  <2>2. \A e \in Events : charge_count'[e] \in Nat /\ charge_count[e] <= charge_count'[e]
    BY <1>5, ChargeOutcomes DEF ControlInv, TypeOK, Account, accountVars
  <2>3. \A u \in Tasks : pc[u] = "api" => op[u].event \in Events /\ op[u].charged \in Nat
    BY DEF ControlInv, TypeOK, OpRecord, CallInv
  <2>4. \A e \in Events : charge_count[e] \in Nat /\ platform[e] \in Nat
    BY DEF ControlInv, TypeOK
  <2>5. PlatformWithinAccount'
    BY <2>1, <2>2, <2>4 DEF PlatformWithinAccount
  <2>6. ASSUME NEW u \in Tasks, u # t, pc'[u] = "api"
        PROVE  pc[u] = "api" /\ op'[u] = op[u]
    BY <1>5, <2>6, ChargeOutcomes DEF ControlInv, TypeOK, Raise, Return
  <2>7. ASSUME pc'[t] = "api"
        PROVE  platform[op'[t].event] + op'[t].charged <= charge_count'[op'[t].event]
    <3>1. phase \in {"entered", "exited"}
      BY <2>1 DEF ControlInv, CallInv
    <3>2. pc \in [Tasks -> {"idle", "reserve", "push", "log_items", "charge", "api", "finish"}]
      BY DEF ControlInv, TypeOK
    <3>3. ~Raise(t) /\ \A n : ~Return(t, n)
      BY <2>7, <3>2 DEF Raise, Return
    <3>4. PICK n \in Nat : Account(op[t].event, n) /\ op' = [op EXCEPT ![t].charged = n]
      BY <1>5, <3>3, ChargeOutcomes
    <3>5. op'[t].event = op[t].event /\ op'[t].charged = n
      BY <3>4 DEF ControlInv, TypeOK, OpRecord
    <3>6. charge_count'[op[t].event] = charge_count[op[t].event] + n
      BY <2>1, <3>4 DEF ControlInv, TypeOK, Account
    <3>7. QED
      BY <2>1, <2>4, <3>1, <3>5, <3>6 DEF PlatformWithinAccount
  <2>8. PendingChargeInv'
    BY <2>1, <2>2, <2>3, <2>4, <2>6, <2>7 DEF PendingChargeInv
  <2>9. QED
    BY <2>5, <2>8
<1>6. ASSUME NEW t \in Tasks, PlatformCharges(t)
      PROVE  PlatformInv'
  <2>1. op[t].event \in Events /\ op[t].charged \in Nat /\ pc[t] = "api"
    BY <1>6 DEF ControlInv, TypeOK, OpRecord, CallInv, PlatformCharges
  <2>2. PlatformWithinAccount'
    BY <1>6, <2>1 DEF PlatformWithinAccount, PendingChargeInv, ControlInv, TypeOK, PlatformCharges, accountVars
  <2>3. \A u \in Tasks : pc'[u] # "api"
    BY <1>6, <2>1, ChargingAssumption DEF ControlInv, TypeOK, LockInv, InLockedSection, PlatformCharges
  <2>4. QED
    BY <2>2, <2>3 DEF PendingChargeInv
<1>7. QED
  BY <1>1, <1>2, <1>3, <1>4, <1>5, <1>6 DEF Next, Step, Progress

(* The charge endpoint has never executed more events of a kind than the    *)
(* process accounts for, at any moment and after any failure.               *)
THEOREM PlatformIsWithinAccount == Spec => []PlatformWithinAccount
<1>1. Init => PlatformInv
  BY DEF Init, PlatformInv, PlatformWithinAccount, PendingChargeInv
<1>2. PlatformInv => PlatformWithinAccount
  BY DEF PlatformInv
<1>3. QED
  BY <1>1, <1>2, PlatformStep, ControlAlways, PTL DEF Spec

-----------------------------------------------------------------------------
(* The atomicity of a push.  While a task is between its reservation and    *)
(* the charge for it, nobody else accounts for anything.                    *)

PushInvOf(u) == ReservationInv!(u) /\ PushChargesEveryItem!(u) /\ PushReportsOwnItems!(u)

LEMMA OthersKeepReservations ==
  ASSUME ControlInv, NEW t \in Tasks, NEW u \in Tasks, t # u, Step(t), PushInvOf(u)
  PROVE  PushInvOf(u)'
<1>1. HasManager(u) = HasManager(u)'
  BY DEF HasManager
<1>2. pc'[u] = pc[u] /\ op'[u] = op[u]
  BY DEF ControlInv, TypeOK, Step, Call, CallCharge, CallActorPush, CallDatasetPush, Start, Reserve,
     Progress, StoreChunk, ChargeItems, ItemsLogged, PlatformCharges, ChargeAnswered, Charge,
     Fail, PushFails, ChargeFails, AfterItems, Raise, Return
<1>3. CASE ~InLockedSection(u)
  BY <1>2, <1>1, <1>3 DEF PushInvOf, ReservationInv, PushChargesEveryItem, PushReportsOwnItems,
     ReturnedPush, InLockedSection
<1>4. CASE UNCHANGED accountVars
  BY <1>2, <1>1, <1>4 DEF PushInvOf, ReservationInv, PushChargesEveryItem, PushReportsOwnItems,
     ReturnedPush, Fits, accountVars
<1>5. CASE InLockedSection(u) /\ ~UNCHANGED accountVars
  <2>1. owner = u /\ u # NoTask
    BY <1>5, ChargingAssumption DEF ControlInv, LockInv
  <2>2. AccountsFor(t)
    BY <1>5, AccountedByTask
  <2>3. QED
    BY <2>1, <2>2 DEF AccountsFor, CanEnterLock
<1>6. QED
  BY <1>3, <1>4, <1>5

(* The limit of Actor.push_data pays for both events of every item, so the  *)
(* dataset client caps it no further.                                       *)
LEMMA ReserveReserves ==
  ASSUME ControlInv, NEW t \in Tasks, Reserve(t), PushInvOf(t)
  PROVE  PushInvOf(t)'
<1> SUFFICES ASSUME HasManager(t), op[t].call = "actor_push"
             PROVE  PushInvOf(t)'
  BY DEF Reserve, Raise, PushInvOf, ReservationInv, PushChargesEveryItem, PushReportsOwnItems,
     ReturnedPush, HasManager, ControlInv, TypeOK, OpRecord
<1> DEFINE n == ExplicitLimit(t)
           m == ItemLimit(t, n)
           e == op[t].event
           pi == PriceOf(ItemEvent)
<1>1. /\ e \in Events \cup {NoEvent} /\ ItemEvent \in Events /\ op[t].default
      /\ total \in Nat /\ op[t].count \in Nat /\ pi \in Nat /\ NoEvent \notin Events
      /\ n \in Nat /\ m \in Nat
  BY LimitsAreNat, PriceIsNat, ChargingAssumption DEF ControlInv, TypeOK, CallInv, OpRecord, Events
<1>2. m = Within(n, Affordable(pi))
  BY <1>1 DEF ItemLimit, MaxEventChargeCountWithinLimit
<1>3. CASE Raise(t)
  BY <1>3 DEF Raise, PushInvOf, ReservationInv, PushChargesEveryItem, PushReportsOwnItems,
     ReturnedPush, ControlInv, TypeOK, OpRecord
<1>4. CASE ~Raise(t)
  <2>1. /\ pc' = [pc EXCEPT ![t] = "push"] /\ UNCHANGED <<charge_count, total>>
        /\ op' = [op EXCEPT ![t].limit = n, ![t].items = m, ![t].left = m,
                            ![t].before = charge_count[ItemEvent]]
    BY <1>4 DEF Reserve, accountVars
  <2> HIDE DEF n, m
  <2>2. /\ pc'[t] = "push" /\ op'[t].outcome = "running" /\ op'[t].event = e
        /\ op'[t].call = "actor_push" /\ op'[t].limit = n /\ op'[t].items = m
        /\ op'[t].before = charge_count'[ItemEvent]
    BY <1>4, <2>1 DEF ControlInv, TypeOK, CallInv, OpRecord, Reserve
  <2>3. CASE e # NoEvent
    <3> DEFINE pe == PriceOf(e)
    <3>1. pe \in Nat /\ n = Within(op[t].count, Affordable(pe + pi))
      BY <1>1, <2>3, PriceIsNat DEF n, ExplicitLimit, PushDataLimit
    <3> HIDE DEF pe, pi
    <3>2. Fits(n * (pe + pi))
      <4>1. pe + pi \in Nat
        BY <1>1, <3>1
      <4>2. Fits(Within(op[t].count, Affordable(pe + pi)) * (pe + pi))
        BY <1>1, <4>1, WithinIsPaidFor
      <4>3. QED
        BY <3>1, <4>2
    <3>3. Fits(n * pi)
      <4>1. n * (pe + pi) = n * pe + n * pi /\ n * pe \in Nat /\ n * pi \in Nat
        BY <1>1, <3>1
      <4>2. MaxTotalCharge = NoLimit \/ MaxTotalCharge \in Nat
        BY ChargingAssumption
      <4>3. QED
        BY <1>1, <3>2, <4>1, <4>2 DEF Fits
    <3>4. m = n
      BY <1>1, <1>2, <3>3, WithinOfWhatFits
    <3>5. QED
      BY <2>1, <2>2, <2>3, <3>2, <3>4 DEF pe, pi, PushInvOf, ReservationInv, PushChargesEveryItem,
         PushReportsOwnItems, ReturnedPush, Fits
  <2>4. CASE e = NoEvent
    <3>1. Fits(m * pi)
      BY <1>1, <1>2, WithinIsPaidFor
    <3>2. QED
      BY <2>1, <2>2, <2>4, <3>1 DEF PushInvOf, ReservationInv, PushChargesEveryItem,
         PushReportsOwnItems, ReturnedPush, Fits
  <2>5. QED
    BY <2>3, <2>4
<1>5. QED
  BY <1>3, <1>4

(* The synthetic events are charged in full, and what is left pays for the  *)
(* explicit ones.                                                           *)
LEMMA ChargeItemsUsesReservation ==
  ASSUME ControlInv, NEW t \in Tasks, ChargeItems(t), PushInvOf(t)
  PROVE  PushInvOf(t)'
<1> SUFFICES ASSUME HasManager(t), op[t].call = "actor_push"
             PROVE  PushInvOf(t)'
  BY DEF ChargeItems, AfterItems, Return, Raise, PushInvOf, ReservationInv, PushChargesEveryItem,
     PushReportsOwnItems, ReturnedPush, HasManager, ControlInv, TypeOK, OpRecord
<1> DEFINE e == op[t].event
           k == op[t].items
           pi == PriceOf(ItemEvent)
<1>1. /\ e \in Events \cup {NoEvent} /\ ItemEvent \in Events /\ op[t].default
      /\ total \in Nat /\ k \in Nat /\ pi \in Nat /\ pc[t] = "push"
      /\ op[t].outcome = "running" /\ op[t].limit \in Nat
  BY PriceIsNat DEF ControlInv, TypeOK, CallInv, OpRecord, Events, ChargeItems
<1>2. CASE Raise(t)
  BY <1>2 DEF Raise, PushInvOf, ReservationInv, PushChargesEveryItem, PushReportsOwnItems,
     ReturnedPush, ControlInv, TypeOK, OpRecord
<1>3. CASE ~Raise(t)
  <2>1. Fits(k * pi)
    <3>1. CASE e # NoEvent
      <4> DEFINE pe == PriceOf(e)
      <4>1. k = op[t].limit /\ Fits(k * (pe + pi)) /\ pe \in Nat
        BY <1>1, <3>1, PriceIsNat DEF PushInvOf, ReservationInv
      <4> HIDE DEF pe, pi, k
      <4>2. k * (pe + pi) = k * pe + k * pi /\ k * pe \in Nat /\ k * pi \in Nat
        BY <1>1, <4>1
      <4>3. MaxTotalCharge = NoLimit \/ MaxTotalCharge \in Nat
        BY ChargingAssumption
      <4>4. QED
        BY <1>1, <4>1, <4>2, <4>3 DEF Fits
    <3>2. CASE e = NoEvent
      BY <1>1, <3>2 DEF PushInvOf, ReservationInv
    <3>3. QED
      BY <3>1, <3>2
  <2>2. Within(k, MaxEventChargeCountWithinLimit(ItemEvent)) = k
    BY <1>1, <2>1, WithinOfWhatFits DEF MaxEventChargeCountWithinLimit
  <2>3. Account(ItemEvent, k) /\ (AfterItems(t) \/ (pc' = [pc EXCEPT ![t] = "log_items"] /\ UNCHANGED <<op, owner>>))
    BY <1>1, <1>3, <2>2 DEF ChargeItems
  <2>4. charge_count'[ItemEvent] = charge_count[ItemEvent] + k /\ total' = total + k * pi
    BY <1>1, <2>3 DEF Account, ControlInv, TypeOK
  <2>5. CASE e # NoEvent
    <3> DEFINE pe == PriceOf(e)
    <3>1. k = op[t].limit /\ Fits(k * (pe + pi)) /\ pe \in Nat
      BY <1>1, <2>5, PriceIsNat DEF PushInvOf, ReservationInv
    <3>2. Fits(k * pe)'
      <4> HIDE DEF pe, pi, k
      <4>1. k * (pe + pi) = k * pe + k * pi /\ k * pe \in Nat /\ k * pi \in Nat
        BY <1>1, <3>1
      <4>2. MaxTotalCharge = NoLimit \/ MaxTotalCharge \in Nat
        BY ChargingAssumption
      <4>3. MaxTotalCharge = NoLimit \/ k * pe = 0 \/ total' + k * pe <= MaxTotalCharge
        BY <1>1, <2>4, <3>1, <4>1, <4>2 DEF Fits
      <4>4. (k * pe)' = k * pe
        BY <2>3, <2>5 DEF AfterItems, k, pe, e, PriceOf
      <4>5. QED
        BY <4>3, <4>4 DEF Fits
    <3>3. UNCHANGED op /\ pc'[t] \in {"charge", "log_items"}
      BY <2>3, <2>5 DEF AfterItems, ControlInv, TypeOK
    <3>4. QED
      BY <1>1, <2>5, <3>1, <3>2, <3>3 DEF PushInvOf, ReservationInv, PushChargesEveryItem,
         PushReportsOwnItems, ReturnedPush
  <2>6. CASE e = NoEvent
    <3>1. charge_count[ItemEvent] = op[t].before /\ charge_count[ItemEvent] \in Nat
      BY <1>1, <2>6 DEF PushInvOf, ReservationInv, ControlInv, TypeOK
    <3>2. CASE pc' = [pc EXCEPT ![t] = "log_items"] /\ UNCHANGED <<op, owner>>
      BY <1>1, <2>4, <2>6, <3>1, <3>2 DEF PushInvOf, ReservationInv, PushChargesEveryItem,
         PushReportsOwnItems, ReturnedPush, ControlInv, TypeOK
    <3>3. CASE Return(t, charge_count'[ItemEvent] - op[t].before)
      <4>1. charge_count'[ItemEvent] - op[t].before = k
        BY <1>1, <2>4, <3>1
      <4>2. /\ op' = [op EXCEPT ![t].outcome = "returned", ![t].charged = k]
            /\ pc'[t] = "idle"
        BY <3>3, <4>1 DEF Return, ControlInv, TypeOK
      <4>3. op'[t].charged = k /\ op'[t].items = k /\ op'[t].event = NoEvent
        BY <2>6, <4>2 DEF ControlInv, TypeOK, OpRecord
      <4>4. QED
        BY <4>2, <4>3 DEF PushInvOf, ReservationInv, PushChargesEveryItem, PushReportsOwnItems, ReturnedPush
    <3>4. QED
      BY <1>3, <2>3, <2>6, <3>2, <3>3 DEF AfterItems
  <2>7. QED
    BY <2>5, <2>6
<1>4. QED
  BY <1>2, <1>3

LEMMA ChargeUsesReservation ==
  ASSUME ControlInv, NEW t \in Tasks, Charge(t), PushInvOf(t)
  PROVE  PushInvOf(t)'
<1> SUFFICES ASSUME HasManager(t), op[t].call = "actor_push"
             PROVE  PushInvOf(t)'
  BY DEF Charge, Return, Raise, PushInvOf, ReservationInv, PushChargesEveryItem,
     PushReportsOwnItems, ReturnedPush, HasManager, ControlInv, TypeOK, OpRecord
<1> DEFINE e == op[t].event
           k == op[t].limit
<1>1. /\ e \in Events /\ e # NoEvent /\ total \in Nat /\ k \in Nat /\ PriceOf(e) \in Nat
      /\ pc[t] = "charge" /\ PayPerEvent
  BY PriceIsNat, ChargingAssumption, ChargeOutcomes DEF ControlInv, TypeOK, OpRecord, HasManager
<1>2. op[t].items = k /\ Fits(k * PriceOf(e))
  BY <1>1 DEF PushInvOf, ReservationInv
<1>3. Within(k, MaxEventChargeCountWithinLimit(e)) = k
  BY <1>1, <1>2, WithinOfWhatFits DEF MaxEventChargeCountWithinLimit
<1>4. \/ Raise(t) \/ Return(t, k)
      \/ /\ \E at \in {"api", "finish"} : pc' = [pc EXCEPT ![t] = at]
         /\ op' = [op EXCEPT ![t].charged = k]
  BY <1>1, <1>3 DEF Charge
<1>5. CASE Raise(t)
  BY <1>5 DEF Raise, PushInvOf, ReservationInv, PushChargesEveryItem, PushReportsOwnItems,
     ReturnedPush, ControlInv, TypeOK, OpRecord
<1>6. CASE Return(t, k)
  BY <1>1, <1>2, <1>6 DEF Return, PushInvOf, ReservationInv, PushChargesEveryItem, PushReportsOwnItems,
     ReturnedPush, ControlInv, TypeOK, OpRecord
<1>7. CASE /\ \E at \in {"api", "finish"} : pc' = [pc EXCEPT ![t] = at]
           /\ op' = [op EXCEPT ![t].charged = k]
  BY <1>1, <1>2, <1>7 DEF PushInvOf, ReservationInv, PushChargesEveryItem, PushReportsOwnItems,
     ReturnedPush, ControlInv, TypeOK, CallInv, OpRecord
<1>8. QED
  BY <1>4, <1>5, <1>6, <1>7

LEMMA OwnStepKeepsReservation ==
  ASSUME ControlInv, NEW t \in Tasks, Step(t), PushInvOf(t)
  PROVE  PushInvOf(t)'
<1> USE DEF PushInvOf, ReservationInv, PushChargesEveryItem, PushReportsOwnItems, ReturnedPush, HasManager
<1>1. CASE Call(t)
  <2> DEFINE Starts == \E call, e, d, n, at : /\ Start(t, call, e, d, n, at)
                                              /\ at \in {"charge", "reserve"}
                                              /\ call = "actor_push" => at = "reserve"
  <2>1. Starts
    <3>1. ASSUME NEW e \in Chargeable, NEW n \in Counts, Start(t, "charge", e, FALSE, n, "charge")
          PROVE  Starts
      <4>1. "charge" # "actor_push"
        OBVIOUS
      <4>2. QED
        BY <3>1, <4>1, Zenon
    <3>2. ASSUME NEW e \in ExplicitEvents \cup {NoEvent}, NEW n \in Counts,
                 Start(t, "actor_push", e, TRUE, n, "reserve")
          PROVE  Starts
      BY <3>2, Zenon
    <3>3. ASSUME NEW d \in BOOLEAN, NEW n \in Counts, Start(t, "dataset_push", NoEvent, d, n, "reserve")
          PROVE  Starts
      <4>1. "dataset_push" # "actor_push"
        OBVIOUS
      <4>2. QED
        BY <3>3, <4>1, Zenon
    <3>4. QED
      BY <1>1, <3>1, <3>2, <3>3 DEF Call, CallCharge, CallActorPush, CallDatasetPush
  <2>2. PICK call, e, d, n, at : /\ Start(t, call, e, d, n, at)
                                 /\ at \in {"charge", "reserve"}
                                 /\ call = "actor_push" => at = "reserve"
    BY <2>1
  <2>3. op'[t] = NewOp(call, e, d, n) /\ pc'[t] = at
    BY <2>2 DEF Start, ControlInv, TypeOK
  <2>4. QED
    BY <2>2, <2>3 DEF NewOp
<1>2. CASE StoreChunk(t)
  BY <1>2 DEF StoreChunk, ControlInv, TypeOK, CallInv, OpRecord, accountVars, Fits
<1>3. CASE ItemsLogged(t)
  BY <1>3 DEF ItemsLogged, AfterItems, Raise, Return, ControlInv, TypeOK, CallInv, OpRecord, accountVars, Fits
<1>4. CASE PlatformCharges(t)
  BY <1>4 DEF PlatformCharges, ControlInv, TypeOK, CallInv
<1>5. CASE ChargeAnswered(t)
  BY <1>5 DEF ChargeAnswered, Raise, Return, ControlInv, TypeOK, CallInv, OpRecord
<1>6. CASE Fail(t)
  BY <1>6 DEF Fail, PushFails, ChargeFails, Raise, ControlInv, TypeOK, OpRecord
<1>7. QED
  BY <1>1, <1>2, <1>3, <1>4, <1>5, <1>6, ReserveReserves, ChargeItemsUsesReservation, ChargeUsesReservation
     DEF Step, Progress

PushInv == ReservationInv /\ PushChargesEveryItem /\ PushReportsOwnItems

LEMMA PushStep == ControlInv /\ PushInv /\ [Next]_vars => PushInv'
<1> SUFFICES ASSUME ControlInv, PushInv, [Next]_vars, NEW u \in Tasks
             PROVE  PushInvOf(u)'
  BY DEF PushInv, PushInvOf, ReservationInv, PushChargesEveryItem, PushReportsOwnItems
<1>1. PushInvOf(u)
  BY DEF PushInv, PushInvOf, ReservationInv, PushChargesEveryItem, PushReportsOwnItems
<1>2. ASSUME NEW t \in Tasks, Step(t)
      PROVE  PushInvOf(u)'
  BY <1>1, <1>2, OthersKeepReservations, OwnStepKeepsReservation
<1>3. CASE Enter
  <2>1. pc[u] = "idle" /\ UNCHANGED <<pc, op>>
    BY <1>3 DEF Enter, ControlInv, CallInv
  <2>2. QED
    BY <1>1, <2>1 DEF PushInvOf, ReservationInv, PushChargesEveryItem, PushReportsOwnItems,
       ReturnedPush, HasManager
<1>4. CASE Exit \/ UNCHANGED vars
  BY <1>1, <1>4 DEF Exit, vars, accountVars, PushInvOf, ReservationInv, PushChargesEveryItem,
     PushReportsOwnItems, ReturnedPush, HasManager, Fits
<1>5. QED
  BY <1>2, <1>3, <1>4 DEF Next

LEMMA PushAlways == Spec => []PushInv
<1>1. Init => PushInv
  BY DEF Init, PushInv, ReservationInv, PushChargesEveryItem, PushReportsOwnItems, ReturnedPush, NoOp
<1>2. QED
  BY <1>1, PushStep, ControlAlways, PTL DEF Spec

(* A push that names an event and returns has stored and charged exactly    *)
(* the items it reserved, whatever other tasks did meanwhile.               *)
THEOREM PushIsChargedInFull == Spec => []PushChargesEveryItem
<1>1. PushInv => PushChargesEveryItem
  BY DEF PushInv
<1>2. QED
  BY <1>1, PushAlways, PTL

(* A push without an event that returns reports the synthetic events of its *)
(* own items only.                                                          *)
THEOREM PushReportIsItsOwn == Spec => []PushReportsOwnItems
<1>1. PushInv => PushReportsOwnItems
  BY DEF PushInv
<1>2. QED
  BY <1>1, PushAlways, PTL

-----------------------------------------------------------------------------
(* The account of stored items.  Only the owner of the lock is between its  *)
(* reservation and the charge for it, and what it reserved is charged in    *)
(* full.                                                                    *)

LEMMA OthersUnmoved ==
  ASSUME ControlInv, NEW t \in Tasks, Step(t)
  PROVE  \A u \in Tasks \ {t} : pc'[u] = pc[u] /\ op'[u] = op[u]
BY DEF ControlInv, TypeOK, Step, Call, CallCharge, CallActorPush, CallDatasetPush, Start, Reserve,
   Progress, StoreChunk, ChargeItems, ItemsLogged, PlatformCharges, ChargeAnswered, Charge,
   Fail, PushFails, ChargeFails, AfterItems, Raise, Return

(* What each step does to the lock: a task that is not in its section takes *)
(* it when free, one that is keeps it or releases it.                       *)
LEMMA LockMoves ==
  ASSUME ControlInv, NEW t \in Tasks, Step(t)
  PROVE  /\ owner' \in {owner, t, NoTask}
         /\ owner \notin {t, NoTask} => owner' = owner
<1>1. owner' = owner \/ ReleaseIfOwner(t) \/ (owner' = t /\ CanEnterLock(t))
  BY DEF Step, Call, CallCharge, CallActorPush, CallDatasetPush, Start, Reserve, Progress, StoreChunk,
     ChargeItems, ItemsLogged, PlatformCharges, ChargeAnswered, Charge, Fail, PushFails, ChargeFails,
     AfterItems, Raise, Return
<1>2. QED
  BY <1>1 DEF ReleaseIfOwner, CanEnterLock

LEMMA PushersOwn ==
  ASSUME ControlInv, ChargesFollowItems, NEW t \in Tasks,
         pc[t] \in {"push", "log_items", "api", "finish"}
  PROVE  owner = t /\ owner # NoTask
BY ChargingAssumption DEF ControlInv, LockInv, InLockedSection, ChargesFollowItems, HasManager

LEMMA NoPushNoUnsettled ==
  ASSUME ControlInv, NEW t \in Tasks, Step(t), pc[t] # "push", pc'[t] # "push"
  PROVE  Unsettled' = Unsettled
<1>1. owner \in Tasks \cup {NoTask} /\ NoTask \notin Tasks
  BY ChargingAssumption DEF ControlInv, TypeOK
<1>2. CASE owner \in {t, NoTask}
  BY <1>1, <1>2, LockMoves DEF Unsettled
<1>3. CASE owner \notin {t, NoTask}
  <2>1. owner' = owner /\ owner \in Tasks \ {t}
    BY <1>1, <1>3, LockMoves
  <2>2. QED
    BY <2>1, OthersUnmoved DEF Unsettled
<1>4. QED
  BY <1>2, <1>3

(* The call a task is in, and whether it has something in the air, across   *)
(* the end of its push.                                                     *)
LEMMA AfterPush ==
  ASSUME ControlInv, NEW t \in Tasks, ChargeItems(t) \/ ItemsLogged(t)
  PROVE  /\ pc'[t] \in {"idle", "charge", "log_items"} /\ op'[t].event = op[t].event
         /\ op[t].event # ItemEvent
<1>1. pc'[t] \in {"idle", "charge", "log_items"} /\ op'[t].event = op[t].event
  BY DEF ControlInv, TypeOK, OpRecord, ChargeItems, ItemsLogged, AfterItems, Raise, Return
<1>2. op[t].call \in {"actor_push", "dataset_push"}
  BY DEF ControlInv, TypeOK, OpRecord, Calls, CallInv, ChargeItems, ItemsLogged
<1>3. op[t].event # ItemEvent
  BY <1>2, ChargingAssumption DEF ControlInv, CallInv, Events
<1>4. QED
  BY <1>1, <1>3

ItemFits(t) == ItemsFit!(t)

LEMMA OthersItemsFit ==
  ASSUME ControlInv, ChargesFollowItems, NEW t \in Tasks, NEW u \in Tasks, t # u, Step(t), ItemFits(u)
  PROVE  ItemFits(u)'
<1>1. pc'[u] = pc[u] /\ op'[u] = op[u]
  BY OthersUnmoved
<1>2. CASE UNCHANGED accountVars
  BY <1>1, <1>2 DEF ItemFits, ItemsFit, Fits, accountVars, PriceOf
<1>3. CASE ~UNCHANGED accountVars
  <2>1. AccountsFor(t)
    BY <1>3, AccountedByTask
  <2>2. pc[u] # "push"
    BY <2>1, PushersOwn DEF AccountsFor, CanEnterLock
  <2>3. QED
    BY <1>1, <2>2 DEF ItemFits, ItemsFit
<1>4. QED
  BY <1>2, <1>3

LEMMA OwnItemsFit ==
  ASSUME ControlInv, ChargesFollowItems, NEW t \in Tasks, Step(t), ItemFits(t)
  PROVE  ItemFits(t)'
<1>1. CASE Call(t)
  <2>1. PICK e, at : /\ op'[t].event = e /\ pc'[t] = at
                     /\ at = "reserve" \/ (at = "charge" /\ e \in Chargeable)
    BY <1>1 DEF Call, CallCharge, CallActorPush, CallDatasetPush, Start, NewOp, ControlInv, TypeOK
  <2>2. QED
    BY <2>1 DEF ItemFits, ItemsFit, ChargesFollowItems
<1>2. CASE Reserve(t)
  <2> DEFINE n == ExplicitLimit(t)
             m == ItemLimit(t, n)
             pi == PriceOf(ItemEvent)
  <2>1. n \in Nat /\ m \in Nat /\ total \in Nat /\ pi \in Nat
    BY LimitsAreNat, PriceIsNat DEF ControlInv, TypeOK, Events
  <2>2. CASE Raise(t)
    BY <2>2 DEF Raise, ItemFits, ItemsFit, ControlInv, TypeOK
  <2>3. CASE ~Raise(t)
    <3>1. /\ pc' = [pc EXCEPT ![t] = "push"] /\ UNCHANGED <<charge_count, total>>
          /\ op' = [op EXCEPT ![t].limit = n, ![t].items = m, ![t].left = m,
                              ![t].before = charge_count[ItemEvent]]
      BY <1>2, <2>3 DEF Reserve, accountVars
    <3>2. op[t].default => Fits(m * pi)
      <4>1. op[t].default => m = Within(n, Affordable(pi))
        BY DEF ItemLimit, MaxEventChargeCountWithinLimit, ChargesFollowItems, HasManager
      <4> HIDE DEF n, pi
      <4>2. Fits(Within(n, Affordable(pi)) * pi)
        BY <2>1, WithinIsPaidFor
      <4>3. QED
        BY <4>1, <4>2
    <3> HIDE DEF n, m
    <3>3. /\ pc'[t] = "push" /\ op'[t].items = m /\ op'[t].left = m /\ op'[t].default = op[t].default
      BY <3>1 DEF ControlInv, TypeOK, OpRecord
    <3>4. op[t].default => MaxTotalCharge = NoLimit \/ m * pi = 0 \/ total + m * pi <= MaxTotalCharge
      BY <3>2 DEF Fits
    <3>5. QED
      BY <2>1, <3>1, <3>3, <3>4 DEF ItemFits, ItemsFit, Fits
  <2>4. QED
    BY <2>2, <2>3
<1>3. CASE StoreChunk(t)
  <2>1. PICK k \in 1..op[t].left : op' = [op EXCEPT ![t].left = @ - k]
    BY <1>3 DEF StoreChunk
  <2>2. /\ op'[t].left = op[t].left - k /\ op'[t].items = op[t].items /\ op'[t].default = op[t].default
        /\ pc'[t] = "push" /\ pc[t] = "push" /\ UNCHANGED <<charge_count, total>>
        /\ op[t].left \in Nat /\ op[t].items \in Nat
    BY <1>3, <2>1 DEF StoreChunk, ControlInv, TypeOK, OpRecord, accountVars
  <2>3. QED
    BY <2>2 DEF ItemFits, ItemsFit, Fits
<1>4. CASE ChargeItems(t) \/ ItemsLogged(t)
  BY <1>4, AfterPush DEF ItemFits, ItemsFit
<1>5. CASE PlatformCharges(t) \/ ChargeAnswered(t) \/ Fail(t)
  BY <1>5 DEF PlatformCharges, ChargeAnswered, Fail, PushFails, ChargeFails, Raise, Return,
     ItemFits, ItemsFit, ControlInv, TypeOK
<1>6. CASE Charge(t)
  BY <1>6, ChargeOutcomes DEF Raise, Return, ItemFits, ItemsFit, ControlInv, TypeOK
<1>7. QED
  BY <1>1, <1>2, <1>3, <1>4, <1>5, <1>6 DEF Step, Progress

Settled == charge_count[ItemEvent] - ChargedEventCounts[ItemEvent] + Unsettled

(* Accounted for and sent but not accounted for are together what is        *)
(* stored.                                                                  *)
AccountFits ==
  phase = "entered" => Settled <= stored /\ (failures = 0 => Settled = stored)

LEMMA UnsettledIsNat ==
  ASSUME ControlInv, ItemsFit
  PROVE  Unsettled \in Nat
<1>1. CASE owner # NoTask /\ pc[owner] = "push" /\ op[owner].default
  <2>1. owner \in Tasks
    BY <1>1 DEF ControlInv, TypeOK
  <2>2. op[owner].items \in Nat /\ op[owner].left \in Nat /\ op[owner].left <= op[owner].items
    BY <1>1, <2>1 DEF ControlInv, TypeOK, OpRecord, ItemsFit
  <2>3. QED
    BY <1>1, <2>2 DEF Unsettled
<1>2. QED
  BY <1>1 DEF Unsettled

LEMMA AccountStaysFit ==
  ASSUME AccountFits, phase' = phase, failures' = failures, stored' = stored,
         charge_count'[ItemEvent] = charge_count[ItemEvent], Unsettled' = Unsettled
  PROVE  AccountFits'
BY DEF AccountFits, Settled

LEMMA AccountFitsByTask ==
  ASSUME ControlInv, ChargesFollowItems, ItemsFit, AccountFits, NEW t \in Tasks, Step(t)
  PROVE  AccountFits'
<1> DEFINE n == op[t].items
           l == op[t].left
<1>1. /\ n \in Nat /\ l \in Nat /\ stored \in Nat /\ op[t].default \in BOOLEAN /\ failures \in Nat
      /\ charge_count[ItemEvent] \in Nat /\ ChargedEventCounts[ItemEvent] \in Nat
      /\ ItemEvent \in Events /\ Unsettled \in Nat
      /\ pc[t] = "push" => l <= n
  BY UnsettledIsNat, ChargingAssumption DEF ControlInv, TypeOK, OpRecord, Events, ItemsFit
<1>2. CASE Call(t)
  <2>1. /\ pc[t] # "push" /\ pc'[t] # "push"
        /\ UNCHANGED <<phase, failures, stored, charge_count>>
    BY <1>2 DEF Call, CallCharge, CallActorPush, CallDatasetPush, Start, ControlInv, TypeOK,
       accountVars, platformVars
  <2>2. QED
    BY <2>1, NoPushNoUnsettled, AccountStaysFit
<1>3. CASE Reserve(t)
  <2>1. pc[t] = "reserve" /\ UNCHANGED <<phase, failures, stored, charge_count>>
    BY <1>3 DEF Reserve, accountVars, platformVars
  <2>2. CASE Raise(t)
    <3>1. pc'[t] # "push"
      BY <2>2 DEF Raise, ControlInv, TypeOK
    <3>2. QED
      BY <2>1, <3>1, NoPushNoUnsettled, AccountStaysFit
  <2>3. CASE ~Raise(t)
    <3>1. owner \in {NoTask, t} /\ owner' = t /\ t # NoTask
      BY <1>3, <2>3, ChargingAssumption DEF Reserve, CanEnterLock, ChargesFollowItems, HasManager
    <3>2. Unsettled = 0
      BY <2>1, <3>1 DEF Unsettled
    <3>3. \E m : pc'[t] = "push" /\ op'[t].items = m /\ op'[t].left = m /\ m \in Nat
      <4> DEFINE m == ItemLimit(t, ExplicitLimit(t))
      <4>1. m \in Nat
        BY LimitsAreNat DEF ControlInv
      <4> HIDE DEF m
      <4>2. pc'[t] = "push" /\ op'[t].items = m /\ op'[t].left = m
        BY <1>3, <2>3 DEF Reserve, ControlInv, TypeOK, OpRecord, m
      <4>3. QED
        BY <4>1, <4>2
    <3>4. Unsettled' = 0
      BY <3>1, <3>3 DEF Unsettled
    <3>5. QED
      BY <2>1, <3>2, <3>4, AccountStaysFit
  <2>4. QED
    BY <2>2, <2>3
<1>4. CASE StoreChunk(t)
  <2>1. PICK k \in 1..l : /\ op' = [op EXCEPT ![t].left = @ - k]
                          /\ stored' = IF op[t].default THEN stored + k ELSE stored
    BY <1>4 DEF StoreChunk
  <2>2. /\ pc[t] = "push" /\ pc' = pc /\ owner' = owner
        /\ UNCHANGED <<phase, failures, charge_count>>
    BY <1>4 DEF StoreChunk, accountVars
  <2>3. owner = t /\ owner # NoTask
    BY <2>2, PushersOwn
  <2>4. op'[t].left = l - k /\ op'[t].items = n /\ op'[t].default = op[t].default
    BY <2>1 DEF ControlInv, TypeOK, OpRecord
  <2>5. Unsettled = IF op[t].default THEN n - l ELSE 0
    BY <2>2, <2>3 DEF Unsettled
  <2>6. Unsettled' = IF op[t].default THEN n - (l - k) ELSE 0
    BY <2>2, <2>3, <2>4 DEF Unsettled
  <2> HIDE DEF n, l
  <2>7. QED
    BY <1>1, <2>1, <2>2, <2>5, <2>6 DEF AccountFits, Settled
<1>5. CASE ChargeItems(t)
  <2>1. pc[t] = "push" /\ l = 0 /\ UNCHANGED <<phase, failures, stored>>
    BY <1>5 DEF ChargeItems, platformVars
  <2>2. owner = t /\ owner # NoTask
    BY <2>1, PushersOwn
  <2>3. Unsettled = IF op[t].default THEN n ELSE 0
    BY <1>1, <2>1, <2>2 DEF Unsettled
  <2>4. Unsettled' = 0
    <3>1. owner' \in {t, NoTask} /\ pc'[t] # "push"
      BY <1>5, <2>2, LockMoves, AfterPush
    <3>2. QED
      BY <3>1 DEF Unsettled
  <2>5. phase = "entered" => charge_count'[ItemEvent] = charge_count[ItemEvent] + (IF op[t].default THEN n ELSE 0)
    <3>1. CASE ~op[t].default
      BY <1>1, <1>5, <3>1 DEF ChargeItems, accountVars
    <3>2. CASE op[t].default /\ phase = "entered"
      <4>1. Fits(n * PriceOf(ItemEvent)) /\ PriceOf(ItemEvent) \in Nat /\ total \in Nat
        BY <1>1, <2>1, <3>2, PriceIsNat DEF ItemsFit, ControlInv, TypeOK
      <4>2. Within(n, MaxEventChargeCountWithinLimit(ItemEvent)) = n
        BY <1>1, <4>1, WithinOfWhatFits DEF MaxEventChargeCountWithinLimit
      <4>3. active /\ HasManager(t)
        BY <3>2 DEF ControlInv, LifeInv, ChargesFollowItems, HasManager
      <4>4. Account(ItemEvent, n)
        BY <1>5, <3>2, <4>2, <4>3 DEF ChargeItems
      <4>5. QED
        BY <1>1, <3>2, <4>4 DEF Account, ControlInv, TypeOK
    <3>3. QED
      BY <3>1, <3>2
  <2> HIDE DEF n, l
  <2>6. QED
    BY <1>1, <2>1, <2>3, <2>4, <2>5 DEF AccountFits, Settled
<1>6. CASE ItemsLogged(t) \/ PlatformCharges(t) \/ ChargeAnswered(t)
  <2>1. /\ pc[t] # "push" /\ pc'[t] # "push"
        /\ UNCHANGED <<phase, failures, stored, charge_count>>
    BY <1>6, AfterPush DEF ItemsLogged, PlatformCharges, ChargeAnswered, Raise, Return, ControlInv, TypeOK,
       accountVars, platformVars
  <2>2. QED
    BY <2>1, NoPushNoUnsettled, AccountStaysFit
<1>7. CASE Charge(t)
  <2>1. pc[t] = "charge" /\ op[t].event \in Events /\ op[t].event # ItemEvent
        /\ UNCHANGED <<phase, failures, stored>>
    BY <1>7, ChargeOutcomes DEF ItemsFit, platformVars
  <2>2. pc'[t] # "push"
    BY <1>7, ChargeOutcomes DEF Raise, Return, ControlInv, TypeOK
  <2>3. charge_count'[ItemEvent] = charge_count[ItemEvent]
    BY <1>1, <1>7, <2>1, ChargeOutcomes DEF Account, ControlInv, TypeOK, accountVars
  <2>4. QED
    BY <2>1, <2>2, <2>3, NoPushNoUnsettled, AccountStaysFit
<1>8. CASE Fail(t)
  <2>1. /\ failures' = failures + 1 /\ Raise(t) /\ pc[t] \in {"push", "api", "finish", "log_items"}
        /\ UNCHANGED <<phase, stored, charge_count>>
    BY <1>8 DEF Fail, PushFails, ChargeFails, accountVars, platformVars
  <2>2. owner = t
    BY <2>1, PushersOwn
  <2>3. owner' = NoTask /\ Unsettled' = 0
    BY <2>1, <2>2 DEF Raise, ReleaseIfOwner, Unsettled
  <2>4. QED
    BY <1>1, <2>1, <2>3 DEF AccountFits, Settled
<1>9. QED
  BY <1>2, <1>3, <1>4, <1>5, <1>6, <1>7, <1>8 DEF Step, Progress

LEMMA ItemAccountStep ==
  ASSUME ControlInv, ItemAccountInv, [Next]_vars
  PROVE  ItemAccountInv'
<1> SUFFICES ASSUME ChargesFollowItems
             PROVE  ItemAccountInv'
  BY DEF ItemAccountInv, ChargesFollowItems
<1>1. ItemsFit /\ AccountFits /\ (phase = "new" => stored = 0)
  BY DEF ItemAccountInv, AccountFits, Settled
<1>2. SUFFICES ItemsFit' /\ AccountFits' /\ (phase' = "new" => stored' = 0)
  BY DEF ItemAccountInv, AccountFits, Settled
<1>3. ASSUME NEW t \in Tasks, Step(t)
      PROVE  ItemsFit' /\ AccountFits' /\ (phase' = "new" => stored' = 0)
  <2>1. ASSUME NEW u \in Tasks
        PROVE  ItemFits(u)'
    <3>1. ItemFits(u)
      BY <1>1 DEF ItemsFit, ItemFits
    <3>2. QED
      BY <1>3, <3>1, OthersItemsFit, OwnItemsFit
  <2>2. ItemsFit'
    BY <2>1 DEF ItemsFit, ItemFits
  <2>3. phase # "new" /\ phase' = phase
    BY <1>3 DEF ControlInv, CallInv, TypeOK, Step, Call, CallCharge, CallActorPush, CallDatasetPush, Start,
       Reserve, Progress, StoreChunk, ChargeItems, ItemsLogged, PlatformCharges, ChargeAnswered, Charge,
       Fail, PushFails, ChargeFails
  <2>4. AccountFits'
    BY <1>1, <1>3, AccountFitsByTask
  <2>5. QED
    BY <2>2, <2>3, <2>4
<1>4. CASE Enter
  <2>1. \A t \in Tasks : pc[t] = "idle"
    BY <1>4 DEF Enter, ControlInv, CallInv
  <2>2. ItemsFit'
    BY <1>4, <2>1 DEF Enter, ItemsFit
  <2>3. Unsettled' = 0
    BY <1>4, <2>1 DEF Enter, Unsettled, ControlInv, TypeOK
  <2>4. phase' = "entered" => charge_count'[ItemEvent] = ChargedEventCounts[ItemEvent] /\ stored' = 0
    BY <1>1, <1>4 DEF Enter, platformVars
  <2>5. ChargedEventCounts[ItemEvent] \in Nat
    BY ChargingAssumption DEF Events
  <2>6. QED
    BY <1>4, <2>2, <2>3, <2>4, <2>5 DEF Enter, AccountFits, Settled
<1>5. CASE Exit
  BY <1>1, <1>5 DEF Exit, ItemsFit, Fits, AccountFits, accountVars
<1>6. CASE UNCHANGED vars
  BY <1>1, <1>6 DEF vars, ItemsFit, Fits, AccountFits, Settled, Unsettled
<1>7. QED
  BY <1>3, <1>4, <1>5, <1>6 DEF Next

(* The process accounts for no more items than the platform stored, and     *)
(* while nothing has failed, for all of them whenever nobody is pushing,    *)
(* however many tasks push to the default and to other datasets at once.    *)
THEOREM ItemsAreAccountedFor == Spec => []ItemAccountMatchesDataset
<1>1. Init => ItemAccountInv
  BY DEF Init, ItemAccountInv, ItemsFit
<1>2. ControlInv /\ ItemAccountInv => ItemAccountMatchesDataset
  <2> SUFFICES ASSUME ControlInv, ItemAccountInv, phase = "entered", ChargesFollowItems
               PROVE  LET accounted == charge_count[ItemEvent] - ChargedEventCounts[ItemEvent]
                      IN  /\ accounted <= stored
                          /\ failures = 0 /\ owner = NoTask => accounted = stored
    BY DEF ItemAccountMatchesDataset
  <2>1. ItemsFit /\ AccountFits
    BY DEF ItemAccountInv, AccountFits, Settled
  <2>2. /\ charge_count[ItemEvent] \in Nat /\ ChargedEventCounts[ItemEvent] \in Nat
        /\ stored \in Nat /\ Unsettled \in Nat
    BY <2>1, UnsettledIsNat, ChargingAssumption DEF ControlInv, TypeOK, Events
  <2>3. owner = NoTask => Unsettled = 0
    BY DEF Unsettled
  <2>4. QED
    BY <2>1, <2>2, <2>3 DEF AccountFits, Settled
<1>3. QED
  BY <1>1, <1>2, ItemAccountStep, ControlAlways, PTL DEF Spec
=============================================================================
