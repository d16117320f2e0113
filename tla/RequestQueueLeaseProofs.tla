---------------------- MODULE RequestQueueLeaseProofs ----------------------
(* The shared request queue clients implement the abstract work queue, for  *)
(* any clients, requests and lock times, whatever fails or lags: provided   *)
(* calls are fast, each client serves one task, and no head has a request   *)
(* its client processes, as is so when nobody reclaims to the forefront.    *)
(* The invariant is about leases: what a client believes of its lock on a   *)
(* request is never more than the platform has.                             *)
EXTENDS RequestQueueSharedProofs

USE SharedAssumption DEF Status

-----------------------------------------------------------------------------
(* The platform has r locked for c, for k at least, and pending.            *)

Firm(P, L, c, r, k) ==
  r \in Requests /\ P[r] = "pending" /\ L[r].owner = c /\ L[r].left >= k

Lies(s) == {s[i] : i \in DOMAIN s}

(* What a client may yet hand out: its head, and the leftovers of the head  *)
(* it is listing anew.                                                      *)
Waits(l, at, o) == Lies(l.head) \cup IF at = "list_and_lock_head" THEN Lies(o.rest) ELSE {}

WaitsLeased(c, l, S, P, L) ==
  \A r \in S : l.cache[r].left > 0 => Firm(P, L, c, r, l.cache[r].left)

HandLeased(c, h, k, P, L) == h # NoRequest => k > 0 /\ Firm(P, L, c, h, k)

(* The calls that have, or have just been told of, a lock they rely on.     *)
CallLeased(c, l, at, o, h, k, P, L) ==
  /\ at = "update_request" => h = NoRequest
  /\ at = "update_request" /\ ~o.answered =>
       k > 0 /\ Firm(P, L, c, o.request, k) /\ o.request \notin Lies(l.head)
  /\ at \in {"hydrate", "refetch"} => Firm(P, L, c, o.request, HandoffTime)
  /\ at = "prolong_request_lock" /\ o.answered /\ o.left[o.request] # NoLease =>
       o.left[o.request] = LockTime /\ Firm(P, L, c, o.request, LockTime)
  /\ at = "list_and_lock_head" /\ o.answered =>
       \A r \in Requests : o.left[r] # NoLease =>
         o.left[r] = LockTime /\ Firm(P, L, c, r, LockTime)

Leased(c, l, at, o, h, k, P, L) ==
  /\ WaitsLeased(c, l, Waits(l, at, o), P, L)
  /\ HandLeased(c, h, k, P, L)
  /\ CallLeased(c, l, at, o, h, k, P, L)

LocksInv == lock \in [Requests -> [owner : Clients \cup {NoClient}, left : Nat]]
TermsInv == term \in [Tasks -> Nat]

IsLeased(t) == Leased(ClientOf[t], My(t), pc[t], op[t], holds[t], term[t], platform, lock)

LeaseInv == LocksInv /\ TermsInv /\ \A t \in Tasks : IsLeased(t)

(* What a step of another client's task leaves a client.                    *)
Keeps(c) == \A r, k : Firm(platform, lock, c, r, k) => Firm(platform', lock', c, r, k)

LEMMA LeasedStays ==
  ASSUME NEW c, NEW l, NEW at, NEW o, NEW h, NEW k, Keeps(c),
         Leased(c, l, at, o, h, k, platform, lock)
  PROVE  Leased(c, l, at, o, h, k, platform', lock')
<1> HIDE DEF Firm
<1>1. WaitsLeased(c, l, Waits(l, at, o), platform', lock')
  BY DEF Leased, WaitsLeased, Keeps
<1>2. HandLeased(c, h, k, platform', lock')
  BY DEF Leased, HandLeased, Keeps
<1>3. CallLeased(c, l, at, o, h, k, platform', lock')
  BY DEF Leased, CallLeased, Keeps
<1>4. QED
  BY <1>1, <1>2, <1>3 DEF Leased

(* A step of t, alone at its client.                                        *)
LEMMA LeaseStep ==
  ASSUME IInv, LeaseInv, OneTaskEach, NEW t \in Tasks, NEW l, NEW at, NEW o,
         Becomes(t, l), Awaits(t, at, o), LocksInv', TermsInv',
         \A u \in Tasks \ {t} : holds'[u] = holds[u] /\ term'[u] = term[u],
         \A c \in Clients \ {ClientOf[t]} : Keeps(c),
         Leased(ClientOf[t], l, at, o, holds'[t], term'[t], platform', lock')
  PROVE  LeaseInv'
<1>1. /\ pc'[t] = at /\ op'[t] = o
      /\ \A u \in Tasks \ {t} : pc'[u] = pc[u] /\ op'[u] = op[u]
  BY OthersStay
<1>2. ASSUME NEW u \in Tasks
      PROVE  IsLeased(u)'
  <2>1. CASE u = t
    <3>1. My(t)' = l
      BY DEF Becomes, My, IInv, ClientsInv
    <3>2. QED
      BY <1>1, <2>1, <3>1 DEF IsLeased
  <2>2. CASE u # t
    <3>1. ClientOf[u] # ClientOf[t] /\ ClientOf[u] \in Clients
      BY <2>2 DEF OneTaskEach, SameClient
    <3>2. My(u)' = My(u)
      BY <3>1 DEF Becomes, My, IInv, ClientsInv
    <3>3. Keeps(ClientOf[u]) /\ IsLeased(u)
      BY <3>1 DEF LeaseInv
    <3>4. Leased(ClientOf[u], My(u), pc[u], op[u], holds[u], term[u], platform', lock')
      BY <3>3, LeasedStays DEF IsLeased
    <3>5. /\ pc'[u] = pc[u] /\ op'[u] = op[u]
          /\ holds'[u] = holds[u] /\ term'[u] = term[u]
      BY <1>1, <2>2
    <3>6. QED
      BY <3>2, <3>4, <3>5 DEF IsLeased
  <2>3. QED
    BY <2>1, <2>2
<1>3. QED
  BY <1>2 DEF LeaseInv

LEMMA AllKept ==
  ASSUME UNCHANGED <<platform, lock>>
  PROVE  \A c : Keeps(c)
BY DEF Keeps

LEMMA LocksStay ==
  ASSUME LeaseInv, UNCHANGED lock
  PROVE  LocksInv'
BY DEF LeaseInv, LocksInv

(* The step is one of t's, and it keeps to the leases.                      *)
Moved(t) ==
  \E l, at, o : Becomes(t, l) /\ Awaits(t, at, o)
              /\ Leased(ClientOf[t], l, at, o, holds'[t], term'[t], platform', lock')

LEMMA MovedStep ==
  ASSUME IInv, LeaseInv, OneTaskEach, NEW t \in Tasks, Moved(t),
         UNCHANGED <<platform, lock>>, TermsInv',
         \A u \in Tasks \ {t} : holds'[u] = holds[u] /\ term'[u] = term[u]
  PROVE  LeaseInv'
BY AllKept, LocksStay, LeaseStep DEF Moved

-----------------------------------------------------------------------------
(* Steps that take nothing and lose nothing but heads.                      *)

Plain(at, o) ==
  /\ at \notin {"list_and_lock_head", "update_request", "hydrate", "refetch"}
  /\ at = "prolong_request_lock" => ~o.answered

LEMMA PlainLeased ==
  ASSUME NEW c, NEW l, NEW S, NEW at, NEW o, NEW h, NEW k, NEW P, NEW L,
         WaitsLeased(c, l, S, P, L), Lies(l.head) \subseteq S, Plain(at, o),
         HandLeased(c, h, k, P, L)
  PROVE  Leased(c, l, at, o, h, k, P, L)
<1>1. Waits(l, at, o) = Lies(l.head)
  BY DEF Waits, Plain
<1>2. WaitsLeased(c, l, Waits(l, at, o), P, L)
  BY <1>1 DEF WaitsLeased
<1>3. CallLeased(c, l, at, o, h, k, P, L)
  BY DEF CallLeased, Plain
<1>4. QED
  BY <1>2, <1>3 DEF Leased

LEMMA ReturnLeased ==
  ASSUME NEW c, NEW l, NEW S, NEW o, NEW h, NEW k, NEW P, NEW L,
         WaitsLeased(c, l, S, P, L), Lies(l.head) \subseteq S, HandLeased(c, h, k, P, L)
  PROVE  Leased(c, l, "idle", o, h, k, P, L)
BY PlainLeased DEF Plain

(* The client has no more to hand out, and believes no more of its leases.  *)
LEMMA WaitsShrink ==
  ASSUME NEW c, NEW l, NEW v, NEW S, NEW T, NEW P, NEW L,
         WaitsLeased(c, l, S, P, L), T \subseteq S,
         \A r \in T : v.cache[r].left > 0 => v.cache[r].left = l.cache[r].left
  PROVE  WaitsLeased(c, v, T, P, L)
BY DEF WaitsLeased

LEMMA HeadWaits ==
  ASSUME LeaseInv, NEW t \in Tasks
  PROVE  /\ WaitsLeased(ClientOf[t], My(t), Lies(My(t).head), platform, lock)
         /\ HandLeased(ClientOf[t], holds[t], term[t], platform, lock)
         /\ CallLeased(ClientOf[t], My(t), pc[t], op[t], holds[t], term[t], platform, lock)
BY DEF LeaseInv, IsLeased, Leased, WaitsLeased, Waits

(* A step that returns or suspends plainly, with the cache as it was.       *)
LEMMA MovesPlainly ==
  ASSUME IInv, LeaseInv, NEW t \in Tasks, NEW l, NEW at, NEW o,
         Becomes(t, l), Awaits(t, at, o), UNCHANGED <<platform, lock>>, Plain(at, o),
         Lies(l.head) \subseteq Lies(My(t).head),
         \A r \in Lies(l.head) : l.cache[r].left > 0 => l.cache[r].left = My(t).cache[r].left,
         \/ holds'[t] = holds[t] /\ term'[t] = term[t]
         \/ holds'[t] = NoRequest
  PROVE  Moved(t)
<1>1. HandLeased(ClientOf[t], holds'[t], term'[t], platform, lock)
  BY HeadWaits DEF HandLeased
<1>2. WaitsLeased(ClientOf[t], l, Lies(l.head), platform, lock)
  BY HeadWaits, WaitsShrink
<1>3. Leased(ClientOf[t], l, at, o, holds'[t], term'[t], platform, lock)
  BY <1>1, <1>2, PlainLeased
<1>4. QED
  BY <1>3 DEF Moved

-----------------------------------------------------------------------------
(* fetch_next_request.                                                      *)

LEMMA DiscardParts ==
  ASSUME NEW l \in ClientRecord, NEW r
  PROVE  Discard(l, r).head = l.head /\ Discard(l, r).cache = l.cache
BY DEF Discard, ClientRecord

LEMMA DiscardReturns ==
  ASSUME IInv, LeaseInv, NEW t \in Tasks, NEW l \in ClientRecord, NEW r,
         Becomes(t, Discard(l, r)), Returns(t), UNCHANGED <<platform, lock, holds, term>>,
         WaitsLeased(ClientOf[t], l, Lies(l.head), platform, lock)
  PROVE  Moved(t)
<1> DEFINE v == Discard(l, r)
<1>1. v.head = l.head /\ v.cache = l.cache
  BY DiscardParts
<1> HIDE DEF v
<1>2. WaitsLeased(ClientOf[t], v, Lies(v.head), platform, lock)
  BY <1>1 DEF WaitsLeased
<1>3. Leased(ClientOf[t], v, "idle", NoOp, holds[t], term[t], platform, lock)
  BY <1>2, HeadWaits, ReturnLeased
<1>4. QED
  BY <1>3 DEF Moved, Returns, v

(* A lookup relies on the lease of the request for as long as it takes.     *)
LEMMA ReadLeased ==
  ASSUME NEW t \in Tasks, NEW l, NEW at \in {"hydrate", "refetch"}, NEW o, NEW r,
         Becomes(t, l), Awaits(t, at, o), UNCHANGED <<platform, lock, holds, term>>,
         o.request = r, holds[t] = NoRequest,
         Firm(platform, lock, ClientOf[t], r, HandoffTime),
         WaitsLeased(ClientOf[t], l, Lies(l.head), platform, lock)
  PROVE  Moved(t)
<1>1. Waits(l, at, o) = Lies(l.head)
  BY DEF Waits
<1>2. CallLeased(ClientOf[t], l, at, o, holds[t], term[t], platform, lock)
  BY DEF CallLeased
<1>3. HandLeased(ClientOf[t], holds[t], term[t], platform, lock)
  BY DEF HandLeased
<1>4. Leased(ClientOf[t], l, at, o, holds[t], term[t], platform, lock)
  BY <1>1, <1>2, <1>3 DEF Leased
<1>5. QED
  BY <1>4 DEF Moved

LEMMA LookUpMoves ==
  ASSUME IInv, LeaseInv, NEW t \in Tasks, NEW r \in Requests, NEW l \in ClientRecord,
         LookUp(t, r, l), UNCHANGED <<platform, lock, holds, term>>, holds[t] = NoRequest,
         Firm(platform, lock, ClientOf[t], r, HandoffTime),
         WaitsLeased(ClientOf[t], l, Lies(l.head), platform, lock)
  PROVE  Moved(t)
<1> DEFINE record == [NewOp("fetch") EXCEPT !.request = r, !.left[r] = l.cache[r].left]
<1>1. record.request = r
  BY NewOpFits DEF OpRecord
<1>2. \/ \E at \in {"hydrate", "refetch"} : Becomes(t, l) /\ Awaits(t, at, record)
      \/ Becomes(t, Discard(l, r)) /\ Returns(t)
  BY DEF LookUp
<1> HIDE DEF record
<1>3. QED
  BY <1>1, <1>2, ReadLeased, DiscardReturns

LEMMA Suffix ==
  ASSUME NEW h \in Seq(Requests), NEW i \in DOMAIN h
  PROVE  Lies(SubSeq(h, i + 1, Len(h))) \subseteq Lies(h)
<1>1. Len(h) \in Nat /\ DOMAIN h = 1..Len(h)
  BY LenProperties
<1>2. ASSUME NEW j \in DOMAIN SubSeq(h, i + 1, Len(h))
      PROVE  SubSeq(h, i + 1, Len(h))[j] \in Lies(h)
  <2>1. SubSeq(h, i + 1, Len(h))[j] = h[i + j] /\ i + j \in DOMAIN h
    BY <1>1
  <2>2. QED
    BY <2>1 DEF Lies
<1>3. QED
  BY <1>2 DEF Lies

LEMMA NothingLies == Lies(<<>>) = {}
BY DEF Lies

LEMMA PickMoves ==
  ASSUME IInv, LeaseInv, NEW t \in Tasks, NEW l \in ClientRecord, Pick(t, l),
         UNCHANGED <<platform, lock, holds, term>>, holds[t] = NoRequest,
         WaitsLeased(ClientOf[t], l, Lies(l.head), platform, lock)
  PROVE  Moved(t)
<1>1. CASE Becomes(t, [l EXCEPT !.head = <<>>]) /\ Returns(t)
  <2> DEFINE v == [l EXCEPT !.head = <<>>]
  <2>1. v.head = <<>>
    BY DEF ClientRecord
  <2> HIDE DEF v
  <2>2. WaitsLeased(ClientOf[t], v, Lies(v.head), platform, lock)
    BY <2>1, NothingLies DEF WaitsLeased
  <2>3. Leased(ClientOf[t], v, "idle", NoOp, holds[t], term[t], platform, lock)
    BY <2>2, HeadWaits, ReturnLeased
  <2>4. QED
    BY <1>1, <2>3 DEF Moved, Returns, v
<1>2. ASSUME NEW i \in Eligible(l),
             LET r == l.head[i]
                 reserved == [l EXCEPT !.head = SubSeq(@, i + 1, Len(@)),
                                       !.inProgress = @ \cup {r}]
             IN  IF WindowSuffices(l.cache[r].left) THEN LookUp(t, r, reserved)
                 ELSE /\ Becomes(t, reserved)
                      /\ Awaits(t, "prolong_request_lock", [NewOp("fetch") EXCEPT !.request = r])
      PROVE  Moved(t)
  <2> DEFINE r == l.head[i]
             k == l.cache[r].left
             rest == SubSeq(l.head, i + 1, Len(l.head))
             s == l.inProgress \cup {r}
             o == [NewOp("fetch") EXCEPT !.request = r]
             reserved == [l EXCEPT !.head = SubSeq(@, i + 1, Len(@)), !.inProgress = @ \cup {r}]
  <2>1. i \in DOMAIN l.head /\ l.head \in Seq(Requests)
    BY <1>2 DEF Eligible, ClientRecord
  <2>2. r \in Requests /\ rest \in Seq(Requests) /\ Lies(rest) \subseteq Lies(l.head)
    BY <2>1, RestIsSequence, Suffix
  <2>3. s \in SUBSET Requests /\ r \in Lies(l.head)
    BY <2>1, <2>2 DEF ClientRecord, Lies
  <2>4. reserved = [l EXCEPT !.head = rest, !.inProgress = s]
    BY DEF ClientRecord
  <2>5. o = [NewOp("fetch") EXCEPT !.request = r]
    OBVIOUS
  <2>6. \/ WindowSuffices(k) /\ LookUp(t, r, reserved)
        \/ Becomes(t, reserved) /\ Awaits(t, "prolong_request_lock", o)
    BY <1>2
  <2>7. k > 0 => Firm(platform, lock, ClientOf[t], r, k)
    BY <2>3 DEF WaitsLeased
  <2>8. k \in Int
    BY <2>2, EntryOf
  <2> HIDE DEF r, rest, s, o, reserved, k
  <2>9. reserved \in ClientRecord /\ reserved.head = rest /\ reserved.cache = l.cache
    BY <2>2, <2>3, <2>4 DEF ClientRecord
  <2>10. WaitsLeased(ClientOf[t], reserved, Lies(reserved.head), platform, lock)
    BY <2>2, <2>9 DEF WaitsLeased
  <2>11. CASE WindowSuffices(k) /\ LookUp(t, r, reserved)
    <3>1. k >= HandoffTime /\ k > 0
      BY <2>8, <2>11 DEF WindowSuffices
    <3>2. lock[r].left \in Nat
      BY <2>2 DEF LeaseInv, LocksInv
    <3>3. Firm(platform, lock, ClientOf[t], r, HandoffTime)
      BY <2>7, <2>8, <3>1, <3>2 DEF Firm
    <3>4. QED
      BY <2>2, <2>9, <2>10, <2>11, <3>3, LookUpMoves
  <2>12. CASE Becomes(t, reserved) /\ Awaits(t, "prolong_request_lock", o)
    <3>1. ~o.answered
      BY <2>2, <2>5, FetchRecord
    <3>2. Plain("prolong_request_lock", o)
      BY <3>1 DEF Plain
    <3>3. Leased(ClientOf[t], reserved, "prolong_request_lock", o, holds[t], term[t], platform, lock)
      BY <2>10, <3>2, HeadWaits, PlainLeased
    <3>4. QED
      BY <2>12, <3>3 DEF Moved
  <2>13. QED
    BY <2>6, <2>11, <2>12
<1>3. QED
  BY <1>1, <1>2 DEF Pick

(* A listing under way has the old head as its leftovers.                   *)
LEMMA ListMoves ==
  ASSUME IInv, LeaseInv, NEW t \in Tasks, NEW o \in OpRecord, List(t, o), ~o.answered,
         UNCHANGED <<platform, lock, holds, term>>
  PROVE  Moved(t)
<1> DEFINE h == My(t).head
           l == [My(t) EXCEPT !.head = <<>>, !.forefront = FALSE]
           v == [o EXCEPT !.rest = h]
<1>1. My(t) \in ClientRecord
  BY MyClientFits DEF IInv
<1>2. l.head = <<>> /\ l.cache = My(t).cache
  BY <1>1 DEF ClientRecord
<1>3. ~v.answered /\ v.rest = h
  BY DEF OpRecord
<1>4. Becomes(t, l) /\ Awaits(t, "list_and_lock_head", v)
  BY DEF List
<1> HIDE DEF l, v
<1>5. Waits(l, "list_and_lock_head", v) = Lies(My(t).head)
  BY <1>2, <1>3, NothingLies DEF Waits
<1>6. WaitsLeased(ClientOf[t], l, Lies(My(t).head), platform, lock)
  BY <1>2, HeadWaits, WaitsShrink
<1>7. CallLeased(ClientOf[t], l, "list_and_lock_head", v, holds[t], term[t], platform, lock)
  BY <1>3 DEF CallLeased
<1>8. Leased(ClientOf[t], l, "list_and_lock_head", v, holds[t], term[t], platform, lock)
  BY <1>5, <1>6, <1>7, HeadWaits DEF Leased
<1>9. QED
  BY <1>4, <1>8 DEF Moved

LEMMA StaysAtHead ==
  ASSUME IInv, LeaseInv, NEW t \in Tasks, NEW at, NEW o, UNCHANGED local, Awaits(t, at, o),
         Plain(at, o), UNCHANGED <<platform, lock, holds, term>>
  PROVE  Moved(t)
<1>1. Becomes(t, My(t))
  BY ClientStays DEF IInv
<1>2. QED
  BY <1>1, MovesPlainly

LEMMA LeaseCallFetch ==
  ASSUME IInv, LeaseInv, NEW t \in Tasks, CallFetch(t)
  PROVE  Moved(t)
<1>1. UNCHANGED <<platform, lock, holds, term>> /\ holds[t] = NoRequest /\ My(t) \in ClientRecord
  BY MyClientFits DEF CallFetch, IInv
<1>2. NewOp("fetch") \in OpRecord /\ ~NewOp("fetch").answered
  BY NewOpFits
<1>3. CASE List(t, NewOp("fetch"))
  BY <1>1, <1>2, <1>3, ListMoves
<1>4. CASE Awaits(t, "metadata", NewOp("fetch")) /\ UNCHANGED local
  BY <1>1, <1>4, StaysAtHead DEF Plain
<1>5. CASE Pick(t, My(t))
  BY <1>1, <1>5, HeadWaits, PickMoves
<1>6. QED
  BY <1>3, <1>4, <1>5 DEF CallFetch

LEMMA JoinLies ==
  ASSUME NEW s \in Seq(Requests), NEW u \in Seq(Requests), NEW v \in Seq(Requests)
  PROVE  Lies(s \o u \o v) \subseteq Lies(s) \cup Lies(u) \cup Lies(v)
<1>1. ASSUME NEW p \in Seq(Requests), NEW q \in Seq(Requests)
      PROVE  Lies(p \o q) \subseteq Lies(p) \cup Lies(q)
  <2>1. /\ p \o q \in Seq(Requests) /\ Len(p \o q) = Len(p) + Len(q)
        /\ Len(p) \in Nat /\ Len(q) \in Nat
        /\ DOMAIN (p \o q) = 1..Len(p \o q) /\ DOMAIN p = 1..Len(p) /\ DOMAIN q = 1..Len(q)
    BY ConcatProperties, LenProperties
  <2>2. ASSUME NEW j \in DOMAIN (p \o q)
        PROVE  (p \o q)[j] \in Lies(p) \cup Lies(q)
    <3>1. CASE j <= Len(p)
      <4>1. (p \o q)[j] = p[j] /\ j \in DOMAIN p
        BY <2>1, <3>1, ConcatProperties
      <4>2. QED
        BY <4>1 DEF Lies
    <3>2. CASE j > Len(p)
      <4>1. (p \o q)[j] = q[j - Len(p)] /\ j - Len(p) \in DOMAIN q
        BY <2>1, <3>2, ConcatProperties
      <4>2. QED
        BY <4>1 DEF Lies
    <3>3. QED
      BY <2>1, <3>1, <3>2
  <2>3. QED
    BY <2>2 DEF Lies
<1>2. s \o u \in Seq(Requests)
  BY ConcatProperties
<1>3. Lies(s \o u \o v) \subseteq Lies(s \o u) \cup Lies(v) /\ Lies(s \o u) \subseteq Lies(s) \cup Lies(u)
  BY <1>1, <1>2
<1>4. QED
  BY <1>3

(* What was listed is locked; the leftovers are as they were.               *)
LEMMA ListedLeased ==
  ASSUME IInv, LeaseInv, NEW t \in Tasks, Answered(t, "list_and_lock_head"), NEW v \in Listed(t)
  PROVE  /\ v \in ClientRecord
         /\ WaitsLeased(ClientOf[t], v, Lies(v.head), platform, lock)
<1> DEFINE l == My(t)
           items == {r \in Requests : op[t].left[r] # NoLease} \ l.inProgress
           entries == [r \in Requests |-> IF r \in items THEN Entry("pending", op[t].left[r])
                                          ELSE l.cache[r]]
<1>1. PICK news \in SetToSeqs(items) :
        v = [l EXCEPT !.head = @ \o news \o op[t].rest, !.locked = op[t].yes,
                      !.unhandled = @ \cup items,
                      !.cache = [r \in Requests |-> IF r \in items THEN Entry("pending", op[t].left[r])
                                                    ELSE @[r]]]
  BY DEF Listed
<1>2. l \in ClientRecord /\ op[t] \in OpRecord /\ v \in ClientRecord
  BY MyOpFits, MyClientFits, ListedKeeps DEF IInv, Answered
<1>3. /\ l.head \in Seq(Requests) /\ op[t].rest \in Seq(Requests) /\ news \in Seq(Requests)
      /\ Lies(news) \subseteq items
  <2>1. items \in SUBSET Requests
    OBVIOUS
  <2> HIDE DEF items
  <2>2. news \in Seq(Requests)
    BY <2>1, OrdersAreSequences
  <2>3. Lies(news) \subseteq items
    BY DEF Lies, SetToSeqs
  <2>4. QED
    BY <1>2, <2>2, <2>3 DEF OpRecord, ClientRecord
<1>4. v.head = l.head \o news \o op[t].rest /\ v.cache = entries
  <2> DEFINE h == l.head \o news \o op[t].rest
             y == op[t].yes
             n == l.unhandled \cup items
  <2>1. v = [l EXCEPT !.head = h, !.locked = y, !.unhandled = n, !.cache = entries]
    BY <1>1, <1>2 DEF ClientRecord
  <2> HIDE DEF h, y, n, entries
  <2>2. v.head = h /\ v.cache = entries
    BY <1>2, <2>1 DEF ClientRecord
  <2>3. QED
    BY <2>2 DEF h
<1>5. Lies(v.head) \subseteq Lies(l.head) \cup items \cup Lies(op[t].rest)
  <2> HIDE DEF l, items
  <2>1. QED
    BY <1>3, <1>4, JoinLies
<1>6. /\ WaitsLeased(ClientOf[t], l, Lies(l.head) \cup Lies(op[t].rest), platform, lock)
      /\ \A r \in items : op[t].left[r] = LockTime /\ Firm(platform, lock, ClientOf[t], r, LockTime)
  BY DEF LeaseInv, IsLeased, Leased, Waits, CallLeased, Answered
<1>7. ASSUME NEW r \in Lies(v.head), v.cache[r].left > 0
      PROVE  Firm(platform, lock, ClientOf[t], r, v.cache[r].left)
  <2>1. CASE r \in items
    <3>1. v.cache[r] = Entry("pending", LockTime)
      BY <1>4, <1>6, <2>1
    <3>2. v.cache[r].left = LockTime
      BY <3>1 DEF Entry
    <3>3. QED
      BY <1>6, <2>1, <3>2
  <2>2. CASE r \notin items
    <3>1. r \in Lies(l.head) \cup Lies(op[t].rest)
      BY <1>5, <2>2
    <3>2. r \in Requests
      BY <1>3, <3>1 DEF Lies
    <3>3. v.cache[r] = l.cache[r]
      BY <1>4, <2>2, <3>2
    <3>4. QED
      BY <1>6, <1>7, <3>1, <3>3 DEF WaitsLeased
  <2>3. QED
    BY <2>1, <2>2
<1>8. QED
  BY <1>2, <1>7 DEF WaitsLeased

LEMMA LeaseFetchHeadListed ==
  ASSUME IInv, HandInv, LeaseInv, NEW t \in Tasks, FetchHeadListed(t)
  PROVE  Moved(t)
<1>1. /\ UNCHANGED <<platform, lock, holds, term>> /\ holds[t] = NoRequest
      /\ My(t) \in ClientRecord
  BY FetchHolds DEF FetchHeadListed
<1>2. CASE Pick(t, My(t))
  BY <1>1, <1>2, HeadWaits, PickMoves
<1>3. CASE Answered(t, "list_and_lock_head") /\ \E l \in Listed(t) : Pick(t, l)
  BY <1>1, <1>3, ListedLeased, PickMoves
<1>4. QED
  BY <1>2, <1>3 DEF FetchHeadListed

LEMMA Unwaited ==
  ASSUME IInv, HandInv, HeadsSpareInProgress, NEW t \in Tasks, NEW r \in Reserves(t)
  PROVE  r \notin Lies(My(t).head)
BY DEF HandInv, HeadsSpareInProgress, My, Lies

LEMMA LeaseProlonged ==
  ASSUME IInv, HandInv, LeaseInv, HeadsSpareInProgress, NEW t \in Tasks, Prolonged(t)
  PROVE  Moved(t)
<1> DEFINE r == op[t].request
           l == [My(t) EXCEPT !.cache[r].left = op[t].left[r]]
<1>1. /\ UNCHANGED <<platform, lock, holds, term>>
      /\ pc[t] = "prolong_request_lock" /\ op[t].answered
  BY DEF Prolonged, Answered
<1>2. /\ r \in Requests /\ r \in Reserves(t) /\ holds[t] = NoRequest /\ My(t) \in ClientRecord
  BY <1>1, ReservesAt
<1>3. CASE Becomes(t, Discard(My(t), r)) /\ Returns(t)
  BY <1>1, <1>2, <1>3, HeadWaits, DiscardReturns
<1>4. CASE op[t].left[r] # NoLease /\ LookUp(t, r, l)
  <2>1. l \in ClientRecord
    <3>1. op[t].left[r] \in Int /\ r \in Present
      BY <1>2, <1>4, MyOpFits DEF IInv, OpRecord, OpFits, AnswerFits
    <3>2. ClientFits(l, Present, added[ClientOf[t]], done)
      BY <1>2, <3>1, MyClientFits, LeaseFits DEF IInv
    <3>3. QED
      BY <3>2 DEF ClientFits
  <2>2. /\ l.head = My(t).head
        /\ \A q \in Requests \ {r} : l.cache[q] = My(t).cache[q]
    BY <1>2 DEF ClientRecord
  <2>3. Firm(platform, lock, ClientOf[t], r, LockTime)
    BY <1>1, <1>4, HeadWaits DEF CallLeased
  <2>4. Firm(platform, lock, ClientOf[t], r, HandoffTime)
    <3>1. lock[r].left \in Nat
      BY <1>2 DEF LeaseInv, LocksInv
    <3>2. QED
      BY <2>3, <3>1 DEF Firm
  <2>5. Lies(My(t).head) \subseteq Requests \ {r}
    <3>1. My(t).head \in Seq(Requests)
      BY <1>2 DEF ClientRecord
    <3>2. Lies(My(t).head) \subseteq Requests
      BY <3>1 DEF Lies
    <3>3. QED
      BY <1>2, <3>2, Unwaited
  <2> HIDE DEF l, r
  <2>6. WaitsLeased(ClientOf[t], l, Lies(l.head), platform, lock)
    BY <2>2, <2>5, HeadWaits DEF WaitsLeased
  <2>7. QED
    BY <1>1, <1>2, <1>4, <2>1, <2>4, <2>6, LookUpMoves
<1>5. QED
  BY <1>3, <1>4 DEF Prolonged

LEMMA CacheParts ==
  ASSUME NEW l \in ClientRecord, NEW r \in Requests, NEW entry, NEW isHandled
  PROVE  /\ Cache(l, r, entry, isHandled).head = l.head
         /\ Cache(l, r, entry, isHandled).inProgress = l.inProgress
         /\ \A q \in Requests : Cache(l, r, entry, isHandled).cache[q] =
              IF q = r THEN entry ELSE l.cache[q]
<1> DEFINE n == IF isHandled THEN l.unhandled \ {r} ELSE l.unhandled \cup {r}
           k == [l.cache EXCEPT ![r] = entry]
           v == Cache(l, r, entry, isHandled)
<1>1. v = [l EXCEPT !.cache = k, !.unhandled = n]
  BY DEF Cache, ClientRecord
<1> HIDE DEF v, n
<1>2. v.head = l.head /\ v.inProgress = l.inProgress /\ v.cache = k
  BY <1>1 DEF ClientRecord
<1>3. QED
  BY <1>2 DEF v, ClientRecord

LEMMA CachedLeased ==
  ASSUME IInv, HandInv, LeaseInv, HeadsSpareInProgress, NEW t \in Tasks, NEW r \in Reserves(t),
         NEW entry \in EntryRecord, NEW isHandled \in BOOLEAN
  PROVE  /\ Cache(My(t), r, entry, isHandled) \in ClientRecord
         /\ WaitsLeased(ClientOf[t], Cache(My(t), r, entry, isHandled),
                        Lies(Cache(My(t), r, entry, isHandled).head), platform, lock)
<1> DEFINE v == Cache(My(t), r, entry, isHandled)
<1>1. r \in Requests /\ My(t) \in ClientRecord
  BY MyClientFits DEF IInv, Reserves, Reserved
<1>2. v \in ClientRecord
  BY <1>1 DEF Cache, ClientRecord
<1>3. v.head = My(t).head /\ \A q \in Requests \ {r} : v.cache[q] = My(t).cache[q]
  BY <1>1, CacheParts
<1>4. Lies(My(t).head) \subseteq Requests \ {r}
  <2>1. My(t).head \in Seq(Requests)
    BY <1>1 DEF ClientRecord
  <2>2. Lies(My(t).head) \subseteq Requests
    BY <2>1 DEF Lies
  <2>3. QED
    BY <2>2, Unwaited
<1> HIDE DEF v
<1>5. WaitsLeased(ClientOf[t], v, Lies(v.head), platform, lock)
  BY <1>3, <1>4, HeadWaits DEF WaitsLeased
<1>6. QED
  BY <1>2, <1>5 DEF v

LEMMA LeaseHydrated ==
  ASSUME IInv, HandInv, LeaseInv, HeadsSpareInProgress, NEW t \in Tasks, Hydrated(t)
  PROVE  Moved(t)
<1> DEFINE r == op[t].request
           status == op[t].seen[r]
           e == Entry(status, op[t].left[r])
           l == Cache(My(t), r, e, status = "handled")
           o == [NewOp("fetch") EXCEPT !.request = r]
<1>1. UNCHANGED <<platform, lock, holds, term>> /\ pc[t] = "hydrate"
  BY DEF Hydrated, Answered
<1>2. /\ r \in Requests /\ r \in Reserves(t) /\ holds[t] = NoRequest /\ My(t) \in ClientRecord
  BY <1>1, ReservesAt
<1>3. e \in EntryRecord
  <2>1. status \in Status /\ op[t].left[r] \in Int
    BY <1>2, MyOpFits DEF IInv, OpRecord
  <2>2. QED
    BY <2>1, UncachedEntry
<1>4. l \in ClientRecord /\ WaitsLeased(ClientOf[t], l, Lies(l.head), platform, lock)
  BY <1>2, <1>3, CachedLeased
<1>5. Firm(platform, lock, ClientOf[t], r, HandoffTime)
  BY <1>1, HeadWaits DEF CallLeased
<1>6. o.request = r
  <2>1. o = [NewOp("fetch") EXCEPT !.request = r]
    OBVIOUS
  <2> HIDE DEF o, r
  <2>2. QED
    BY <1>2, <2>1, FetchRecord
<1>7. \/ Becomes(t, Discard(My(t), r)) /\ Returns(t)
      \/ Becomes(t, l) /\ Awaits(t, "refetch", o)
      \/ Becomes(t, Discard(l, r)) /\ Returns(t)
  BY DEF Hydrated
<1> HIDE DEF l, o, r
<1>8. CASE Becomes(t, Discard(My(t), r)) /\ Returns(t)
  BY <1>1, <1>2, <1>8, HeadWaits, DiscardReturns
<1>9. CASE Becomes(t, l) /\ Awaits(t, "refetch", o)
  BY <1>1, <1>2, <1>4, <1>5, <1>6, <1>9, ReadLeased
<1>10. CASE Becomes(t, Discard(l, r)) /\ Returns(t)
  BY <1>1, <1>4, <1>10, DiscardReturns
<1>11. QED
  BY <1>7, <1>8, <1>9, <1>10

(* The handed-out request is locked for as long as it is promised.          *)
LEMMA LeaseRefetched ==
  ASSUME IInv, HandInv, LeaseInv, NEW t \in Tasks, Refetched(t)
  PROVE  Moved(t)
<1> DEFINE r == op[t].request
<1>1. UNCHANGED <<platform, lock>> /\ pc[t] = "refetch" /\ Returns(t)
  BY DEF Refetched, Answered
<1>2. r \in Requests /\ holds[t] = NoRequest /\ My(t) \in ClientRecord
  BY <1>1, ReservesAt
<1>3. CASE Becomes(t, Discard(My(t), r)) /\ UNCHANGED <<holds, term>>
  BY <1>1, <1>2, <1>3, HeadWaits, DiscardReturns
<1>4. CASE /\ holds' = [holds EXCEPT ![t] = r] /\ term' = [term EXCEPT ![t] = HandoffTime]
           /\ UNCHANGED local
  <2>1. holds'[t] = r /\ term'[t] = HandoffTime
    BY <1>4 DEF IInv, HoldsInv, LeaseInv, TermsInv
  <2>2. Firm(platform, lock, ClientOf[t], r, HandoffTime)
    BY <1>1, HeadWaits DEF CallLeased
  <2>3. HandLeased(ClientOf[t], holds'[t], term'[t], platform, lock)
    BY <2>1, <2>2 DEF HandLeased
  <2>4. Leased(ClientOf[t], My(t), "idle", NoOp, holds'[t], term'[t], platform, lock)
    BY <2>3, HeadWaits, ReturnLeased
  <2>5. Becomes(t, My(t))
    BY <1>4, ClientStays DEF IInv
  <2>6. QED
    BY <1>1, <2>4, <2>5 DEF Moved, Returns
<1>5. QED
  BY <1>3, <1>4 DEF Refetched

-----------------------------------------------------------------------------
(* mark_request_as_handled and reclaim_request.                             *)

LEMMA GivenUp ==
  ASSUME IInv, NEW t \in Tasks, NEW call \in {"mark", "reclaim"}, GivesUp(t, call),
         holds[t] # NoRequest
  PROVE  /\ holds[t] \in Requests /\ holds'[t] = NoRequest
         /\ \A u \in Tasks \ {t} : holds'[u] = holds[u]
         /\ Becomes(t, Discard(My(t), holds[t])) /\ UNCHANGED <<platform, lock, term>>
         /\ \E o : /\ Awaits(t, "update_request", o) /\ o.request = holds[t]
                   /\ o.call = call /\ ~o.answered
<1>1. PICK f \in BOOLEAN :
        Awaits(t, "update_request", [NewOp(call) EXCEPT !.request = holds[t], !.forefront = f])
  BY DEF GivesUp
<1> DEFINE o == [NewOp(call) EXCEPT !.request = holds[t], !.forefront = f]
<1>2. holds[t] \in Requests
  BY DEF IInv, HoldsInv
<1>3. o.request = holds[t] /\ o.call = call /\ ~o.answered
  <2>1. NewOp(call) \in OpRecord /\ NewOp(call).call = call /\ ~NewOp(call).answered
    BY NewOpFits
  <2>2. QED
    BY <1>1, <2>1 DEF OpRecord
<1>4. holds'[t] = NoRequest /\ \A u \in Tasks \ {t} : holds'[u] = holds[u]
  BY DEF GivesUp, IInv, HoldsInv
<1>5. QED
  BY <1>1, <1>2, <1>3, <1>4 DEF GivesUp

LEMMA LeaseGivesUp ==
  ASSUME IInv, HandInv, LeaseInv, HeadsSpareInProgress, NEW t \in Tasks,
         NEW call \in {"mark", "reclaim"}, GivesUp(t, call), holds[t] # NoRequest
  PROVE  Moved(t)
<1> DEFINE l == Discard(My(t), holds[t])
<1>1. /\ holds[t] \in Requests /\ holds'[t] = NoRequest /\ Becomes(t, l)
      /\ UNCHANGED <<platform, lock, term>>
  BY GivenUp
<1>2. PICK o : /\ Awaits(t, "update_request", o) /\ o.request = holds[t]
               /\ o.call = call /\ ~o.answered
  BY GivenUp
<1>3. l.head = My(t).head /\ l.cache = My(t).cache
  BY MyClientFits, DiscardParts DEF IInv
<1>4. holds[t] \in Reserves(t)
  BY <1>1 DEF Reserves, Reserved
<1> HIDE DEF l
<1>5. holds[t] \notin Lies(l.head)
  BY <1>3, <1>4, Unwaited
<1>6. term[t] > 0 /\ Firm(platform, lock, ClientOf[t], holds[t], term[t])
  BY HeadWaits DEF HandLeased
<1>7. WaitsLeased(ClientOf[t], l, Waits(l, "update_request", o), platform, lock)
  BY <1>3, HeadWaits DEF Waits, WaitsLeased
<1>8. CallLeased(ClientOf[t], l, "update_request", o, holds'[t], term'[t], platform, lock)
  BY <1>1, <1>2, <1>5, <1>6 DEF CallLeased
<1>9. Leased(ClientOf[t], l, "update_request", o, holds'[t], term'[t], platform, lock)
  BY <1>1, <1>7, <1>8 DEF Leased, HandLeased
<1>10. QED
  BY <1>1, <1>2, <1>9 DEF Moved

LEMMA LeaseUpdated ==
  ASSUME IInv, LeaseInv, NEW t \in Tasks, Updated(t)
  PROVE  Moved(t)
<1> DEFINE r == op[t].request
           marks == op[t].call = "mark"
           e == Entry(IF marks THEN "handled" ELSE "pending", NoLease)
           n == My(t).handled + CountsChange(op[t].call, op[t].seen[r] = "handled")
           f == My(t).forefront \/ op[t].forefront
           k == [My(t) EXCEPT !.handled = n, !.forefront = f]
           v == Cache(k, r, e, marks)
<1>1. /\ UNCHANGED <<platform, lock, holds>> /\ pc[t] = "update_request"
      /\ Becomes(t, v) /\ Returns(t)
  BY DEF Updated, Answered
<1>2. /\ My(t) \in ClientRecord /\ r \in Requests /\ op[t] \in OpRecord
      /\ op[t].seen[r] \in Status
  BY <1>1, MyClientFits, MyOpFits DEF IInv, OpFits, PlaceFits, OpRecord
<1>3. n \in Int /\ f \in BOOLEAN
  BY <1>2 DEF OpRecord, ClientRecord, CountsChange
<1> HIDE DEF n, f
<1>4. k \in ClientRecord /\ k.head = My(t).head /\ k.cache = My(t).cache
  BY <1>2, <1>3 DEF ClientRecord
<1>5. e.left = NoLease
  BY DEF Entry
<1> HIDE DEF k, e, r
<1>6. /\ v.head = My(t).head
      /\ \A q \in Requests : v.cache[q] = IF q = r THEN e ELSE My(t).cache[q]
  BY <1>2, <1>4, CacheParts
<1>7. holds[t] = NoRequest
  BY <1>1, HeadWaits DEF CallLeased
<1> HIDE DEF v
<1>8. \A q \in Lies(v.head) : v.cache[q].left > 0 => v.cache[q].left = My(t).cache[q].left
  <2>1. Lies(v.head) \subseteq Requests
    BY <1>2, <1>6 DEF Lies, ClientRecord
  <2>2. QED
    BY <1>5, <1>6, <2>1 DEF NoLease
<1>9. QED
  BY <1>1, <1>6, <1>7, <1>8, MovesPlainly DEF Returns, Plain

-----------------------------------------------------------------------------
(* add_batch_of_requests and is_finished have nothing to do with leases.    *)

LEMMA SettleAwaits ==
  ASSUME CallsInv, OneTaskEach, NEW t \in Tasks, NEW at, NEW o, NEW committed,
         Settle(t, at, o, committed)
  PROVE  Awaits(t, at, o)
<1>1. \A u \in Tasks \ {t} : ~SameClient(t, u)
  BY DEF OneTaskEach
<1>2. op' = [op EXCEPT ![t] = o]
  BY <1>1 DEF Settle, CallsInv
<1>3. QED
  BY <1>2 DEF Settle, Awaits

LEMMA LeaseCallAdd ==
  ASSUME IInv, LeaseInv, NEW t \in Tasks, CallAdd(t)
  PROVE  Moved(t)
<1>1. UNCHANGED <<platform, lock, holds, term>> /\ My(t) \in ClientRecord
  BY MyClientFits DEF CallAdd, IInv
<1>2. PICK send \in SUBSET Requests :
        /\ Becomes(t, [My(t) EXCEPT !.beingAdded = @ \cup send])
        /\ \E at \in {"idle", "batch_add", "in_flight"} : \E o : Awaits(t, at, o)
  <2>1. ASSUME NEW b \in Batches
        PROVE  b \in SUBSET Requests
    OBVIOUS
  <2>2. PICK b \in Batches, at \in {"idle", "batch_add", "in_flight"} :
          /\ \E send \in SUBSET Requests : Becomes(t, [My(t) EXCEPT !.beingAdded = @ \cup send])
          /\ \E o : Awaits(t, at, o)
    BY <2>1 DEF CallAdd, Returns
  <2>3. QED
    BY <2>2
<1> DEFINE l == [My(t) EXCEPT !.beingAdded = @ \cup send]
<1>3. l.head = My(t).head /\ l.cache = My(t).cache
  BY <1>1 DEF ClientRecord
<1>4. Becomes(t, l)
  BY <1>2
<1> HIDE DEF l
<1>5. QED
  BY <1>1, <1>2, <1>3, <1>4, MovesPlainly DEF Plain

LEMMA LeaseAddReturns ==
  ASSUME IInv, LeaseInv, NEW t \in Tasks, AddReturns(t)
  PROVE  Moved(t)
<1> DEFINE l == [My(t) EXCEPT !.total = @ + Cardinality(op[t].new)]
<1>1. /\ UNCHANGED <<platform, lock, holds, term>> /\ My(t) \in ClientRecord
      /\ Becomes(t, l) /\ Returns(t)
  BY MyClientFits DEF AddReturns, IInv
<1>2. l.head = My(t).head /\ l.cache = My(t).cache
  BY <1>1 DEF ClientRecord
<1> HIDE DEF l
<1>3. QED
  BY <1>1, <1>2, MovesPlainly DEF Plain, Returns

LEMMA LeaseBatchAnswered ==
  ASSUME IInv, LeaseInv, OneTaskEach, NEW t \in Tasks, BatchAnswered(t)
  PROVE  Moved(t)
<1> DEFINE committed == op[t].batch \ op[t].rejected
           new == {r \in committed : op[t].seen[r] = "absent"}
           record == [op[t] EXCEPT !.batch = {}, !.new = new, !.known = @ \cup (committed \ new)]
           entries == [r \in Requests |-> IF r \in committed THEN Entry("no", NoLease)
                                          ELSE My(t).cache[r]]
           l == [My(t) EXCEPT
                  !.cache = [r \in Requests |-> IF r \in committed THEN Entry("no", NoLease)
                                                ELSE @[r]],
                  !.unhandled = @ \cup committed, !.beingAdded = @ \ op[t].batch,
                  !.total = IF record.waits = {} THEN @ + Cardinality(new) ELSE @]
<1>1. /\ UNCHANGED <<platform, lock, holds, term>> /\ Becomes(t, l) /\ My(t) \in ClientRecord
      /\ Settle(t, "idle", NoOp, committed) \/ Settle(t, "in_flight", record, committed)
  BY MyClientFits DEF BatchAnswered, IInv
<1>2. l.head = My(t).head /\ l.cache = entries
  <2> DEFINE u == My(t).unhandled \cup committed
             a == My(t).beingAdded \ op[t].batch
             n == IF record.waits = {} THEN My(t).total + Cardinality(new) ELSE My(t).total
  <2>1. l = [My(t) EXCEPT !.cache = entries, !.unhandled = u, !.beingAdded = a, !.total = n]
    BY <1>1 DEF ClientRecord
  <2> HIDE DEF l, u, a, n, entries
  <2>2. QED
    BY <1>1, <2>1 DEF ClientRecord
<1>3. Lies(l.head) \subseteq Requests
  BY <1>1, <1>2 DEF Lies, ClientRecord
<1>4. \A r \in Lies(l.head) : l.cache[r].left > 0 => l.cache[r].left = My(t).cache[r].left
  BY <1>2, <1>3 DEF Entry, NoLease
<1>5. Awaits(t, "idle", NoOp) \/ Awaits(t, "in_flight", record)
  BY <1>1, SettleAwaits DEF IInv
<1> HIDE DEF l, record
<1>6. QED
  BY <1>1, <1>2, <1>4, <1>5, MovesPlainly DEF Plain

LEMMA VerdictAwaits ==
  ASSUME NEW t \in Tasks, NEW record, NEW yes, Verdict(t, record, yes)
  PROVE  \E o : Awaits(t, "idle", o)
BY DEF Verdict, Returns

LEMMA ConcludesAwaits ==
  ASSUME NEW t \in Tasks, NEW record, NEW l, NEW empty, Concludes(t, record, l, empty)
  PROVE  \E at \in {"idle", "verify"} : \E o : Awaits(t, at, o)
BY VerdictAwaits DEF Concludes

LEMMA LeaseCallFinished ==
  ASSUME IInv, LeaseInv, NEW t \in Tasks, CallFinished(t)
  PROVE  Moved(t)
<1> DEFINE a == added[ClientOf[t]]
           record == [NewOp("finished") EXCEPT !.known = a]
<1>1. UNCHANGED <<platform, lock, holds, term>>
  BY DEF CallFinished
<1>2. record \in OpRecord /\ ~record.answered
  <2>1. a \in SUBSET Requests
    BY DEF IInv, PlatformInv, Present
  <2>2. record = [NewOp("finished") EXCEPT !.known = a]
    OBVIOUS
  <2> HIDE DEF record, a
  <2>3. QED
    BY <2>1, <2>2, FinishedRecord
<1>3. CASE List(t, record)
  <2> HIDE DEF record
  <2>1. QED
    BY <1>1, <1>2, <1>3, ListMoves
<1>4. CASE UNCHANGED local /\ \E at \in {"idle", "verify", "metadata"} : \E o : Awaits(t, at, o)
  BY <1>1, <1>4, StaysAtHead DEF Plain
<1>5. QED
  BY <1>3, <1>4, ConcludesAwaits DEF CallFinished

LEMMA LeaseFinishedHeadListed ==
  ASSUME IInv, LeaseInv, NEW t \in Tasks, FinishedHeadListed(t)
  PROVE  Moved(t)
<1>1. UNCHANGED <<platform, lock, holds, term>>
  BY DEF FinishedHeadListed
<1>2. CASE Answered(t, "metadata") /\ Concludes(t, op[t], My(t), op[t].yes) /\ UNCHANGED local
  <2>1. \E at \in {"idle", "verify"} : \E o : Awaits(t, at, o)
    BY <1>2, ConcludesAwaits
  <2>2. QED
    BY <1>1, <1>2, <2>1, StaysAtHead DEF Plain
<1>3. ASSUME Answered(t, "list_and_lock_head"), NEW l \in Listed(t), Becomes(t, l),
             Concludes(t, op[t], l, \A r \in Requests : op[t].left[r] = NoLease)
      PROVE  Moved(t)
  <2>1. PICK at \in {"idle", "verify"} : \E o : Awaits(t, at, o)
    BY <1>3, ConcludesAwaits
  <2>2. PICK o : Awaits(t, at, o)
    BY <2>1
  <2>3. WaitsLeased(ClientOf[t], l, Lies(l.head), platform, lock)
    BY <1>3, ListedLeased
  <2>4. Leased(ClientOf[t], l, at, o, holds[t], term[t], platform, lock)
    BY <2>1, <2>2, <2>3, HeadWaits, PlainLeased DEF Plain
  <2>5. QED
    BY <1>1, <1>3, <2>2, <2>4 DEF Moved
<1>4. QED
  BY <1>2, <1>3 DEF FinishedHeadListed

LEMMA LeaseVerified ==
  ASSUME IInv, LeaseInv, NEW t \in Tasks, Verified(t)
  PROVE  Moved(t)
<1>1. PICK c : Becomes(t, [My(t) EXCEPT !.unhandled = @ \ c])
  BY DEF Verified
<1> DEFINE l == [My(t) EXCEPT !.unhandled = @ \ c]
<1>2. UNCHANGED <<platform, lock, holds, term>> /\ My(t) \in ClientRecord
  BY MyClientFits DEF Verified, IInv
<1>3. l.head = My(t).head /\ l.cache = My(t).cache
  BY <1>2 DEF ClientRecord
<1>4. \E o : Awaits(t, "idle", o)
  BY VerdictAwaits DEF Verified
<1>5. Becomes(t, l)
  BY <1>1
<1> HIDE DEF l
<1>6. QED
  BY <1>2, <1>3, <1>4, <1>5, MovesPlainly DEF Plain

(* A failed call forgets what it was promised, not what it was handed.      *)
LEMMA LeaseFail ==
  ASSUME IInv, LeaseInv, OneTaskEach, NEW t \in Tasks, Fail(t)
  PROVE  Moved(t) /\ TermsInv' /\ UNCHANGED <<platform, lock, holds>>
         /\ \A u \in Tasks \ {t} : term'[u] = term[u]
<1>1. UNCHANGED <<platform, lock, holds>> /\ My(t) \in ClientRecord
  BY MyClientFits DEF Fail, IInv
<1>2. /\ TermsInv' /\ \A u \in Tasks \ {t} : term'[u] = term[u]
      /\ holds[t] # NoRequest => term'[t] = term[t]
  BY DEF Fail, LeaseInv, TermsInv
<1>3. Moved(t)
  <2>1. CASE /\ Settle(t, "idle", NoOp, {})
             /\ Becomes(t, [My(t) EXCEPT !.beingAdded = @ \ op[t].batch])
    <3> DEFINE l == [My(t) EXCEPT !.beingAdded = @ \ op[t].batch]
    <3>1. l.head = My(t).head /\ l.cache = My(t).cache
      BY <1>1 DEF ClientRecord
    <3>2. Awaits(t, "idle", NoOp) /\ Becomes(t, l)
      BY <2>1, SettleAwaits DEF IInv
    <3> HIDE DEF l
    <3>3. QED
      BY <1>1, <1>2, <3>1, <3>2, MovesPlainly DEF Plain
  <2>2. CASE Returns(t) /\ Becomes(t, Discard(My(t), op[t].request))
    <3>1. /\ Discard(My(t), op[t].request).head = My(t).head
          /\ Discard(My(t), op[t].request).cache = My(t).cache
      BY <1>1, DiscardParts
    <3>2. QED
      BY <1>1, <1>2, <2>2, <3>1, MovesPlainly DEF Plain, Returns
  <2>3. CASE Returns(t) /\ UNCHANGED local
    <3>1. Becomes(t, My(t))
      BY <2>3, ClientStays DEF IInv
    <3>2. QED
      BY <1>1, <1>2, <2>3, <3>1, MovesPlainly DEF Plain, Returns
  <2>4. QED
    BY <2>1, <2>2, <2>3 DEF Fail
<1>4. QED
  BY <1>1, <1>2, <1>3

-----------------------------------------------------------------------------
(* The platform's answers.                                                  *)

(* An answer that keeps the locks of the client it is for.                  *)
LEMMA AnswerMoves ==
  ASSUME IInv, LeaseInv, NEW t \in Tasks, NEW o, op' = [op EXCEPT ![t] = o],
         UNCHANGED <<local, pc, holds, term>>, Keeps(ClientOf[t]),
         pc[t] = "list_and_lock_head" => o.rest = op[t].rest,
         CallLeased(ClientOf[t], My(t), pc[t], o, holds[t], term[t], platform', lock')
  PROVE  Moved(t)
<1>1. Leased(ClientOf[t], My(t), pc[t], op[t], holds[t], term[t], platform', lock')
  BY LeasedStays DEF LeaseInv, IsLeased
<1>2. Leased(ClientOf[t], My(t), pc[t], o, holds[t], term[t], platform', lock')
  BY <1>1 DEF Leased, Waits
<1>3. Becomes(t, My(t)) /\ Awaits(t, pc[t], o)
  BY ClientStays DEF IInv, Awaits, CallsInv
<1>4. QED
  BY <1>2, <1>3 DEF Moved

LEMMA LeaseAnswerBatch ==
  ASSUME IInv, LeaseInv, NEW t \in Tasks, AnswerBatch(t)
  PROVE  Moved(t) /\ LocksInv' /\ \A c : Keeps(c)
<1>1. /\ \E o : op' = [op EXCEPT ![t] = o]
      /\ \A r \in Requests : platform[r] # "absent" => platform'[r] = platform[r]
  <2>1. PICK rejected \in SUBSET op[t].batch :
          /\ op' = [op EXCEPT ![t] = [Reply(t) EXCEPT !.rejected = rejected]]
          /\ platform' = [r \in Requests |->
               IF r \in op[t].batch \ rejected /\ platform[r] = "absent" THEN "pending"
               ELSE platform[r]]
    BY DEF AnswerBatch
  <2>2. QED
    BY <2>1
<1>2. pc[t] = "batch_add" /\ UNCHANGED <<local, pc, holds, term, lock>>
  BY DEF AnswerBatch, Pending
<1>3. \A c : Keeps(c)
  BY <1>1, <1>2 DEF Keeps, Firm
<1>4. PICK o : op' = [op EXCEPT ![t] = o]
  BY <1>1
<1>5. CallLeased(ClientOf[t], My(t), pc[t], o, holds[t], term[t], platform', lock')
  BY <1>2 DEF CallLeased
<1>6. QED
  BY <1>2, <1>3, <1>4, <1>5, AnswerMoves, LocksStay

(* A listing locks what nobody has locked, and its answer says so.          *)
LEMMA LeaseAnswerListing ==
  ASSUME IInv, LeaseInv, NEW t \in Tasks, AnswerListing(t)
  PROVE  Moved(t) /\ LocksInv' /\ \A c \in Clients : Keeps(c)
<1>1. PICK items \in SUBSET {r \in Requests : platform[r] = "pending" /\ lock[r] = Unlocked} :
        /\ lock' = [r \in Requests |->
             IF r \in items THEN [owner |-> ClientOf[t], left |-> LockTime] ELSE lock[r]]
        /\ op' = [op EXCEPT ![t] = [Reply(t) EXCEPT
                !.left = [r \in Requests |-> IF r \in items THEN LockTime ELSE NoLease],
                !.yes = \E r \in Requests : lock[r].owner \notin {NoClient, ClientOf[t]}]]
  BY DEF AnswerListing
<1> DEFINE left == [r \in Requests |-> IF r \in items THEN LockTime ELSE NoLease]
           others == \E r \in Requests : lock[r].owner \notin {NoClient, ClientOf[t]}
           o == [Reply(t) EXCEPT !.left = left, !.yes = others]
<1>2. pc[t] = "list_and_lock_head" /\ UNCHANGED <<local, pc, holds, term, platform>>
  BY DEF AnswerListing, Pending
<1>3. o.left = left /\ o.rest = op[t].rest
  <2> HIDE DEF left, others
  <2>1. QED
    BY ReplyFits DEF OpRecord
<1>4. LocksInv'
  BY <1>1 DEF LeaseInv, LocksInv
<1>5. \A c \in Clients : Keeps(c)
  BY <1>1, <1>2 DEF Keeps, Firm, Unlocked
<1>6. \A r \in items : Firm(platform', lock', ClientOf[t], r, LockTime)
  BY <1>1, <1>2 DEF Firm
<1>7. CallLeased(ClientOf[t], My(t), pc[t], o, holds[t], term[t], platform', lock')
  <2> HIDE DEF o
  <2>1. QED
    BY <1>2, <1>3, <1>6 DEF CallLeased
<1>8. op' = [op EXCEPT ![t] = o]
  BY <1>1
<1> HIDE DEF o
<1>9. QED
  BY <1>2, <1>3, <1>4, <1>5, <1>7, <1>8, AnswerMoves

(* A lock that is prolonged is for the client that has the request          *)
(* reserved, which does not believe anything of it meanwhile.               *)
LEMMA LeaseAnswerProlong ==
  ASSUME IInv, HandInv, LeaseInv, HeadsSpareInProgress, NEW t \in Tasks, AnswerProlong(t)
  PROVE  Moved(t) /\ LocksInv' /\ \A c \in Clients \ {ClientOf[t]} : Keeps(c)
<1> DEFINE r == op[t].request
<1>1. pc[t] = "prolong_request_lock" /\ UNCHANGED <<local, pc, holds, term, platform>>
  BY DEF AnswerProlong, Pending
<1>2. /\ r \in Requests /\ r \in Reserves(t) /\ holds[t] = NoRequest /\ My(t) \in ClientRecord
  BY <1>1, ReservesAt
<1>3. op[t].left \in [Requests -> Int]
  BY MyOpFits DEF IInv, OpRecord
<1>4. Becomes(t, My(t))
  BY <1>1, ClientStays DEF IInv
<1>5. CASE /\ platform[r] = "pending" /\ lock[r].owner \in {ClientOf[t], NoClient}
           /\ lock' = [lock EXCEPT ![r] = [owner |-> ClientOf[t], left |-> LockTime]]
           /\ op' = [op EXCEPT ![t] = [Reply(t) EXCEPT !.left[r] = LockTime]]
  <2> DEFINE o == [Reply(t) EXCEPT !.left[r] = LockTime]
  <2>1. o.left[r] = LockTime
    BY <1>2, <1>3, ReplyFits DEF OpRecord
  <2>2. LocksInv'
    BY <1>2, <1>5 DEF LeaseInv, LocksInv
  <2>3. \A c \in Clients \ {ClientOf[t]} : Keeps(c)
    BY <1>1, <1>2, <1>5 DEF Keeps, Firm, LeaseInv, LocksInv
  <2>4. ASSUME NEW q, NEW k, q # r, Firm(platform, lock, ClientOf[t], q, k)
        PROVE  Firm(platform', lock', ClientOf[t], q, k)
    BY <1>1, <1>2, <1>5, <2>4 DEF Firm, LeaseInv, LocksInv
  <2>5. Firm(platform', lock', ClientOf[t], r, LockTime)
    BY <1>1, <1>2, <1>5 DEF Firm, LeaseInv, LocksInv
  <2>6. r \notin Lies(My(t).head)
    BY <1>2, Unwaited
  <2>7. Awaits(t, pc[t], o)
    BY <1>1, <1>5 DEF Awaits, IInv, CallsInv
  <2> HIDE DEF o, r
  <2>8. WaitsLeased(ClientOf[t], My(t), Waits(My(t), pc[t], o), platform', lock')
    BY <1>1, <2>4, <2>6, HeadWaits DEF Waits, WaitsLeased
  <2>9. CallLeased(ClientOf[t], My(t), pc[t], o, holds[t], term[t], platform', lock')
    <3>1. o.request = r
      BY <1>5, ReplyFits DEF OpRecord, o, r
    <3>2. QED
      BY <1>1, <2>1, <2>5, <3>1 DEF CallLeased
  <2>10. HandLeased(ClientOf[t], holds[t], term[t], platform', lock')
    BY <1>2 DEF HandLeased
  <2>11. Leased(ClientOf[t], My(t), pc[t], o, holds'[t], term'[t], platform', lock')
    BY <1>1, <2>8, <2>9, <2>10 DEF Leased
  <2>12. QED
    BY <1>4, <2>2, <2>3, <2>7, <2>11 DEF Moved
<1>6. CASE op' = [op EXCEPT ![t] = [Reply(t) EXCEPT !.left[r] = NoLease]] /\ UNCHANGED lock
  <2> DEFINE o == [Reply(t) EXCEPT !.left[r] = NoLease]
  <2>1. o.left[r] = NoLease /\ o.request = r
    BY <1>2, <1>3, ReplyFits DEF OpRecord
  <2>2. CallLeased(ClientOf[t], My(t), pc[t], o, holds[t], term[t], platform', lock')
    <3> HIDE DEF o, r
    <3>1. QED
      BY <1>1, <2>1 DEF CallLeased
  <2>3. \A c : Keeps(c)
    BY <1>1, <1>6, AllKept
  <2>4. op' = [op EXCEPT ![t] = o]
    BY <1>6
  <2> HIDE DEF o
  <2>5. QED
    BY <1>1, <1>6, <2>2, <2>3, <2>4, AnswerMoves, LocksStay
<1>7. QED
  BY <1>5, <1>6 DEF AnswerProlong

LEMMA LeaseAnswerRead ==
  ASSUME IInv, LeaseInv, NEW t \in Tasks, AnswerRead(t)
  PROVE  Moved(t) /\ LocksInv' /\ \A c : Keeps(c)
<1>1. /\ pc[t] \in {"hydrate", "refetch", "metadata"}
      /\ UNCHANGED <<local, pc, holds, term, platform, lock>>
  BY DEF AnswerRead, Pending
<1>2. PICK o : op' = [op EXCEPT ![t] = o] /\ o.request = op[t].request
  <2>1. CASE op' = [op EXCEPT ![t] = Reply(t)]
    BY <2>1, ReplyFits
  <2>2. CASE op' = [op EXCEPT ![t].answered = TRUE]
    <3> DEFINE v == [op[t] EXCEPT !.answered = TRUE]
    <3>1. op' = [op EXCEPT ![t] = v] /\ v.request = op[t].request
      BY <2>2, MyOpFits DEF IInv, OpRecord
    <3> HIDE DEF v
    <3>2. QED
      BY <3>1
  <2>3. QED
    BY <2>1, <2>2 DEF AnswerRead
<1>3. CallLeased(ClientOf[t], My(t), pc[t], o, holds[t], term[t], platform', lock')
  BY <1>1, <1>2, HeadWaits DEF CallLeased
<1>4. \A c : Keeps(c)
  BY <1>1, AllKept
<1>5. QED
  BY <1>1, <1>2, <1>3, <1>4, AnswerMoves, LocksStay

LEMMA LeaseAnswerVerify ==
  ASSUME IInv, LeaseInv, NEW t \in Tasks, NEW q \in Requests, AnswerVerify(t, q)
  PROVE  Moved(t) /\ LocksInv' /\ \A c : Keeps(c)
<1>1. pc[t] = "verify" /\ UNCHANGED <<local, pc, holds, term, platform, lock>>
  BY DEF AnswerVerify
<1>2. PICK o : op' = [op EXCEPT ![t] = o]
  BY DEF AnswerVerify
<1>3. CallLeased(ClientOf[t], My(t), pc[t], o, holds[t], term[t], platform', lock')
  BY <1>1 DEF CallLeased
<1>4. \A c : Keeps(c)
  BY <1>1, AllKept
<1>5. QED
  BY <1>1, <1>2, <1>3, <1>4, AnswerMoves, LocksStay

(* An update meets the lock of its own client, which nobody else relies on, *)
(* and whose head does not have the request.                                *)
LEMMA LeaseAnswerUpdate ==
  ASSUME IInv, LeaseInv, NEW t \in Tasks, AnswerUpdate(t)
  PROVE  Moved(t) /\ LocksInv' /\ \A c \in Clients \ {ClientOf[t]} : Keeps(c)
<1> DEFINE r == op[t].request
<1>1. /\ pc[t] = "update_request" /\ ~op[t].answered /\ UNCHANGED <<local, pc, holds, term>>
      /\ op' = [op EXCEPT ![t] = Reply(t)]
  BY DEF AnswerUpdate, Pending
<1>2. /\ holds[t] = NoRequest /\ r \in Requests /\ r \notin Lies(My(t).head)
      /\ platform[r] = "pending" /\ lock[r].owner = ClientOf[t]
  BY <1>1, HeadWaits DEF CallLeased, Firm
<1>3. /\ platform' \in {[platform EXCEPT ![r] = "handled"], [platform EXCEPT ![r] = "pending"]}
      /\ lock' \in {lock, [lock EXCEPT ![r] = Unlocked]}
  BY DEF AnswerUpdate
<1>4. LocksInv'
  BY <1>2, <1>3 DEF LeaseInv, LocksInv, Unlocked
<1>5. ASSUME NEW q, NEW c, NEW k, q # r, Firm(platform, lock, c, q, k)
      PROVE  Firm(platform', lock', c, q, k)
  BY <1>2, <1>3, <1>5 DEF Firm, LeaseInv, LocksInv, IInv, PlatformInv
<1>6. \A c \in Clients \ {ClientOf[t]} : Keeps(c)
  BY <1>2, <1>5 DEF Keeps, Firm
<1>7. WaitsLeased(ClientOf[t], My(t), Waits(My(t), pc[t], Reply(t)), platform', lock')
  <2> HIDE DEF r
  <2>1. QED
    BY <1>1, <1>2, <1>5, HeadWaits DEF Waits, WaitsLeased
<1>8. /\ HandLeased(ClientOf[t], holds[t], term[t], platform', lock')
      /\ CallLeased(ClientOf[t], My(t), pc[t], Reply(t), holds[t], term[t], platform', lock')
  BY <1>1, <1>2, ReplyFits DEF HandLeased, CallLeased
<1>9. Leased(ClientOf[t], My(t), pc[t], Reply(t), holds'[t], term'[t], platform', lock')
  BY <1>1, <1>7, <1>8 DEF Leased
<1>10. Becomes(t, My(t)) /\ Awaits(t, pc[t], Reply(t))
  BY <1>1, ClientStays DEF IInv, Awaits, CallsInv
<1>11. QED
  BY <1>4, <1>6, <1>9, <1>10 DEF Moved

-----------------------------------------------------------------------------
(* Time passes on both sides alike, and only between calls.                 *)

LEMMA LeaseTick ==
  ASSUME IInv, LeaseInv, KeepsLease, Tick
  PROVE  LeaseInv'
<1>1. /\ UNCHANGED <<platform, pc, holds>> /\ \A t \in Tasks : pc[t] = "idle" /\ term[t] # 1
      /\ lock' = [r \in Requests |-> Lapses(lock[r])]
      /\ term' = [t \in Tasks |-> Down(term[t])]
  BY DEF Tick, LeaseKept, Idle
<1>2. LocksInv'
  BY <1>1 DEF LeaseInv, LocksInv, Lapses, Unlocked
<1>3. TermsInv'
  BY <1>1 DEF LeaseInv, TermsInv, Down
<1>4. ASSUME NEW c \in Clients, NEW r, NEW k \in Int, k > 1, Firm(platform, lock, c, r, k)
      PROVE  Firm(platform', lock', c, r, k - 1)
  <2>1. /\ r \in Requests /\ platform[r] = "pending" /\ lock[r].owner = c /\ lock[r].left >= k
        /\ lock[r] \in [owner : Clients \cup {NoClient}, left : Nat]
    BY <1>4 DEF Firm, LeaseInv, LocksInv
  <2>2. lock'[r] = [lock[r] EXCEPT !.left = @ - 1]
    BY <1>1, <1>4, <2>1 DEF Lapses
  <2>3. lock'[r].owner = c /\ lock'[r].left >= k - 1
    BY <1>4, <2>1, <2>2
  <2>4. QED
    BY <1>1, <2>1, <2>3 DEF Firm
<1>5. ASSUME NEW t \in Tasks
      PROVE  IsLeased(t)'
  <2>1. My(t) \in ClientRecord /\ ClientOf[t] \in Clients
    BY MyClientFits DEF IInv
  <2>2. /\ My(t)'.head = My(t).head
        /\ \A r \in Requests : My(t)'.cache[r].left = Down(My(t).cache[r].left)
    <3> DEFINE v == [My(t) EXCEPT
                 !.cache = [r \in Requests |-> Entry(@[r].hydrated, Down(@[r].left))]]
               k == [r \in Requests |->
                 Entry(My(t).cache[r].hydrated, Down(My(t).cache[r].left))]
    <3>1. My(t)' = v
      BY <2>1 DEF Tick, My
    <3>2. v = [My(t) EXCEPT !.cache = k]
      BY <2>1 DEF ClientRecord
    <3>3. \A r \in Requests : k[r].left = Down(My(t).cache[r].left)
      BY DEF Entry
    <3> HIDE DEF v, k
    <3>4. v.head = My(t).head /\ v.cache = k
      BY <2>1, <3>2 DEF ClientRecord
    <3>5. QED
      BY <3>1, <3>3, <3>4
  <2>3. /\ WaitsLeased(ClientOf[t], My(t), Lies(My(t).head), platform, lock)
        /\ HandLeased(ClientOf[t], holds[t], term[t], platform, lock)
    BY HeadWaits
  <2>4. WaitsLeased(ClientOf[t], My(t)', Lies(My(t)'.head), platform', lock')
    <3>1. ASSUME NEW r \in Lies(My(t).head), My(t)'.cache[r].left > 0
          PROVE  Firm(platform', lock', ClientOf[t], r, My(t)'.cache[r].left)
      <4>1. r \in Requests
        BY <2>1 DEF Lies, ClientRecord
      <4>2. My(t).cache[r].left \in Int
        BY <2>1, <4>1 DEF ClientRecord, EntryRecord
      <4>3. /\ My(t)'.cache[r].left = My(t).cache[r].left - 1
            /\ My(t).cache[r].left > 1
        BY <2>2, <3>1, <4>1, <4>2 DEF Down
      <4>4. Firm(platform, lock, ClientOf[t], r, My(t).cache[r].left)
        BY <2>3, <4>2, <4>3 DEF WaitsLeased
      <4>5. QED
        BY <1>4, <2>1, <4>2, <4>3, <4>4
    <3>2. QED
      BY <2>2, <3>1 DEF WaitsLeased
  <2>5. HandLeased(ClientOf[t], holds'[t], term'[t], platform', lock')
    <3>1. CASE holds[t] # NoRequest
      <4>1. term[t] \in Nat /\ term[t] > 1 /\ term'[t] = term[t] - 1
        BY <1>1, <2>3, <3>1 DEF LeaseInv, TermsInv, HandLeased, Down
      <4>2. Firm(platform', lock', ClientOf[t], holds[t], term'[t])
        BY <1>4, <2>1, <2>3, <3>1, <4>1 DEF HandLeased
      <4>3. QED
        BY <1>1, <4>1, <4>2 DEF HandLeased
    <3>2. QED
      BY <1>1, <3>1 DEF HandLeased
  <2>6. pc'[t] = "idle"
    BY <1>1
  <2>7. Leased(ClientOf[t], My(t)', "idle", op'[t], holds'[t], term'[t], platform', lock')
    BY <2>4, <2>5, ReturnLeased
  <2>8. QED
    BY <2>6, <2>7 DEF IsLeased
<1>6. QED
  BY <1>2, <1>3, <1>5 DEF LeaseInv

LEMMA LeaseInit == Init => LeaseInv
<1> SUFFICES ASSUME Init PROVE LeaseInv
  OBVIOUS
<1>1. LocksInv /\ TermsInv
  BY DEF Init, LocksInv, TermsInv, Unlocked
<1>2. ASSUME NEW t \in Tasks
      PROVE  IsLeased(t)
  <2>1. My(t).head = <<>> /\ pc[t] = "idle" /\ holds[t] = NoRequest
    BY DEF Init, My, NewClient
  <2>2. /\ WaitsLeased(ClientOf[t], My(t), Lies(My(t).head), platform, lock)
        /\ HandLeased(ClientOf[t], holds[t], term[t], platform, lock)
    BY <2>1, NothingLies DEF WaitsLeased, HandLeased
  <2>3. Leased(ClientOf[t], My(t), "idle", op[t], holds[t], term[t], platform, lock)
    BY <2>2, ReturnLeased
  <2>4. QED
    BY <2>1, <2>3 DEF IsLeased
<1>3. QED
  BY <1>1, <1>2 DEF LeaseInv

-----------------------------------------------------------------------------
(* Every step keeps to the leases.                                          *)

(* A step of t alone, which leaves the platform, and others' terms, as they *)
(* are.                                                                     *)
Shifts(t) ==
  /\ UNCHANGED <<platform, lock>> /\ TermsInv'
  /\ \A u \in Tasks \ {t} : holds'[u] = holds[u] /\ term'[u] = term[u]

LEMMA Unshifted ==
  ASSUME LeaseInv, UNCHANGED <<platform, lock, holds, term>>
  PROVE  \A t : Shifts(t)
BY DEF Shifts, LeaseInv, TermsInv

LEMMA CallShifts ==
  ASSUME IInv, HandInv, LeaseInv, HeadsSpareInProgress, NEW t \in Tasks, Call(t)
  PROVE  Moved(t) /\ Shifts(t)
<1>1. CASE CallAdd(t) \/ CallFetch(t) \/ CallFinished(t)
  <2>1. UNCHANGED <<platform, lock, holds, term>>
    BY <1>1 DEF CallAdd, CallFetch, CallFinished
  <2>2. QED
    BY <1>1, <2>1, Unshifted, LeaseCallAdd, LeaseCallFetch, LeaseCallFinished
<1>2. ASSUME NEW call \in {"mark", "reclaim"}, GivesUp(t, call), holds[t] # NoRequest
      PROVE  Moved(t) /\ Shifts(t)
  <2>1. /\ UNCHANGED <<platform, lock, term>>
        /\ \A u \in Tasks \ {t} : holds'[u] = holds[u]
    BY <1>2, GivenUp
  <2>2. Shifts(t)
    BY <2>1 DEF Shifts, LeaseInv, TermsInv
  <2>3. QED
    BY <1>2, <2>2, LeaseGivesUp
<1>3. QED
  BY <1>1, <1>2 DEF Call, CallMark, CallReclaim

LEMMA ResumeShifts ==
  ASSUME IInv, HandInv, LeaseInv, HeadsSpareInProgress, OneTaskEach, NEW t \in Tasks, Resume(t)
  PROVE  Moved(t) /\ Shifts(t)
<1>1. CASE \/ BatchAnswered(t) \/ AddReturns(t) \/ FetchHeadListed(t) \/ Prolonged(t)
           \/ Hydrated(t) \/ FinishedHeadListed(t) \/ Verified(t)
  <2>1. UNCHANGED <<platform, lock, holds, term>>
    BY <1>1 DEF BatchAnswered, AddReturns, FetchHeadListed, Prolonged, Hydrated,
                FinishedHeadListed, Verified
  <2>2. QED
    BY <1>1, <2>1, Unshifted, LeaseBatchAnswered, LeaseAddReturns, LeaseFetchHeadListed,
       LeaseProlonged, LeaseHydrated, LeaseFinishedHeadListed, LeaseVerified
<1>2. CASE Refetched(t)
  <2>1. Shifts(t)
    BY <1>2 DEF Refetched, Shifts, LeaseInv, TermsInv, IInv, HoldsInv
  <2>2. QED
    BY <1>2, <2>1, LeaseRefetched
<1>3. CASE Updated(t)
  <2>1. Shifts(t)
    BY <1>3 DEF Updated, Shifts, LeaseInv, TermsInv
  <2>2. QED
    BY <1>3, <2>1, LeaseUpdated
<1>4. QED
  BY <1>1, <1>2, <1>3 DEF Resume

LEMMA AnswerKeeps ==
  ASSUME IInv, HandInv, LeaseInv, HeadsSpareInProgress, OneTaskEach, NEW t \in Tasks, Answer(t)
  PROVE  LeaseInv'
<1>1. /\ Moved(t) /\ LocksInv' /\ \A c \in Clients \ {ClientOf[t]} : Keeps(c)
  BY LeaseAnswerBatch, LeaseAnswerListing, LeaseAnswerProlong, LeaseAnswerRead,
     LeaseAnswerVerify, LeaseAnswerUpdate DEF Answer
<1>2. UNCHANGED <<holds, term>>
  BY DEF Answer, AnswerBatch, AnswerListing, AnswerProlong, AnswerRead, AnswerVerify, AnswerUpdate
<1>3. TermsInv'
  BY <1>2 DEF LeaseInv, TermsInv
<1>4. PICK l, at, o : /\ Becomes(t, l) /\ Awaits(t, at, o)
                      /\ Leased(ClientOf[t], l, at, o, holds'[t], term'[t], platform', lock')
  BY <1>1 DEF Moved
<1>5. ClientOf[t] \in Clients
  OBVIOUS
<1>6. QED
  BY <1>1, <1>2, <1>3, <1>4, LeaseStep

LEMMA LeaseIsKept ==
  ASSUME KeepsLease, OneTaskEach
  PROVE  IInv /\ HandInv /\ LeaseInv /\ HeadsSpareInProgress /\ [Next]_vars => LeaseInv'
<1> SUFFICES ASSUME IInv, HandInv, LeaseInv, HeadsSpareInProgress, [Next]_vars
             PROVE  LeaseInv'
  OBVIOUS
<1>1. ASSUME NEW t \in Tasks, Moved(t), Shifts(t)
      PROVE  LeaseInv'
  BY <1>1, MovedStep DEF Shifts
<1>2. ASSUME NEW t \in Tasks, Call(t) \/ Resume(t)
      PROVE  LeaseInv'
  BY <1>1, <1>2, CallShifts, ResumeShifts
<1>3. ASSUME NEW t \in Tasks, Fail(t)
      PROVE  LeaseInv'
  <2>1. Moved(t) /\ Shifts(t)
    BY <1>3, LeaseFail DEF Shifts
  <2>2. QED
    BY <1>1, <2>1
<1>4. CASE UNCHANGED vars
  BY <1>4 DEF vars, taskVars, LeaseInv, LocksInv, TermsInv, IsLeased, My
<1>5. QED
  BY <1>2, <1>3, <1>4, AnswerKeeps, LeaseTick DEF Next

-----------------------------------------------------------------------------
(* The clients are a work queue to their tasks.                             *)

Queued == {r \in Requests : platform[r] # "absent"}
Finished == {r \in Requests : platform[r] = "handled"}
Holder == [t \in Tasks |-> Processes(t)]

Inv == IInv /\ HandInv /\ LeaseInv /\ HeadsSpareInProgress

(* A step of t changes what t processes and nothing else.                   *)
LEMMA HolderMoves ==
  ASSUME IInv, NEW t \in Tasks, NEW at, NEW o, Awaits(t, at, o),
         \A u \in Tasks \ {t} : holds'[u] = holds[u] /\ term'[u] = term[u]
  PROVE  /\ Holder' = [Holder EXCEPT ![t] = Processes(t)']
         /\ Processes(t)' = IF term'[t] = 0 THEN NoRequest
                            ELSE IF at = "update_request" /\ ~o.answered /\ o.call = "mark"
                            THEN o.request ELSE holds'[t]
<1>1. /\ pc'[t] = at /\ op'[t] = o
      /\ \A u \in Tasks \ {t} : pc'[u] = pc[u] /\ op'[u] = op[u]
  BY OthersStay
<1>2. ASSUME NEW u \in Tasks \ {t}
      PROVE  Processes(u)' = Processes(u)
  BY <1>1 DEF Processes, Pending
<1>3. Processes(t)' = IF term'[t] = 0 THEN NoRequest
                      ELSE IF at = "update_request" /\ ~o.answered /\ o.call = "mark"
                      THEN o.request ELSE holds'[t]
  BY <1>1 DEF Processes, Pending
<1>4. Holder' = [u \in Tasks |-> IF u = t THEN Processes(t)' ELSE Holder[u]]
  BY <1>2 DEF Holder
<1>5. Holder = [u \in Tasks |-> Holder[u]]
  BY DEF Holder
<1>6. QED
  BY <1>3, <1>4, <1>5

(* What the task is rid of is available again.                              *)
LEMMA Releases ==
  ASSUME IInv, NEW t \in Tasks, Holder' = [Holder EXCEPT ![t] = Processes(t)'],
         UNCHANGED platform, Processes(t)' \in {Processes(t), NoRequest}
  PROVE  Work!Next
<1>1. UNCHANGED <<Queued, Finished>> /\ Holder = [u \in Tasks |-> Holder[u]]
      /\ Holder[t] = Processes(t)
  BY DEF Queued, Finished, Holder
<1>2. PICK W \in SUBSET Tasks :
        Holder' = [u \in Tasks |-> IF u \in W THEN NoRequest ELSE Holder[u]]
  <2> HIDE DEF Holder
  <2>1. CASE Processes(t)' = NoRequest
    <3>1. Holder' = [u \in Tasks |-> IF u \in {t} THEN NoRequest ELSE Holder[u]]
      BY <1>1, <2>1
    <3>2. {t} \in SUBSET Tasks
      OBVIOUS
    <3>3. QED
      BY <3>1, <3>2
  <2>2. CASE Processes(t)' = Processes(t)
    <3>1. Holder' = [u \in Tasks |-> IF u \in {} THEN NoRequest ELSE Holder[u]]
      BY <1>1, <2>2
    <3>2. {} \in SUBSET Tasks
      OBVIOUS
    <3>3. QED
      BY <3>1, <3>2
  <2>3. QED
    BY <2>1, <2>2
<1>3. Work!Release(W)
  BY <1>1, <1>2 DEF Work!Release, Queued, Finished, Holder
<1>4. QED
  BY <1>3 DEF Work!Next

(* A step before which and after which the task has no update pending.      *)
LEMMA Unmarked ==
  ASSUME IInv, NEW t \in Tasks, UNCHANGED <<platform, holds, term>>, pc[t] # "update_request",
         \E at, o : Awaits(t, at, o) /\ at # "update_request"
  PROVE  Work!Next
<1>1. PICK at, o : Awaits(t, at, o) /\ at # "update_request"
  OBVIOUS
<1>2. /\ Holder' = [Holder EXCEPT ![t] = Processes(t)']
      /\ Processes(t)' = IF term[t] = 0 THEN NoRequest ELSE holds[t]
  BY <1>1, HolderMoves
<1>3. Processes(t) = IF term[t] = 0 THEN NoRequest ELSE holds[t]
  BY DEF Processes, Pending
<1>4. QED
  BY <1>2, <1>3, Releases

(* Each step of a call, but for those that are about a hand-out.            *)
LEMMA OtherSteps ==
  ASSUME IInv, OneTaskEach, NEW t \in Tasks,
         \/ CallAdd(t) \/ CallFetch(t) \/ CallFinished(t)
         \/ BatchAnswered(t) \/ AddReturns(t) \/ FetchHeadListed(t) \/ Prolonged(t)
         \/ Hydrated(t) \/ FinishedHeadListed(t) \/ Verified(t)
  PROVE  Work!Next
<1>1. UNCHANGED <<platform, holds, term>>
  BY DEF CallAdd, CallFetch, CallFinished, BatchAnswered, AddReturns, FetchHeadListed, Prolonged,
         Hydrated, FinishedHeadListed, Verified
<1>2. pc[t] # "update_request"
  BY DEF CallAdd, CallFetch, CallFinished, BatchAnswered, AddReturns, FetchHeadListed, Prolonged,
         Hydrated, FinishedHeadListed, Verified, Idle, Answered
<1>3. ASSUME NEW r, NEW l, LookUp(t, r, l)
      PROVE  \E at, o : Awaits(t, at, o) /\ at # "update_request"
  BY <1>3 DEF LookUp, Returns
<1>4. ASSUME NEW l, Pick(t, l)
      PROVE  \E at, o : Awaits(t, at, o) /\ at # "update_request"
  <2>1. CASE Returns(t)
    BY <2>1 DEF Returns
  <2>2. CASE \E o : Awaits(t, "prolong_request_lock", o)
    BY <2>2
  <2>3. CASE \E r, v : LookUp(t, r, v)
    BY <1>3, <2>3
  <2>4. CASE Eligible(l) # {} /\ ~Returns(t)
    <3>1. PICK i \in Eligible(l) :
            LET r == l.head[i]
                reserved == [l EXCEPT !.head = SubSeq(@, i + 1, Len(@)), !.inProgress = @ \cup {r}]
            IN  IF WindowSuffices(l.cache[r].left) THEN LookUp(t, r, reserved)
                ELSE /\ Becomes(t, reserved)
                     /\ Awaits(t, "prolong_request_lock", [NewOp("fetch") EXCEPT !.request = r])
      BY <1>4, <2>4 DEF Pick
    <3> DEFINE r == l.head[i]
               reserved == [l EXCEPT !.head = SubSeq(@, i + 1, Len(@)), !.inProgress = @ \cup {r}]
               o == [NewOp("fetch") EXCEPT !.request = r]
    <3>2. LookUp(t, r, reserved) \/ Awaits(t, "prolong_request_lock", o)
      BY <3>1
    <3> HIDE DEF r, reserved, o
    <3>3. QED
      BY <2>2, <2>3, <3>2
  <2>5. QED
    BY <1>4, <2>1, <2>4 DEF Pick
<1>5. \E at, o : Awaits(t, at, o) /\ at # "update_request"
  <2>1. CASE CallAdd(t)
    <3>1. \E at \in {"idle", "batch_add", "in_flight"} : \E o : Awaits(t, at, o)
      BY <2>1 DEF CallAdd, Returns
    <3>2. QED
      BY <3>1
  <2>2. CASE CallFetch(t)
    BY <1>4, <2>2 DEF CallFetch, List
  <2>3. CASE CallFinished(t)
    BY <2>3, ConcludesAwaits DEF CallFinished, List
  <2>4. CASE BatchAnswered(t)
    BY <2>4, SettleAwaits DEF BatchAnswered, IInv
  <2>5. CASE AddReturns(t)
    BY <2>5 DEF AddReturns, Returns
  <2>6. CASE FetchHeadListed(t)
    BY <1>4, <2>6 DEF FetchHeadListed
  <2>7. CASE Prolonged(t)
    BY <1>3, <2>7 DEF Prolonged, Returns
  <2>8. CASE Hydrated(t)
    BY <2>8 DEF Hydrated, Returns
  <2>9. CASE FinishedHeadListed(t)
    BY <2>9, ConcludesAwaits DEF FinishedHeadListed
  <2>10. CASE Verified(t)
    BY <2>10, VerdictAwaits DEF Verified
  <2>11. QED
    BY <2>1, <2>2, <2>3, <2>4, <2>5, <2>6, <2>7, <2>8, <2>9, <2>10
<1>6. QED
  BY <1>1, <1>2, <1>5, Unmarked

LEMMA AnswersRefine ==
  ASSUME IInv, NEW t \in Tasks,
         \/ AnswerListing(t) \/ AnswerProlong(t) \/ AnswerRead(t)
         \/ \E r \in Requests : AnswerVerify(t, r)
  PROVE  Work!Next
<1>1. UNCHANGED <<platform, holds, term, pc>> /\ pc[t] # "update_request"
  BY DEF AnswerListing, AnswerProlong, AnswerRead, AnswerVerify, Pending
<1>2. PICK o : op' = [op EXCEPT ![t] = o]
  BY DEF AnswerListing, AnswerProlong, AnswerRead, AnswerVerify
<1>3. Awaits(t, pc[t], o)
  BY <1>1, <1>2 DEF Awaits, IInv, CallsInv
<1>4. QED
  BY <1>1, <1>3, Unmarked

LEMMA BatchRefines ==
  ASSUME IInv, NEW t \in Tasks, AnswerBatch(t)
  PROVE  Work!Next
<1>1. /\ pc[t] = "batch_add" /\ UNCHANGED <<pc, holds, term>> /\ \E o : op' = [op EXCEPT ![t] = o]
      /\ \A r \in Requests : /\ platform[r] # "absent" => platform'[r] = platform[r]
                             /\ platform[r] = "absent" => platform'[r] # "handled"
  BY DEF AnswerBatch, Pending
<1>2. PICK o : op' = [op EXCEPT ![t] = o]
  BY <1>1
<1>3. Awaits(t, "batch_add", o)
  BY <1>1, <1>2 DEF Awaits, IInv, CallsInv
<1>4. /\ Holder' = [Holder EXCEPT ![t] = Processes(t)']
      /\ Processes(t)' = Processes(t)
  BY <1>1, <1>3, HolderMoves DEF Processes, Pending
<1>5. UNCHANGED Holder
  BY <1>4 DEF Holder
<1>6. Queued \subseteq Queued' /\ Queued' \subseteq Requests /\ UNCHANGED Finished
  BY <1>1 DEF Queued, Finished
<1>7. Work!Enqueue
  BY <1>5, <1>6 DEF Work!Enqueue, Queued, Finished, Holder
<1>8. QED
  BY <1>7 DEF Work!Next

(* The task still processes what it is about to mark; what it reclaims it   *)
(* gives back now.                                                          *)
LEMMA GivesUpRefines ==
  ASSUME Inv, NEW t \in Tasks, NEW call \in {"mark", "reclaim"}, GivesUp(t, call), Idle(t),
         holds[t] # NoRequest
  PROVE  Work!Next
<1>1. /\ UNCHANGED <<platform, lock, term>> /\ holds'[t] = NoRequest
      /\ \A u \in Tasks \ {t} : holds'[u] = holds[u]
  BY GivenUp DEF Inv
<1>2. PICK o : /\ Awaits(t, "update_request", o) /\ o.request = holds[t]
               /\ o.call = call /\ ~o.answered
  BY GivenUp DEF Inv
<1>3. /\ Holder' = [Holder EXCEPT ![t] = Processes(t)']
      /\ Processes(t)' \in {IF term[t] = 0 THEN NoRequest ELSE holds[t], NoRequest}
  BY <1>1, <1>2, HolderMoves DEF Inv
<1>4. Processes(t) = IF term[t] = 0 THEN NoRequest ELSE holds[t]
  BY DEF Processes, Pending, Idle
<1>5. QED
  BY <1>1, <1>3, <1>4, Releases DEF Inv

(* What a task processes is locked for its client, hence for its own.       *)
LEMMA ProcessedLeased ==
  ASSUME Inv, NEW t \in Tasks, Processes(t) # NoRequest
  PROVE  Firm(platform, lock, ClientOf[t], Processes(t), term[t])
<1>1. CASE Pending(t, "update_request")
  BY <1>1, HeadWaits DEF Inv, Processes, Pending, CallLeased
<1>2. CASE ~Pending(t, "update_request")
  BY <1>2, HeadWaits DEF Inv, Processes, HandLeased
<1>3. QED
  BY <1>1, <1>2

LEMMA RefetchedRefines ==
  ASSUME Inv, OneTaskEach, NEW t \in Tasks, Refetched(t)
  PROVE  Work!Next
<1> DEFINE r == op[t].request
<1>1. /\ UNCHANGED <<platform, lock>> /\ pc[t] = "refetch" /\ Awaits(t, "idle", NoOp)
  BY DEF Refetched, Answered, Returns
<1>2. r \in Requests /\ holds[t] = NoRequest
  BY <1>1, ReservesAt DEF Inv
<1>3. Processes(t) = NoRequest
  BY <1>1, <1>2 DEF Processes, Pending
<1>4. CASE UNCHANGED <<holds, term>>
  BY <1>1, <1>4, Unmarked DEF Inv
<1>5. CASE holds' = [holds EXCEPT ![t] = r] /\ term' = [term EXCEPT ![t] = HandoffTime]
  <2>1. /\ holds'[t] = r /\ term'[t] = HandoffTime
        /\ \A u \in Tasks \ {t} : holds'[u] = holds[u] /\ term'[u] = term[u]
    BY <1>5 DEF Inv, IInv, HoldsInv, LeaseInv, TermsInv
  <2>2. /\ Holder' = [Holder EXCEPT ![t] = Processes(t)']
        /\ Processes(t)' = r
    BY <1>1, <2>1, HolderMoves DEF Inv
  <2>3. Firm(platform, lock, ClientOf[t], r, HandoffTime)
    BY <1>1, HeadWaits DEF Inv, CallLeased
  <2>4. ASSUME NEW u \in Tasks
        PROVE  Holder[u] # r
    <3>1. CASE u = t
      BY <1>2, <1>3, <3>1 DEF Holder
    <3>2. CASE u # t /\ Processes(u) = r
      <4>1. Firm(platform, lock, ClientOf[u], r, term[u])
        BY <1>2, <3>2, ProcessedLeased
      <4>2. ClientOf[u] = ClientOf[t]
        BY <2>3, <4>1 DEF Firm
      <4>3. QED
        BY <3>2, <4>2 DEF OneTaskEach, SameClient
    <3>3. QED
      BY <3>1, <3>2 DEF Holder
  <2>5. r \in Queued \ Finished /\ UNCHANGED <<Queued, Finished>>
    BY <1>1, <2>3 DEF Queued, Finished, Firm
  <2>6. Holder[t] = NoRequest
    BY <1>3 DEF Holder
  <2>7. Work!Hand(t, r)
    BY <2>2, <2>4, <2>5, <2>6 DEF Work!Hand, Work!Free, Queued, Finished, Holder
  <2>8. QED
    BY <1>2, <2>7 DEF Work!Next
<1>6. QED
  BY <1>4, <1>5 DEF Refetched

(* A mark that reaches the platform finishes what its task processes; a     *)
(* reclaim leaves the request pending, as it was.                           *)
LEMMA UpdateRefines ==
  ASSUME Inv, NEW t \in Tasks, AnswerUpdate(t)
  PROVE  Work!Next
<1> DEFINE r == op[t].request
<1>1. /\ pc[t] = "update_request" /\ ~op[t].answered /\ UNCHANGED <<local, pc, holds, term>>
      /\ op' = [op EXCEPT ![t] = Reply(t)]
  BY DEF AnswerUpdate, Pending
<1>2. /\ holds[t] = NoRequest /\ term[t] > 0 /\ platform[r] = "pending" /\ r \in Requests
  BY <1>1, HeadWaits DEF Inv, CallLeased, Firm
<1>3. Awaits(t, "update_request", Reply(t)) /\ Reply(t).answered
  BY <1>1, ReplyFits DEF Awaits, Inv, IInv, CallsInv
<1>4. /\ Holder' = [Holder EXCEPT ![t] = Processes(t)']
      /\ Processes(t)' = NoRequest
  BY <1>1, <1>2, <1>3, HolderMoves DEF Inv
<1>5. CASE op[t].call = "mark"
  <2>1. platform' = [platform EXCEPT ![r] = "handled"]
    BY <1>5 DEF AnswerUpdate
  <2>2. UNCHANGED Queued /\ Finished' = Finished \cup {r}
    BY <1>2, <2>1 DEF Queued, Finished, Inv, IInv, PlatformInv
  <2>3. Holder[t] = r
    BY <1>1, <1>2, <1>5 DEF Holder, Processes, Pending
  <2>4. Work!Finish(t)
    BY <1>2, <1>4, <2>2, <2>3 DEF Work!Finish, Queued, Finished, Holder
  <2>5. QED
    BY <2>4 DEF Work!Next
<1>6. CASE op[t].call # "mark"
  <2>1. platform' = [platform EXCEPT ![r] = "pending"]
    BY <1>6 DEF AnswerUpdate
  <2>2. UNCHANGED platform
    BY <1>2, <2>1 DEF Inv, IInv, PlatformInv
  <2>3. QED
    BY <1>4, <2>2, Releases DEF Inv
<1>7. QED
  BY <1>5, <1>6

LEMMA UpdatedRefines ==
  ASSUME Inv, NEW t \in Tasks, Updated(t)
  PROVE  Work!Next
<1>1. /\ Awaits(t, "idle", NoOp) /\ UNCHANGED <<platform, holds>>
      /\ \A u \in Tasks \ {t} : term'[u] = term[u]
  BY DEF Updated, Returns, Inv, LeaseInv, TermsInv
<1>2. holds[t] = NoRequest
  BY HeadWaits DEF Updated, Answered, Inv, CallLeased
<1>3. /\ Holder' = [Holder EXCEPT ![t] = Processes(t)']
      /\ Processes(t)' = NoRequest
  BY <1>1, <1>2, HolderMoves DEF Inv
<1>4. QED
  BY <1>1, <1>3, Releases DEF Inv

LEMMA FailRefines ==
  ASSUME Inv, OneTaskEach, NEW t \in Tasks, Fail(t)
  PROVE  Work!Next
<1>1. /\ UNCHANGED <<platform, holds>> /\ \A u \in Tasks \ {t} : term'[u] = term[u]
  BY LeaseFail DEF Inv
<1>2. Awaits(t, "idle", NoOp)
  BY SettleAwaits DEF Fail, Returns, Inv, IInv
<1>3. /\ Holder' = [Holder EXCEPT ![t] = Processes(t)']
      /\ Processes(t)' = IF term'[t] = 0 THEN NoRequest ELSE holds[t]
  BY <1>1, <1>2, HolderMoves DEF Inv
<1>4. CASE holds[t] = NoRequest
  BY <1>1, <1>3, <1>4, Releases DEF Inv
<1>5. CASE holds[t] # NoRequest
  <2>1. term'[t] = term[t] /\ pc[t] # "update_request"
    BY <1>5, HeadWaits DEF Fail, Inv, LeaseInv, TermsInv, CallLeased
  <2>2. Processes(t) = IF term[t] = 0 THEN NoRequest ELSE holds[t]
    BY <2>1 DEF Processes, Pending
  <2>3. QED
    BY <1>1, <1>3, <2>1, <2>2, Releases DEF Inv
<1>6. QED
  BY <1>4, <1>5

(* Nothing that a task processes runs out of time.                          *)
LEMMA TickRefines ==
  ASSUME Inv, KeepsLease, Tick
  PROVE  UNCHANGED Work!vars
<1>1. /\ UNCHANGED <<platform, pc, holds>> /\ \A t \in Tasks : pc[t] = "idle" /\ term[t] # 1
      /\ term' = [t \in Tasks |-> Down(term[t])]
  BY DEF Tick, LeaseKept, Idle
<1>2. ASSUME NEW t \in Tasks
      PROVE  Processes(t)' = Processes(t)
  <2>1. term'[t] = 0 <=> term[t] = 0
    BY <1>1 DEF Inv, LeaseInv, TermsInv, Down
  <2>2. QED
    BY <1>1, <2>1 DEF Processes, Pending
<1>3. UNCHANGED Holder
  BY <1>2 DEF Holder
<1>4. UNCHANGED <<Queued, Finished>>
  BY <1>1 DEF Queued, Finished
<1>5. QED
  BY <1>3, <1>4 DEF Work!vars, Queued, Finished, Holder

LEMMA StepRefines ==
  ASSUME KeepsLease, OneTaskEach
  PROVE  Inv /\ [Next]_vars => [Work!Next]_(Work!vars)
<1> SUFFICES ASSUME Inv, [Next]_vars
             PROVE  Work!Next \/ UNCHANGED Work!vars
  OBVIOUS
<1>1. ASSUME NEW t \in Tasks, Call(t)
      PROVE  Work!Next
  BY <1>1, OtherSteps, GivesUpRefines DEF Call, CallMark, CallReclaim, Inv
<1>2. ASSUME NEW t \in Tasks, Answer(t)
      PROVE  Work!Next
  BY <1>2, AnswersRefine, BatchRefines, UpdateRefines DEF Answer, Inv
<1>3. ASSUME NEW t \in Tasks, Resume(t)
      PROVE  Work!Next
  BY <1>3, OtherSteps, RefetchedRefines, UpdatedRefines DEF Resume, Inv
<1>4. CASE UNCHANGED vars
  BY <1>4 DEF vars, taskVars, Work!vars, Processes, Pending
<1>5. QED
  BY <1>1, <1>2, <1>3, <1>4, FailRefines, TickRefines DEF Next

LEMMA InitRefines == Init => Work!Init
<1> SUFFICES ASSUME Init PROVE Work!Init
  OBVIOUS
<1>1. Holder = [t \in Tasks |-> NoRequest]
  BY DEF Init, Holder, Processes
<1>2. Queued \subseteq Requests /\ Finished \subseteq Queued
  BY DEF Queued, Finished
<1>3. QED
  BY <1>1, <1>2 DEF Work!Init, Queued, Finished, Holder

LEMMA HandAlways == Spec => []HandInv
<1>1. IInv /\ HandInv /\ [Next]_vars => HandInv'
  BY HandStep
<1>2. QED
  BY <1>1, HandInit, Always, PTL DEF Spec

LEMMA InvAlways ==
  ASSUME KeepsLease, OneTaskEach
  PROVE  Spec /\ []HeadsSpareInProgress => []Inv
<1>1. IInv /\ HandInv /\ LeaseInv /\ HeadsSpareInProgress /\ [Next]_vars => LeaseInv'
  BY LeaseIsKept
<1>2. QED
  BY <1>1, LeaseInit, Always, HandAlways, PTL DEF Spec, Inv

(* Every behaviour of the clients, their tasks and the platform is one of   *)
(* the abstract work queue: a request is in the hands of one task of all    *)
(* clients at a time, and of none once it is handled, although the clients  *)
(* share nothing but the locks of a platform that may be late or fail.      *)
THEOREM Implements ==
  ASSUME KeepsLease, OneTaskEach
  PROVE  Spec /\ []HeadsSpareInProgress => ImplementsWorkQueue
<1>1. Inv /\ [Next]_vars => [Work!Next]_(Work!vars)
  BY StepRefines
<1>2. QED
  BY <1>1, InvAlways, InitRefines, PTL DEF Spec, ImplementsWorkQueue, Work!Spec

-----------------------------------------------------------------------------
(* Nobody reclaims to the forefront.  Then a head is listed only when it is *)
(* empty, so that it never has a request twice or one in progress.          *)

NoneAtForefront == \A c \in Clients : ~local[c].forefront

Tidy(l) == IsInjective(l.head) /\ \A i \in DOMAIN l.head : l.head[i] \notin l.inProgress

ListsAnew(l, at, o) == at = "list_and_lock_head" => l.head = <<>> /\ o.rest = <<>>

TidyInv ==
  /\ \A c \in Clients : Tidy(local[c])
  /\ \A t \in Tasks : ListsAnew(My(t), pc[t], op[t])

(* A step of t, alone at its client, that leaves the head tidy.             *)
Tidied(t) ==
  \E l, at, o : Becomes(t, l) /\ Awaits(t, at, o) /\ Tidy(l) /\ ListsAnew(l, at, o)

LEMMA TidyStep ==
  ASSUME IInv, TidyInv, OneTaskEach, NEW t \in Tasks, Tidied(t)
  PROVE  TidyInv'
<1>1. PICK l, at, o : Becomes(t, l) /\ Awaits(t, at, o) /\ Tidy(l) /\ ListsAnew(l, at, o)
  BY DEF Tidied
<1>2. /\ pc'[t] = at /\ op'[t] = o
      /\ \A u \in Tasks \ {t} : pc'[u] = pc[u] /\ op'[u] = op[u]
  BY <1>1, OthersStay
<1>3. /\ local'[ClientOf[t]] = l
      /\ \A c \in Clients \ {ClientOf[t]} : local'[c] = local[c]
  BY <1>1 DEF Becomes, IInv, ClientsInv
<1>4. ASSUME NEW u \in Tasks \ {t}
      PROVE  ClientOf[u] \in Clients \ {ClientOf[t]}
  BY DEF OneTaskEach, SameClient
<1>5. \A c \in Clients : Tidy(local[c])'
  BY <1>1, <1>3 DEF TidyInv, Tidy
<1>6. \A u \in Tasks : ListsAnew(My(u), pc[u], op[u])'
  BY <1>1, <1>2, <1>3, <1>4 DEF TidyInv, ListsAnew, My
<1>7. QED
  BY <1>5, <1>6 DEF TidyInv

LEMMA TidyElsewhere ==
  ASSUME NEW t \in Tasks, NEW l, NEW at, NEW o, Becomes(t, l), Awaits(t, at, o), Tidy(l),
         at # "list_and_lock_head"
  PROVE  Tidied(t)
<1>1. ListsAnew(l, at, o)
  BY DEF ListsAnew
<1>2. QED
  BY <1>1 DEF Tidied

LEMMA TidyShrinks ==
  ASSUME NEW l, NEW v, Tidy(l), v.head = l.head, v.inProgress \subseteq l.inProgress
  PROVE  Tidy(v)
BY DEF Tidy

LEMMA TidyMine ==
  ASSUME IInv, TidyInv, NEW t \in Tasks
  PROVE  Tidy(My(t)) /\ My(t) \in ClientRecord
BY MyClientFits DEF TidyInv, My, IInv

(* A step after which the head is what it was.                              *)
LEMMA TidyStays ==
  ASSUME IInv, TidyInv, NEW t \in Tasks, NEW l, NEW at, NEW o, Becomes(t, l), Awaits(t, at, o),
         at # "list_and_lock_head", l.head = My(t).head,
         l.inProgress \subseteq My(t).inProgress
  PROVE  Tidied(t)
BY TidyMine, TidyShrinks, TidyElsewhere

LEMMA TidyUntouched ==
  ASSUME IInv, TidyInv, NEW t \in Tasks, NEW at, NEW o, UNCHANGED local, Awaits(t, at, o),
         at # "list_and_lock_head"
  PROVE  Tidied(t)
BY ClientStays, TidyStays DEF IInv

LEMMA DiscardKeeps ==
  ASSUME NEW l \in ClientRecord, NEW r
  PROVE  Discard(l, r).head = l.head /\ Discard(l, r).inProgress \subseteq l.inProgress
BY DEF Discard, ClientRecord

LEMMA TidyDiscards ==
  ASSUME NEW t \in Tasks, NEW l \in ClientRecord, NEW r, Tidy(l),
         Becomes(t, Discard(l, r)), Returns(t)
  PROVE  Tidied(t)
<1>1. Tidy(Discard(l, r))
  BY DiscardKeeps, TidyShrinks
<1>2. QED
  BY <1>1, TidyElsewhere DEF Returns

LEMMA TidyLookUp ==
  ASSUME NEW t \in Tasks, NEW l \in ClientRecord, NEW r, Tidy(l), LookUp(t, r, l)
  PROVE  Tidied(t)
<1>1. \/ \E at \in {"hydrate", "refetch"} : \E o : Becomes(t, l) /\ Awaits(t, at, o)
      \/ Becomes(t, Discard(l, r)) /\ Returns(t)
  BY DEF LookUp
<1>2. ASSUME NEW at \in {"hydrate", "refetch"}, NEW o, Becomes(t, l), Awaits(t, at, o)
      PROVE  Tidied(t)
  BY <1>2, TidyElsewhere
<1>3. QED
  BY <1>1, <1>2, TidyDiscards

LEMMA TidyPick ==
  ASSUME NEW t \in Tasks, NEW l \in ClientRecord, Tidy(l), Pick(t, l)
  PROVE  Tidied(t)
<1>1. CASE Becomes(t, [l EXCEPT !.head = <<>>]) /\ Returns(t)
  <2> DEFINE v == [l EXCEPT !.head = <<>>]
  <2>1. v.head = <<>>
    BY DEF ClientRecord
  <2> HIDE DEF v
  <2>2. Tidy(v)
    BY <2>1 DEF Tidy, IsInjective
  <2>3. QED
    BY <1>1, <2>2, TidyElsewhere DEF Returns, v
<1>2. ASSUME NEW i \in Eligible(l),
             LET r == l.head[i]
                 reserved == [l EXCEPT !.head = SubSeq(@, i + 1, Len(@)),
                                       !.inProgress = @ \cup {r}]
             IN  IF WindowSuffices(l.cache[r].left) THEN LookUp(t, r, reserved)
                 ELSE /\ Becomes(t, reserved)
                      /\ Awaits(t, "prolong_request_lock", [NewOp("fetch") EXCEPT !.request = r])
      PROVE  Tidied(t)
  <2> DEFINE r == l.head[i]
             rest == SubSeq(l.head, i + 1, Len(l.head))
             s == l.inProgress \cup {r}
             reserved == [l EXCEPT !.head = SubSeq(@, i + 1, Len(@)), !.inProgress = @ \cup {r}]
  <2>1. i \in DOMAIN l.head /\ l.head \in Seq(Requests)
    BY <1>2 DEF Eligible, ClientRecord
  <2>2. r \in Requests /\ rest \in Seq(Requests)
    BY <2>1, RestIsSequence
  <2>3. s \in SUBSET Requests
    BY <2>2 DEF ClientRecord
  <2>4. reserved = [l EXCEPT !.head = rest, !.inProgress = s]
    BY DEF ClientRecord
  <2>5. \A j \in DOMAIN rest : i + j \in DOMAIN l.head /\ rest[j] = l.head[i + j] /\ j > 0
    <3>1. Len(l.head) \in Nat /\ DOMAIN l.head = 1..Len(l.head)
      BY <2>1, LenProperties
    <3>2. QED
      BY <2>1, <3>1
  <2>6. \/ LookUp(t, r, reserved)
        \/ Becomes(t, reserved) /\ \E o : Awaits(t, "prolong_request_lock", o)
    BY <1>2
  <2>7. i \in Int /\ DOMAIN rest \subseteq Int
    BY <2>1, <2>2, LenProperties
  <2>8. IsInjective(rest)
    BY <2>1, <2>5, <2>7 DEF Tidy, IsInjective
  <2>9. \A j \in DOMAIN rest : rest[j] \notin s
    BY <2>1, <2>5, <2>7 DEF Tidy, IsInjective
  <2> HIDE DEF r, rest, s, reserved
  <2>10. reserved \in ClientRecord /\ reserved.head = rest /\ reserved.inProgress = s
    BY <2>2, <2>3, <2>4 DEF ClientRecord
  <2>11. Tidy(reserved)
    BY <2>8, <2>9, <2>10 DEF Tidy
  <2>12. CASE Becomes(t, reserved) /\ \E o : Awaits(t, "prolong_request_lock", o)
    BY <2>11, <2>12, TidyElsewhere
  <2>13. QED
    BY <2>6, <2>10, <2>11, <2>12, TidyLookUp
<1>3. QED
  BY <1>1, <1>2 DEF Pick

(* With an empty head and no leftovers, the new head is the listing but for *)
(* what is in progress, each request once.                                  *)
LEMMA TidyListed ==
  ASSUME IInv, TidyInv, NEW t \in Tasks, Answered(t, "list_and_lock_head"), NEW v \in Listed(t)
  PROVE  v \in ClientRecord /\ Tidy(v)
<1> DEFINE l == My(t)
           items == {r \in Requests : op[t].left[r] # NoLease} \ l.inProgress
           entries == [r \in Requests |-> IF r \in items THEN Entry("pending", op[t].left[r])
                                          ELSE l.cache[r]]
<1>1. PICK news \in SetToSeqs(items) :
        v = [l EXCEPT !.head = @ \o news \o op[t].rest, !.locked = op[t].yes,
                      !.unhandled = @ \cup items,
                      !.cache = [r \in Requests |-> IF r \in items THEN Entry("pending", op[t].left[r])
                                                    ELSE @[r]]]
  BY DEF Listed
<1>2. l \in ClientRecord /\ v \in ClientRecord /\ v.inProgress = l.inProgress
  BY MyClientFits, ListedKeeps DEF IInv, Answered
<1>3. l.head = <<>> /\ op[t].rest = <<>>
  BY DEF TidyInv, ListsAnew, Answered
<1>4. news \in Seq(Requests) /\ IsInjective(news) /\ \A i \in DOMAIN news : news[i] \in items
  <2>1. items \in SUBSET Requests
    OBVIOUS
  <2> HIDE DEF items
  <2>2. news \in Seq(Requests)
    BY <2>1, OrdersAreSequences
  <2>3. /\ \A i, j \in DOMAIN news : i # j => news[i] # news[j]
        /\ \A i \in DOMAIN news : news[i] \in items
    BY DEF SetToSeqs
  <2>4. IsInjective(news)
    BY <2>3 DEF IsInjective
  <2>5. QED
    BY <2>2, <2>3, <2>4
<1>5. v.head = news
  <2> DEFINE h == l.head \o news \o op[t].rest
             y == op[t].yes
             n == l.unhandled \cup items
  <2>1. v = [l EXCEPT !.head = h, !.locked = y, !.unhandled = n, !.cache = entries]
    BY <1>1, <1>2 DEF ClientRecord
  <2>2. h = news
    BY <1>3, <1>4
  <2> HIDE DEF h, y, n, entries
  <2>3. v.head = h
    BY <1>2, <2>1 DEF ClientRecord
  <2>4. QED
    BY <2>2, <2>3
<1>6. QED
  BY <1>2, <1>4, <1>5 DEF Tidy

(* The head is listed anew only when it is empty.                           *)
LEMMA TidyList ==
  ASSUME IInv, TidyInv, NoneAtForefront, NEW t \in Tasks, NEW o \in OpRecord,
         ~HeadServes(My(t)), List(t, o)
  PROVE  Tidied(t)
<1> DEFINE l == [My(t) EXCEPT !.head = <<>>, !.forefront = FALSE]
           h == My(t).head
           v == [o EXCEPT !.rest = h]
<1>1. My(t) \in ClientRecord
  BY TidyMine
<1>2. h = <<>>
  BY MyClientFits DEF HeadServes, NoneAtForefront, My, IInv
<1>3. l.head = <<>>
  BY <1>1 DEF ClientRecord
<1>4. v.rest = h
  BY DEF OpRecord
<1>5. Becomes(t, l) /\ Awaits(t, "list_and_lock_head", v)
  BY DEF List
<1> HIDE DEF l, v, h
<1>6. Tidy(l)
  BY <1>3 DEF Tidy, IsInjective
<1>7. QED
  BY <1>2, <1>3, <1>4, <1>5, <1>6 DEF Tidied, ListsAnew

LEMMA TidyCall ==
  ASSUME IInv, TidyInv, NoneAtForefront, NEW t \in Tasks, Call(t)
  PROVE  Tidied(t)
<1>1. Tidy(My(t)) /\ My(t) \in ClientRecord
  BY TidyMine
<1>2. CASE CallAdd(t)
  <2>1. PICK send \in SUBSET Requests :
          /\ Becomes(t, [My(t) EXCEPT !.beingAdded = @ \cup send])
          /\ \E at \in {"idle", "batch_add", "in_flight"} : \E o : Awaits(t, at, o)
    <3>1. \A b \in Batches : b \in SUBSET Requests
      OBVIOUS
    <3>2. PICK b \in Batches, at \in {"idle", "batch_add", "in_flight"} :
            /\ \E send \in SUBSET Requests : Becomes(t, [My(t) EXCEPT !.beingAdded = @ \cup send])
            /\ \E o : Awaits(t, at, o)
      BY <1>2, <3>1 DEF CallAdd, Returns
    <3>3. QED
      BY <3>2
  <2> DEFINE l == [My(t) EXCEPT !.beingAdded = @ \cup send]
  <2>2. l.head = My(t).head /\ l.inProgress = My(t).inProgress
    BY <1>1 DEF ClientRecord
  <2>3. Becomes(t, l)
    BY <2>1
  <2> HIDE DEF l
  <2>4. QED
    BY <2>1, <2>2, <2>3, TidyStays
<1>3. CASE CallFetch(t)
  <2>1. NewOp("fetch") \in OpRecord
    BY NewOpFits
  <2>2. CASE Awaits(t, "metadata", NewOp("fetch")) /\ UNCHANGED local
    BY <2>2, TidyUntouched
  <2>3. QED
    BY <1>1, <1>3, <2>1, <2>2, TidyList, TidyPick DEF CallFetch
<1>4. ASSUME NEW call \in {"mark", "reclaim"}, GivesUp(t, call), holds[t] # NoRequest
      PROVE  Tidied(t)
  <2>1. Becomes(t, Discard(My(t), holds[t])) /\ \E o : Awaits(t, "update_request", o)
    BY <1>4, GivenUp
  <2>2. QED
    BY <1>1, <2>1, DiscardKeeps, TidyStays
<1>5. CASE CallFinished(t)
  <2> DEFINE a == added[ClientOf[t]]
             record == [NewOp("finished") EXCEPT !.known = a]
  <2>1. record \in OpRecord
    <3>1. a \in SUBSET Requests
      BY DEF IInv, PlatformInv, Present
    <3>2. record = [NewOp("finished") EXCEPT !.known = a]
      OBVIOUS
    <3> HIDE DEF record, a
    <3>3. QED
      BY <3>1, <3>2, FinishedRecord
  <2>2. CASE ~HeadServes(My(t)) /\ List(t, record)
    <3> HIDE DEF record
    <3>1. QED
      BY <2>1, <2>2, TidyList
  <2>3. CASE UNCHANGED local /\ \E at \in {"idle", "verify", "metadata"} : \E o : Awaits(t, at, o)
    BY <2>3, TidyUntouched
  <2>4. QED
    BY <1>5, <2>2, <2>3, ConcludesAwaits DEF CallFinished
<1>6. QED
  BY <1>2, <1>3, <1>4, <1>5 DEF Call, CallMark, CallReclaim

(* A cached entry does not change the head.                                 *)
LEMMA TidyCache ==
  ASSUME NEW l \in ClientRecord, NEW r \in Requests, NEW entry \in EntryRecord,
         NEW isHandled \in BOOLEAN, Tidy(l)
  PROVE  Cache(l, r, entry, isHandled) \in ClientRecord /\ Tidy(Cache(l, r, entry, isHandled))
<1>1. Cache(l, r, entry, isHandled) \in ClientRecord
  BY DEF Cache, ClientRecord
<1>2. QED
  BY <1>1, CacheParts, TidyShrinks

LEMMA TidyAdded ==
  ASSUME IInv, TidyInv, OneTaskEach, NEW t \in Tasks, BatchAnswered(t) \/ AddReturns(t)
  PROVE  Tidied(t)
<1>1. Tidy(My(t)) /\ My(t) \in ClientRecord
  BY TidyMine
<1>2. CASE AddReturns(t)
  <2> DEFINE l == [My(t) EXCEPT !.total = @ + Cardinality(op[t].new)]
  <2>1. Becomes(t, l) /\ Returns(t)
    BY <1>2 DEF AddReturns
  <2>2. l.head = My(t).head /\ l.inProgress = My(t).inProgress
    BY <1>1 DEF ClientRecord
  <2> HIDE DEF l
  <2>3. QED
    BY <2>1, <2>2, TidyStays DEF Returns
<1>3. CASE BatchAnswered(t)
  <2>1. PICK k, u, a, n : Becomes(t, [My(t) EXCEPT !.cache = k, !.unhandled = u,
                                                  !.beingAdded = a, !.total = n])
    <3> DEFINE committed == op[t].batch \ op[t].rejected
               new == {r \in committed : op[t].seen[r] = "absent"}
               k == [r \in Requests |-> IF r \in committed THEN Entry("no", NoLease)
                                        ELSE My(t).cache[r]]
               u == My(t).unhandled \cup committed
               a == My(t).beingAdded \ op[t].batch
               n == IF op[t].waits = {} THEN My(t).total + Cardinality(new) ELSE My(t).total
               m == [My(t) EXCEPT !.cache = k, !.unhandled = u, !.beingAdded = a, !.total = n]
    <3>1. [op[t] EXCEPT !.batch = {}, !.new = new, !.known = @ \cup (committed \ new)].waits
            = op[t].waits
      BY MyOpFits DEF IInv, OpRecord
    <3>2. Becomes(t, m)
      BY <1>1, <1>3, <3>1 DEF BatchAnswered, ClientRecord
    <3> HIDE DEF k, u, a, n
    <3>3. QED
      BY <3>2
  <2>2. \E at \in {"idle", "in_flight"} : \E o : Awaits(t, at, o)
    BY <1>3, SettleAwaits DEF BatchAnswered, IInv
  <2> DEFINE l == [My(t) EXCEPT !.cache = k, !.unhandled = u, !.beingAdded = a, !.total = n]
  <2>3. l.head = My(t).head /\ l.inProgress = My(t).inProgress
    BY <1>1 DEF ClientRecord
  <2>4. Becomes(t, l)
    BY <2>1
  <2> HIDE DEF l
  <2>5. QED
    BY <2>2, <2>3, <2>4, TidyStays
<1>4. QED
  BY <1>2, <1>3

LEMMA TidyFetching ==
  ASSUME IInv, HandInv, TidyInv, NEW t \in Tasks,
         FetchHeadListed(t) \/ Prolonged(t) \/ Hydrated(t) \/ Refetched(t)
  PROVE  Tidied(t)
<1> DEFINE r == op[t].request
<1>1. Tidy(My(t)) /\ My(t) \in ClientRecord
  BY TidyMine
<1>2. CASE FetchHeadListed(t)
  BY <1>1, <1>2, TidyListed, TidyPick DEF FetchHeadListed
<1>3. ASSUME pc[t] \in {"prolong_request_lock", "hydrate", "refetch"}
      PROVE  r \in Requests /\ op[t].left[r] \in Int /\ op[t].seen[r] \in Status
  <2>1. r \in Requests /\ op[t] \in OpRecord
    BY <1>3, ReservesAt, MyOpFits DEF IInv
  <2>2. QED
    BY <2>1 DEF OpRecord
<1>4. CASE Prolonged(t)
  <2> DEFINE k == [My(t).cache EXCEPT ![r].left = op[t].left[r]]
             l == [My(t) EXCEPT !.cache[r].left = op[t].left[r]]
  <2>1. r \in Requests /\ op[t].left[r] \in Int
    BY <1>3, <1>4 DEF Prolonged, Answered
  <2>2. l = [My(t) EXCEPT !.cache = k]
    BY <1>1 DEF ClientRecord
  <2>3. k \in [Requests -> EntryRecord]
    <3>1. My(t).cache \in [Requests -> EntryRecord] /\ My(t).cache[r] \in EntryRecord
      BY <1>1, <2>1 DEF ClientRecord
    <3>2. [My(t).cache[r] EXCEPT !.left = op[t].left[r]] \in EntryRecord
      BY <2>1, <3>1 DEF EntryRecord
    <3>3. k = [My(t).cache EXCEPT ![r] = [My(t).cache[r] EXCEPT !.left = op[t].left[r]]]
      OBVIOUS
    <3>4. QED
      BY <3>1, <3>2, <3>3
  <2>4. \/ Becomes(t, Discard(My(t), r)) /\ Returns(t)
        \/ LookUp(t, r, l)
    BY <1>4 DEF Prolonged
  <2> HIDE DEF l, k, r
  <2>5. l \in ClientRecord /\ l.head = My(t).head /\ l.inProgress = My(t).inProgress
    BY <1>1, <2>2, <2>3 DEF ClientRecord
  <2>6. QED
    BY <1>1, <2>4, <2>5, TidyShrinks, TidyDiscards, TidyLookUp
<1>5. CASE Hydrated(t)
  <2> DEFINE e == Entry(op[t].seen[r], op[t].left[r])
             l == Cache(My(t), r, e, op[t].seen[r] = "handled")
  <2>1. /\ r \in Requests /\ op[t].left[r] \in Int /\ op[t].seen[r] \in Status
    BY <1>3, <1>5 DEF Hydrated, Answered
  <2>2. l \in ClientRecord /\ Tidy(l)
    <3>1. e \in EntryRecord /\ (op[t].seen[r] = "handled") \in BOOLEAN
      BY <2>1, UncachedEntry
    <3> HIDE DEF e, r
    <3>2. QED
      BY <1>1, <2>1, <3>1, TidyCache
  <2>3. \/ Becomes(t, Discard(My(t), r)) /\ Returns(t)
        \/ Becomes(t, l) /\ \E o : Awaits(t, "refetch", o)
        \/ Becomes(t, Discard(l, r)) /\ Returns(t)
    BY <1>5 DEF Hydrated
  <2> HIDE DEF l, r
  <2>4. QED
    BY <1>1, <2>2, <2>3, TidyDiscards, TidyElsewhere
<1>6. CASE Refetched(t)
  BY <1>1, <1>6, TidyDiscards, TidyUntouched DEF Refetched, Returns
<1>7. QED
  BY <1>2, <1>4, <1>5, <1>6

LEMMA TidyUpdated ==
  ASSUME IInv, TidyInv, NEW t \in Tasks, Updated(t)
  PROVE  Tidied(t)
<1> DEFINE r == op[t].request
           marks == op[t].call = "mark"
           e == Entry(IF marks THEN "handled" ELSE "pending", NoLease)
           n == My(t).handled + CountsChange(op[t].call, op[t].seen[r] = "handled")
           f == My(t).forefront \/ op[t].forefront
           k == [My(t) EXCEPT !.handled = n, !.forefront = f]
           v == Cache(k, r, e, marks)
<1>1. pc[t] = "update_request" /\ Becomes(t, v) /\ Returns(t)
  BY DEF Updated, Answered
<1>2. My(t) \in ClientRecord /\ Tidy(My(t)) /\ r \in Requests /\ op[t] \in OpRecord
  BY <1>1, TidyMine, MyOpFits DEF IInv, OpFits, PlaceFits
<1>3. n \in Int /\ f \in BOOLEAN
  BY <1>2 DEF OpRecord, ClientRecord, CountsChange
<1>4. e \in EntryRecord
  BY UncachedEntry DEF NoLease
<1> HIDE DEF n, f
<1>5. k \in ClientRecord /\ k.head = My(t).head /\ k.inProgress = My(t).inProgress
  BY <1>2, <1>3 DEF ClientRecord
<1> HIDE DEF k, e, r
<1>6. Tidy(v)
  BY <1>2, <1>4, <1>5, TidyShrinks, TidyCache
<1> HIDE DEF v
<1>7. QED
  BY <1>1, <1>6, TidyElsewhere DEF Returns

LEMMA TidyFinished ==
  ASSUME IInv, TidyInv, NEW t \in Tasks, FinishedHeadListed(t) \/ Verified(t)
  PROVE  Tidied(t)
<1>1. CASE Answered(t, "metadata") /\ Concludes(t, op[t], My(t), op[t].yes) /\ UNCHANGED local
  <2>1. \E at \in {"idle", "verify"} : \E o : Awaits(t, at, o)
    BY <1>1, ConcludesAwaits
  <2>2. QED
    BY <1>1, <2>1, TidyUntouched
<1>2. ASSUME Answered(t, "list_and_lock_head"), NEW l \in Listed(t), Becomes(t, l),
             Concludes(t, op[t], l, \A r \in Requests : op[t].left[r] = NoLease)
      PROVE  Tidied(t)
  <2>1. \E at \in {"idle", "verify"} : \E o : Awaits(t, at, o)
    BY <1>2, ConcludesAwaits
  <2>2. QED
    BY <1>2, <2>1, TidyListed, TidyElsewhere
<1>3. CASE Verified(t)
  <2>1. PICK c : Becomes(t, [My(t) EXCEPT !.unhandled = @ \ c])
    BY <1>3 DEF Verified
  <2> DEFINE l == [My(t) EXCEPT !.unhandled = @ \ c]
  <2>2. l.head = My(t).head /\ l.inProgress = My(t).inProgress
    BY TidyMine DEF ClientRecord
  <2>3. \E o : Awaits(t, "idle", o)
    BY <1>3, VerdictAwaits DEF Verified
  <2>4. Becomes(t, l)
    BY <2>1
  <2> HIDE DEF l
  <2>5. QED
    BY <2>2, <2>3, <2>4, TidyStays
<1>4. QED
  BY <1>1, <1>2, <1>3 DEF FinishedHeadListed

LEMMA TidyFail ==
  ASSUME IInv, TidyInv, OneTaskEach, NEW t \in Tasks, Fail(t)
  PROVE  Tidied(t)
<1>1. My(t) \in ClientRecord
  BY TidyMine
<1>2. CASE /\ Settle(t, "idle", NoOp, {})
           /\ Becomes(t, [My(t) EXCEPT !.beingAdded = @ \ op[t].batch])
  <2> DEFINE l == [My(t) EXCEPT !.beingAdded = @ \ op[t].batch]
  <2>1. l.head = My(t).head /\ l.inProgress = My(t).inProgress
    BY <1>1 DEF ClientRecord
  <2>2. Awaits(t, "idle", NoOp) /\ Becomes(t, l)
    BY <1>2, SettleAwaits DEF IInv
  <2> HIDE DEF l
  <2>3. QED
    BY <2>1, <2>2, TidyStays
<1>3. CASE Returns(t) /\ Becomes(t, Discard(My(t), op[t].request))
  BY <1>1, <1>3, DiscardKeeps, TidyStays DEF Returns
<1>4. CASE Returns(t) /\ UNCHANGED local
  BY <1>4, TidyUntouched DEF Returns
<1>5. QED
  BY <1>2, <1>3, <1>4 DEF Fail

(* An answer changes neither a head nor what a listing left over.           *)
LEMMA TidyAnswer ==
  ASSUME IInv, TidyInv, NEW t \in Tasks, Answer(t)
  PROVE  Tidied(t)
<1>1. UNCHANGED <<local, pc>>
  BY DEF Answer, AnswerBatch, AnswerListing, AnswerProlong, AnswerRead, AnswerVerify, AnswerUpdate
<1>2. PICK o : /\ op' = [op EXCEPT ![t] = o]
               /\ pc[t] = "list_and_lock_head" => o.rest = op[t].rest
  <2>1. CASE AnswerListing(t)
    <3>1. PICK left, yes : op' = [op EXCEPT ![t] = [Reply(t) EXCEPT !.left = left, !.yes = yes]]
      BY <2>1 DEF AnswerListing
    <3> DEFINE v == [Reply(t) EXCEPT !.left = left, !.yes = yes]
    <3>2. v.rest = op[t].rest /\ op' = [op EXCEPT ![t] = v]
      BY <3>1, ReplyFits DEF OpRecord
    <3> HIDE DEF v
    <3>3. QED
      BY <3>2
  <2>2. CASE ~AnswerListing(t)
    <3>1. pc[t] # "list_and_lock_head"
      BY <2>2 DEF Answer, AnswerBatch, AnswerProlong, AnswerRead, AnswerVerify, AnswerUpdate,
                  Pending
    <3>2. \E o : op' = [op EXCEPT ![t] = o]
      BY <2>2 DEF Answer, AnswerBatch, AnswerProlong, AnswerRead, AnswerVerify, AnswerUpdate
    <3>3. QED
      BY <3>1, <3>2
  <2>3. QED
    BY <2>1, <2>2
<1>3. Becomes(t, My(t)) /\ Awaits(t, pc[t], o)
  BY <1>1, <1>2, ClientStays DEF IInv, Awaits, CallsInv
<1>4. ListsAnew(My(t), pc[t], o)
  BY <1>2 DEF TidyInv, ListsAnew
<1>5. QED
  BY <1>3, <1>4, TidyMine DEF Tidied

LEMMA TidyTick ==
  ASSUME IInv, TidyInv, Tick
  PROVE  TidyInv'
<1>1. ASSUME NEW c \in Clients
      PROVE  local'[c].head = local[c].head /\ local'[c].inProgress = local[c].inProgress
  <2> DEFINE k == [r \in Requests |-> Entry(local[c].cache[r].hydrated, Down(local[c].cache[r].left))]
             v == [local[c] EXCEPT !.cache = k]
  <2>1. local[c] \in ClientRecord
    BY DEF IInv, ClientsInv
  <2>2. local'[c] = v
    BY <2>1 DEF Tick, ClientRecord
  <2> HIDE DEF k
  <2>3. QED
    BY <2>1, <2>2 DEF ClientRecord
<1>2. ASSUME NEW t \in Tasks
      PROVE  pc'[t] = pc[t] /\ op'[t].rest = op[t].rest
  <2> DEFINE k == [r \in Requests |-> Down(op[t].left[r])]
             v == [op[t] EXCEPT !.left = k]
  <2>1. op[t] \in OpRecord
    BY MyOpFits DEF IInv
  <2>2. op'[t] = v /\ pc' = pc
    BY <2>1 DEF Tick, OpRecord
  <2> HIDE DEF k
  <2>3. QED
    BY <2>1, <2>2 DEF OpRecord
<1>3. \A c \in Clients : Tidy(local[c])'
  BY <1>1 DEF TidyInv, Tidy
<1>4. \A t \in Tasks : ListsAnew(My(t), pc[t], op[t])'
  BY <1>1, <1>2 DEF TidyInv, ListsAnew, My
<1>5. QED
  BY <1>3, <1>4 DEF TidyInv

LEMMA TidyInit == Init => TidyInv
<1> SUFFICES ASSUME Init PROVE TidyInv
  OBVIOUS
<1>1. ASSUME NEW c \in Clients
      PROVE  Tidy(local[c])
  <2>1. local[c].head = <<>>
    BY DEF Init, NewClient
  <2>2. QED
    BY <2>1 DEF Tidy, IsInjective
<1>2. \A t \in Tasks : ListsAnew(My(t), pc[t], op[t])
  BY DEF Init, ListsAnew
<1>3. QED
  BY <1>1, <1>2 DEF TidyInv

LEMMA TidyIsKept ==
  ASSUME OneTaskEach
  PROVE  IInv /\ HandInv /\ TidyInv /\ NoneAtForefront /\ [Next]_vars => TidyInv'
<1> SUFFICES ASSUME IInv, HandInv, TidyInv, NoneAtForefront, [Next]_vars
             PROVE  TidyInv'
  OBVIOUS
<1>1. ASSUME NEW t \in Tasks, Resume(t)
      PROVE  Tidied(t)
  BY <1>1, TidyAdded, TidyFetching, TidyUpdated, TidyFinished DEF Resume
<1>2. ASSUME NEW t \in Tasks, Call(t) \/ Answer(t) \/ Resume(t) \/ Fail(t)
      PROVE  TidyInv'
  BY <1>1, <1>2, TidyCall, TidyAnswer, TidyFail, TidyStep
<1>3. CASE UNCHANGED vars
  BY <1>3 DEF vars, taskVars, TidyInv, My
<1>4. QED
  BY <1>2, <1>3, TidyTick DEF Next

LEMMA TidySpares == TidyInv => HeadsSpareInProgress
BY DEF TidyInv, Tidy, HeadsSpareInProgress

LEMMA TidyAlways ==
  ASSUME OneTaskEach
  PROVE  Spec /\ []NoneAtForefront => []HeadsSpareInProgress
<1>1. IInv /\ HandInv /\ TidyInv /\ NoneAtForefront /\ [Next]_vars => TidyInv'
  BY TidyIsKept
<1>2. QED
  BY <1>1, TidyInit, TidySpares, Always, HandAlways, PTL DEF Spec

(* With one task for each client it is only a reclaim to the forefront that *)
(* can make a client hand out a request it is done with: without one the    *)
(* clients are a work queue.                                                *)
THEOREM ImplementsWithoutForefront ==
  ASSUME KeepsLease, OneTaskEach
  PROVE  Spec /\ []NoneAtForefront => ImplementsWorkQueue
<1>1. Spec /\ []NoneAtForefront => []HeadsSpareInProgress
  BY TidyAlways
<1>2. Spec /\ []HeadsSpareInProgress => ImplementsWorkQueue
  BY Implements
<1>3. QED
  BY <1>1, <1>2, PTL

(* What that means for the tasks: no request is processed by two of them,   *)
(* whichever clients they use, and none the platform has as handled.        *)
THEOREM ProcessedOnce ==
  ASSUME KeepsLease, OneTaskEach
  PROVE  Spec /\ []NoneAtForefront => []Work!Exclusive
<1>1. ASSUME Inv
      PROVE  Work!Exclusive
  <2>1. ASSUME NEW t \in Tasks, Holder[t] # NoRequest
        PROVE  /\ Holder[t] \in Queued \ Finished
               /\ \A u \in Tasks \ {t} : Holder[u] # Holder[t]
    <3>1. Holder[t] = Processes(t)
      BY DEF Holder
    <3>2. Firm(platform, lock, ClientOf[t], Processes(t), term[t])
      BY <2>1, <3>1, <1>1, ProcessedLeased
    <3>3. ASSUME NEW u \in Tasks \ {t}, Holder[u] = Holder[t]
          PROVE  FALSE
      <4>1. Processes(u) = Processes(t)
        BY <3>1, <3>3 DEF Holder
      <4>2. Firm(platform, lock, ClientOf[u], Processes(t), term[u])
        BY <1>1, <2>1, <3>1, <4>1, ProcessedLeased
      <4>3. ClientOf[u] = ClientOf[t]
        BY <3>2, <4>2 DEF Firm
      <4>4. QED
        BY <4>3 DEF OneTaskEach, SameClient
    <3>4. Holder[t] \in Queued \ Finished
      BY <3>1, <3>2 DEF Firm, Queued, Finished
    <3>5. QED
      BY <3>3, <3>4
  <2>2. QED
    BY <2>1 DEF Work!Exclusive, Queued, Finished, Holder
<1>2. Inv => Work!Exclusive
  BY <1>1
<1>3. Spec /\ []HeadsSpareInProgress => []Inv
  BY InvAlways
<1>4. Spec /\ []NoneAtForefront => []HeadsSpareInProgress
  BY TidyAlways
<1>5. QED
  BY <1>2, <1>3, <1>4, PTL
=============================================================================
