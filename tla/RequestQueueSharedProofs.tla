---------------------- MODULE RequestQueueSharedProofs ----------------------
(* Proofs about RequestQueueShared, for any clients, tasks, requests and    *)
(* lock times, whatever fails or lapses: no false success, is_finished      *)
(* covers what was added, one hand-out at a time within a client, and local *)
(* counters that agree with the platform when all is quiet.                 *)
EXTENDS RequestQueueShared, FiniteSetTheorems, SequenceTheorems, TLAPS

USE SharedAssumption DEF Status

-----------------------------------------------------------------------------
(* Sequences.                                                               *)

LEMMA OrdersAreSequences ==
  ASSUME NEW S \in SUBSET Requests, NEW s \in SetToSeqs(S)
  PROVE  s \in Seq(Requests)
<1>1. Cardinality(S) \in Nat /\ s \in [1..Cardinality(S) -> S]
  BY FS_Subset, FS_CardinalityType DEF SetToSeqs
<1>2. QED
  BY <1>1, SeqDef

LEMMA ThreeJoin ==
  ASSUME NEW s \in Seq(Requests), NEW u \in Seq(Requests), NEW v \in Seq(Requests)
  PROVE  s \o u \o v \in Seq(Requests)
BY ConcatProperties

LEMMA RestIsSequence ==
  ASSUME NEW h \in Seq(Requests), NEW n \in DOMAIN h
  PROVE  h[n] \in Requests /\ SubSeq(h, n + 1, Len(h)) \in Seq(Requests)
<1>1. Len(h) \in Nat /\ h \in [1..Len(h) -> Requests] /\ DOMAIN h = 1..Len(h)
  BY LenProperties
<1>2. QED
  BY <1>1, SubSeqProperties

-----------------------------------------------------------------------------
(* What is true of a client object and of a task's call.  P are the         *)
(* requests the platform has, D those that were marked as handled there,    *)
(* A those whose addition was confirmed to the client.                      *)

EntryRecord == [hydrated : {"uncached", "no"} \cup Status, left : Int]

ClientRecord ==
  [cache : [Requests -> EntryRecord], head : Seq(Requests),
   inProgress : SUBSET Requests, beingAdded : SUBSET Requests, unhandled : SUBSET Requests,
   locked : BOOLEAN, forefront : BOOLEAN, total : Int, handled : Int]

OpRecord ==
  [call : {"none", "add", "fetch", "finished", "mark", "reclaim"},
   batch : SUBSET Requests, request : Requests \cup {NoRequest}, answered : BOOLEAN,
   seen : [Requests -> Status], rejected : SUBSET Requests, left : [Requests -> Int],
   known : SUBSET Requests, new : SUBSET Requests, waits : SUBSET Requests,
   forefront : BOOLEAN, rest : Seq(Requests), yes : BOOLEAN]

Places ==
  {"idle", "batch_add", "in_flight", "list_and_lock_head", "metadata", "prolong_request_lock",
   "hydrate", "refetch", "update_request", "verify"}

(* The cache knows only what the platform has, and what was added and not   *)
(* handled yet is in the set is_finished verifies.                          *)
ClientFits(l, P, A, D) ==
  /\ l \in ClientRecord
  /\ \A r \in Requests : l.cache[r] # Uncached => r \in P
  /\ A \ D \subseteq l.unhandled

(* The call a task is in fits the await it is suspended at.                 *)
PlaceFits(at, o) ==
  /\ at \in {"batch_add", "in_flight"} => o.call = "add"
  /\ at \in {"list_and_lock_head", "metadata"} =>
       o.call \in {"fetch", "finished"} /\ o.request = NoRequest
  /\ at \in {"prolong_request_lock", "hydrate", "refetch"} =>
       o.call = "fetch" /\ o.request \in Requests
  /\ at = "update_request" => o.call \in {"mark", "reclaim"} /\ o.request \in Requests
  /\ at = "verify" => o.call = "finished"
  /\ at = "idle" => o.call \in {"none", "finished"}

(* What a task was told is so: the platform forgets no request and no mark. *)
AnswerFits(at, o, P, A, D) ==
  /\ \A r \in Requests :
       /\ o.seen[r] # "absent" => r \in P
       /\ o.seen[r] = "handled" => r \in D
       /\ o.left[r] # NoLease => r \in P
  /\ o.known \cup o.new \subseteq P
  /\ at = "batch_add" /\ o.answered => o.batch \ o.rejected \subseteq P
  /\ at = "update_request" /\ o.answered =>
       o.request \in P /\ (o.call = "mark" => o.request \in D)
  /\ o.call = "finished" /\ at \in {"list_and_lock_head", "metadata"} => o.known \subseteq A
  /\ at = "verify" => o.known \subseteq o.batch \cup D
  /\ at = "idle" /\ o.call = "finished" /\ o.yes => o.known \subseteq D

OpFits(at, o, P, A, D) ==
  at \in Places /\ o \in OpRecord /\ PlaceFits(at, o) /\ AnswerFits(at, o, P, A, D)

Present == {r \in Requests : platform[r] # "absent"}

PlatformInv ==
  /\ platform \in [Requests -> Status] /\ done \subseteq Requests
  /\ \A r \in Requests : platform[r] = "handled" => r \in done
  /\ added \in [Clients -> SUBSET Present]

ClientsInv ==
  /\ local \in [Clients -> ClientRecord]
  /\ \A c \in Clients : ClientFits(local[c], Present, added[c], done)

CallsInv ==
  /\ pc \in [Tasks -> Places] /\ op \in [Tasks -> OpRecord]
  /\ \A t \in Tasks : OpFits(pc[t], op[t], Present, added[ClientOf[t]], done)

HoldsInv == holds \in [Tasks -> Requests \cup {NoRequest}]

IInv == PlatformInv /\ ClientsInv /\ CallsInv /\ HoldsInv

-----------------------------------------------------------------------------
(* Growth: an unchanged client or call keeps fitting.                       *)

LEMMA ClientGrows ==
  ASSUME NEW l, NEW P, NEW A, NEW D, ClientFits(l, P, A, D),
         NEW P2, NEW D2, P \subseteq P2, D \subseteq D2
  PROVE  ClientFits(l, P2, A, D2)
BY DEF ClientFits

LEMMA OpGrows ==
  ASSUME NEW at, NEW o, NEW P, NEW A, NEW D, OpFits(at, o, P, A, D),
         NEW P2, NEW A2, NEW D2, P \subseteq P2, A \subseteq A2, D \subseteq D2
  PROVE  OpFits(at, o, P2, A2, D2)
BY DEF OpFits, AnswerFits

LEMMA UncachedEntry ==
  /\ Uncached \in EntryRecord
  /\ \A h \in {"uncached", "no"} \cup Status, k \in Int :
       Entry(h, k) \in EntryRecord /\ Entry(h, k).hydrated = h /\ Entry(h, k).left = k
BY DEF Uncached, Entry, EntryRecord, NoLease

LEMMA NewOpFits ==
  ASSUME NEW call \in {"none", "add", "fetch", "finished", "mark", "reclaim"}
  PROVE  /\ NewOp(call) \in OpRecord /\ NewOp(call).call = call
         /\ NewOp(call).request = NoRequest /\ ~NewOp(call).answered
         /\ NewOp(call).seen = [r \in Requests |-> "absent"]
         /\ NewOp(call).left = [r \in Requests |-> NoLease]
         /\ NewOp(call).known = {} /\ NewOp(call).new = {} /\ NewOp(call).waits = {}
         /\ NewOp(call).batch = {} /\ ~NewOp(call).yes
<1>1. <<>> \in Seq(Requests) /\ NoLease \in Int
  BY EmptySeq DEF NoLease
<1>2. QED
  BY <1>1 DEF NewOp, OpRecord

LEMMA NoOpFits ==
  ASSUME NEW P, NEW A, NEW D
  PROVE  OpFits("idle", NoOp, P, A, D) /\ NoOp.call = "none"
BY NewOpFits DEF NoOp, OpFits, PlaceFits, AnswerFits, Places

(* What a step of one task leaves fitting.                                  *)
Grows ==
  /\ Present \subseteq Present' /\ done \subseteq done'
  /\ \A c \in Clients : added[c] \subseteq added'[c]

LEMMA NothingGrows ==
  ASSUME UNCHANGED <<platform, historyVars>>
  PROVE  Grows /\ Present' = Present /\ (PlatformInv => PlatformInv')
BY DEF Grows, Present, PlatformInv, historyVars

LEMMA ClientsStay ==
  ASSUME ClientsInv, Grows, UNCHANGED <<local, added>>
  PROVE  ClientsInv'
<1>1. ASSUME NEW c \in Clients
      PROVE  ClientFits(local'[c], Present', added'[c], done')
  BY ClientGrows DEF ClientsInv, Grows
<1>2. QED
  BY <1>1 DEF ClientsInv

LEMMA ClientBecomes ==
  ASSUME ClientsInv, Grows, NEW t \in Tasks, NEW l, Becomes(t, l),
         \A c \in Clients : c # ClientOf[t] => added'[c] = added[c],
         ClientFits(l, Present', added'[ClientOf[t]], done')
  PROVE  ClientsInv'
<1>1. ASSUME NEW c \in Clients
      PROVE  ClientFits(local'[c], Present', added'[c], done')
  <2>1. CASE c = ClientOf[t]
    BY <2>1 DEF ClientsInv, Becomes
  <2>2. CASE c # ClientOf[t]
    BY <2>2, ClientGrows DEF ClientsInv, Becomes, Grows
  <2>3. QED
    BY <2>1, <2>2
<1>2. local' \in [Clients -> ClientRecord]
  BY DEF ClientsInv, Becomes, ClientFits
<1>3. QED
  BY <1>1, <1>2 DEF ClientsInv

LEMMA CallsStay ==
  ASSUME CallsInv, Grows, UNCHANGED <<pc, op>>
  PROVE  CallsInv'
<1>1. ASSUME NEW u \in Tasks
      PROVE  OpFits(pc'[u], op'[u], Present', added'[ClientOf[u]], done')
  BY OpGrows DEF CallsInv, Grows
<1>2. QED
  BY <1>1 DEF CallsInv

LEMMA CallMoves ==
  ASSUME CallsInv, Grows, NEW t \in Tasks, NEW at, NEW o, Awaits(t, at, o),
         OpFits(at, o, Present', added'[ClientOf[t]], done')
  PROVE  CallsInv'
<1>1. ASSUME NEW u \in Tasks
      PROVE  OpFits(pc'[u], op'[u], Present', added'[ClientOf[u]], done')
  <2>1. CASE u = t
    BY <2>1 DEF CallsInv, Awaits
  <2>2. CASE u # t
    BY <2>2, OpGrows DEF CallsInv, Awaits, Grows
  <2>3. QED
    BY <2>1, <2>2
<1>2. pc' \in [Tasks -> Places] /\ op' \in [Tasks -> OpRecord]
  BY DEF CallsInv, Awaits, OpFits
<1>3. QED
  BY <1>1, <1>2 DEF CallsInv

LEMMA CallReturns ==
  ASSUME CallsInv, Grows, NEW t \in Tasks, Returns(t)
  PROVE  CallsInv'
BY CallMoves, NoOpFits DEF Returns

(* An answer arrives: the task stays where it is.                           *)
LEMMA CallAnswered ==
  ASSUME CallsInv, Grows, NEW t \in Tasks, NEW o, op' = [op EXCEPT ![t] = o], UNCHANGED pc,
         OpFits(pc[t], o, Present', added'[ClientOf[t]], done')
  PROVE  CallsInv'
<1>1. Awaits(t, pc[t], o)
  BY DEF Awaits, CallsInv
<1>2. QED
  BY <1>1, CallMoves

LEMMA MyOpFits ==
  ASSUME CallsInv, NEW t \in Tasks
  PROVE  /\ op[t] \in OpRecord /\ pc[t] \in Places
         /\ OpFits(pc[t], op[t], Present, added[ClientOf[t]], done)
BY DEF CallsInv

LEMMA MyClientFits ==
  ASSUME ClientsInv, NEW t \in Tasks
  PROVE  /\ ClientOf[t] \in Clients /\ My(t) \in ClientRecord
         /\ ClientFits(My(t), Present, added[ClientOf[t]], done)
BY DEF ClientsInv, My

LEMMA Initially == Init => IInv
<1> SUFFICES ASSUME Init PROVE IInv
  OBVIOUS
<1>1. PlatformInv
  BY DEF Init, PlatformInv, Present
<1>2. ASSUME NEW P
      PROVE  ClientFits(NewClient({}), P, {}, {})
  <2>1. <<>> \in Seq(Requests)
    BY EmptySeq
  <2>2. NewClient({}) \in ClientRecord
    BY <2>1, UncachedEntry DEF NewClient, ClientRecord
  <2>3. QED
    BY <2>2 DEF NewClient, ClientFits
<1>3. ClientsInv
  BY <1>2 DEF Init, ClientsInv, ClientFits
<1>4. CallsInv
  BY NoOpFits DEF Init, CallsInv, OpFits
<1>5. QED
  BY <1>1, <1>3, <1>4 DEF Init, IInv, HoldsInv

-----------------------------------------------------------------------------
(* The platform's answers.                                                  *)

(* A record with a field replaced.                                          *)
LEMMA WithRejected ==
  ASSUME NEW o \in OpRecord, NEW x \in SUBSET Requests, NEW v, v = [o EXCEPT !.rejected = x]
  PROVE  /\ v \in OpRecord /\ v.rejected = x /\ v.call = o.call /\ v.request = o.request
         /\ v.answered = o.answered /\ v.seen = o.seen /\ v.left = o.left /\ v.batch = o.batch
         /\ v.known = o.known /\ v.new = o.new /\ v.waits = o.waits /\ v.yes = o.yes
BY DEF OpRecord

LEMMA WithLeft ==
  ASSUME NEW o \in OpRecord, NEW x \in [Requests -> Int], NEW v, v = [o EXCEPT !.left = x]
  PROVE  /\ v \in OpRecord /\ v.left = x /\ v.call = o.call /\ v.request = o.request
         /\ v.answered = o.answered /\ v.seen = o.seen /\ v.rejected = o.rejected
         /\ v.batch = o.batch /\ v.known = o.known /\ v.new = o.new /\ v.waits = o.waits
         /\ v.yes = o.yes
BY DEF OpRecord

LEMMA WithYes ==
  ASSUME NEW o \in OpRecord, NEW x \in BOOLEAN, NEW v, v = [o EXCEPT !.yes = x]
  PROVE  /\ v \in OpRecord /\ v.left = o.left /\ v.call = o.call /\ v.request = o.request
         /\ v.answered = o.answered /\ v.seen = o.seen /\ v.rejected = o.rejected
         /\ v.batch = o.batch /\ v.known = o.known /\ v.new = o.new /\ v.waits = o.waits
BY DEF OpRecord

LEMMA ReplyFits ==
  ASSUME IInv, NEW t \in Tasks
  PROVE  /\ Reply(t) \in OpRecord /\ Reply(t).answered /\ Reply(t).seen = platform
         /\ Reply(t).call = op[t].call /\ Reply(t).request = op[t].request
         /\ Reply(t).batch = op[t].batch /\ Reply(t).rejected = op[t].rejected
         /\ Reply(t).left = op[t].left /\ Reply(t).known = op[t].known
         /\ Reply(t).new = op[t].new /\ Reply(t).waits = op[t].waits
         /\ Reply(t).yes = op[t].yes /\ Reply(t).rest = op[t].rest
<1>1. op[t] \in OpRecord /\ platform \in [Requests -> Status]
  BY MyOpFits DEF IInv, PlatformInv
<1>2. QED
  BY <1>1 DEF Reply, OpRecord

LEMMA AnswerBatchStep ==
  ASSUME IInv, NEW t \in Tasks, AnswerBatch(t)
  PROVE  IInv'
<1>1. PICK rejected \in SUBSET op[t].batch :
        /\ op' = [op EXCEPT ![t] = [Reply(t) EXCEPT !.rejected = rejected]]
        /\ platform' = [r \in Requests |->
             IF r \in op[t].batch \ rejected /\ platform[r] = "absent" THEN "pending"
             ELSE platform[r]]
  BY DEF AnswerBatch
<1> DEFINE o == [Reply(t) EXCEPT !.rejected = rejected]
<1>2. /\ pc[t] = "batch_add" /\ UNCHANGED <<local, pc, holds, added, done>>
  BY DEF AnswerBatch, Pending, historyVars
<1>3. /\ op[t] \in OpRecord /\ op[t].batch \subseteq Requests
      /\ OpFits(pc[t], op[t], Present, added[ClientOf[t]], done)
  BY MyOpFits DEF IInv, OpRecord
<1>4. Grows /\ PlatformInv' /\ op[t].batch \ rejected \subseteq Present'
  BY <1>1, <1>2, <1>3 DEF IInv, PlatformInv, Grows, Present
<1>5. rejected \in SUBSET Requests
  BY <1>3
<1>6. /\ o \in OpRecord /\ o.call = op[t].call /\ o.request = op[t].request /\ o.batch = op[t].batch
      /\ o.rejected = rejected /\ o.seen = platform /\ o.left = op[t].left
      /\ o.known = op[t].known /\ o.new = op[t].new /\ o.yes = op[t].yes
  <2>1. o = [Reply(t) EXCEPT !.rejected = rejected]
    OBVIOUS
  <2> HIDE DEF o
  <2>2. Reply(t) \in OpRecord
    BY ReplyFits
  <2>3. /\ o \in OpRecord /\ o.rejected = rejected /\ o.call = Reply(t).call
        /\ o.request = Reply(t).request /\ o.seen = Reply(t).seen /\ o.left = Reply(t).left
        /\ o.batch = Reply(t).batch /\ o.known = Reply(t).known /\ o.new = Reply(t).new
        /\ o.yes = Reply(t).yes
    BY <1>5, <2>1, <2>2, WithRejected
  <2>4. QED
    BY <2>3, ReplyFits
<1>7. PlaceFits("batch_add", o)
  BY <1>2, <1>3, <1>6 DEF OpFits, PlaceFits
<1>8. AnswerFits("batch_add", o, Present', added'[ClientOf[t]], done')
  <2>1. \A r \in Requests :
          /\ o.seen[r] # "absent" => r \in Present'
          /\ o.seen[r] = "handled" => r \in done'
          /\ o.left[r] # NoLease => r \in Present'
    BY <1>2, <1>3, <1>4, <1>6 DEF IInv, PlatformInv, OpFits, AnswerFits, Grows, Present
  <2>2. QED
    BY <2>1, <1>3, <1>4, <1>6 DEF OpFits, AnswerFits, Grows
<1>9. OpFits(pc[t], o, Present', added'[ClientOf[t]], done')
  BY <1>2, <1>6, <1>7, <1>8 DEF OpFits, Places
<1>10. CallsInv'
  BY <1>1, <1>2, <1>4, <1>9, CallAnswered DEF IInv
<1>11. QED
  BY <1>2, <1>4, <1>10, ClientsStay DEF IInv, HoldsInv

(* Answers that leave the platform's requests alone.                        *)
LEMMA AnswerStep ==
  ASSUME IInv, NEW t \in Tasks, NEW o,
         UNCHANGED <<platform, local, pc, holds, historyVars>>,
         op' = [op EXCEPT ![t] = o], OpFits(pc[t], o, Present, added[ClientOf[t]], done)
  PROVE  IInv'
<1>1. Grows /\ Present' = Present /\ PlatformInv' /\ added' = added /\ done' = done
  BY NothingGrows DEF IInv, historyVars
<1>2. CallsInv'
  BY <1>1, CallAnswered DEF IInv
<1>3. QED
  BY <1>1, <1>2, ClientsStay DEF IInv, HoldsInv

LEMMA AnswerListingStep ==
  ASSUME IInv, NEW t \in Tasks, AnswerListing(t)
  PROVE  IInv'
<1>1. PICK items \in SUBSET {r \in Requests : platform[r] = "pending" /\ lock[r] = Unlocked} :
        op' = [op EXCEPT ![t] = [Reply(t) EXCEPT
                !.left = [r \in Requests |-> IF r \in items THEN LockTime ELSE NoLease],
                !.yes = \E r \in Requests : lock[r].owner \notin {NoClient, ClientOf[t]}]]
  BY DEF AnswerListing
<1> DEFINE left == [r \in Requests |-> IF r \in items THEN LockTime ELSE NoLease]
           others == \E r \in Requests : lock[r].owner \notin {NoClient, ClientOf[t]}
           listed == [Reply(t) EXCEPT !.left = left]
           o == [Reply(t) EXCEPT !.left = left, !.yes = others]
<1>2. pc[t] = "list_and_lock_head" /\ UNCHANGED <<platform, local, pc, holds, historyVars>>
  BY DEF AnswerListing, Pending
<1>3. /\ op[t] \in OpRecord
      /\ OpFits(pc[t], op[t], Present, added[ClientOf[t]], done)
  BY MyOpFits DEF IInv
<1>4. left \in [Requests -> Int] /\ others \in BOOLEAN
  BY DEF NoLease
<1>5. /\ o \in OpRecord
      /\ o.call = op[t].call /\ o.request = op[t].request /\ o.seen = platform
      /\ o.left = left /\ o.known = op[t].known /\ o.new = op[t].new
  <2> HIDE DEF left, others
  <2>1. o = [listed EXCEPT !.yes = others]
    BY ReplyFits DEF OpRecord
  <2>2. /\ listed \in OpRecord /\ listed.left = left /\ listed.call = op[t].call
        /\ listed.request = op[t].request /\ listed.seen = platform
        /\ listed.known = op[t].known /\ listed.new = op[t].new
    <3>1. listed = [Reply(t) EXCEPT !.left = left]
      OBVIOUS
    <3> HIDE DEF listed
    <3>2. QED
      BY <1>4, <3>1, ReplyFits, WithLeft
  <2> HIDE DEF o, listed
  <2>3. QED
    BY <1>4, <2>1, <2>2, WithYes
<1>6. \A r \in Requests :
        /\ o.seen[r] # "absent" => r \in Present
        /\ o.seen[r] = "handled" => r \in done
        /\ left[r] # NoLease => r \in Present
  BY <1>5 DEF IInv, PlatformInv, Present
<1>7. OpFits(pc[t], o, Present, added[ClientOf[t]], done)
  <2> HIDE DEF o, left
  <2>1. QED
    BY <1>2, <1>3, <1>5, <1>6 DEF OpFits, PlaceFits, AnswerFits
<1>8. QED
  BY <1>1, <1>2, <1>7, AnswerStep

(* An answer that changes nothing a fit speaks of but for leases.           *)
LEMMA OpRefits ==
  ASSUME NEW at \in {"prolong_request_lock", "hydrate", "refetch", "metadata", "verify"},
         NEW o, NEW v \in OpRecord, NEW P, NEW A, NEW D, OpFits(at, o, P, A, D),
         v.call = o.call, v.request = o.request, v.known = o.known, v.new = o.new,
         v.batch = o.batch,
         \A r \in Requests :
           /\ v.seen[r] # "absent" => r \in P
           /\ v.seen[r] = "handled" => r \in D
           /\ v.left[r] # NoLease => r \in P
  PROVE  OpFits(at, v, P, A, D)
BY DEF OpFits, PlaceFits, AnswerFits

LEMMA AnswerProlongStep ==
  ASSUME IInv, NEW t \in Tasks, AnswerProlong(t)
  PROVE  IInv'
<1> DEFINE r == op[t].request
<1>1. /\ pc[t] = "prolong_request_lock" /\ UNCHANGED <<platform, local, pc, holds, historyVars>>
  BY DEF AnswerProlong, Pending
<1>2. /\ op[t] \in OpRecord /\ OpFits(pc[t], op[t], Present, added[ClientOf[t]], done)
  BY MyOpFits DEF IInv
<1>3. PICK lease \in Int :
        /\ op' = [op EXCEPT ![t] = [Reply(t) EXCEPT !.left[r] = lease]]
        /\ lease # NoLease => platform[r] = "pending"
  BY DEF AnswerProlong, NoLease
<1> DEFINE x == [op[t].left EXCEPT ![r] = lease]
           o == [Reply(t) EXCEPT !.left[r] = lease]
<1>4. x \in [Requests -> Int]
  BY <1>2 DEF OpRecord
<1>5. o = [Reply(t) EXCEPT !.left = x]
  BY ReplyFits DEF OpRecord
<1>6. Reply(t) \in OpRecord
  BY ReplyFits
<1>7. /\ o \in OpRecord /\ o.left = x /\ o.call = Reply(t).call
      /\ o.request = Reply(t).request /\ o.seen = Reply(t).seen
      /\ o.batch = Reply(t).batch /\ o.known = Reply(t).known /\ o.new = Reply(t).new
  <2> HIDE DEF o, x
  <2>1. QED
    BY <1>4, <1>5, <1>6, WithLeft
<1>8. ASSUME NEW q \in Requests
      PROVE  /\ o.seen[q] # "absent" => q \in Present
             /\ o.seen[q] = "handled" => q \in done
             /\ o.left[q] # NoLease => q \in Present
  <2>1. o.seen = platform
    BY <1>7, ReplyFits
  <2>2. x[q] # NoLease => q \in Present
    BY <1>2, <1>3 DEF OpRecord, OpFits, AnswerFits, Present
  <2>3. QED
    BY <1>7, <2>1, <2>2 DEF IInv, PlatformInv, Present
<1>9. OpFits(pc[t], o, Present, added[ClientOf[t]], done)
  <2> HIDE DEF o, x
  <2>1. QED
    BY <1>1, <1>2, <1>7, <1>8, OpRefits, ReplyFits
<1>10. QED
  BY <1>1, <1>3, <1>9, AnswerStep

LEMMA AnswerReadStep ==
  ASSUME IInv, NEW t \in Tasks, AnswerRead(t)
  PROVE  IInv'
<1>1. /\ pc[t] \in {"hydrate", "refetch", "metadata"}
      /\ UNCHANGED <<platform, local, pc, holds, historyVars>>
  BY DEF AnswerRead, Pending
<1>2. op[t] \in OpRecord /\ OpFits(pc[t], op[t], Present, added[ClientOf[t]], done)
  BY MyOpFits DEF IInv
<1>3. CASE op' = [op EXCEPT ![t] = Reply(t)]
  <2>1. \A r \in Requests :
          /\ Reply(t).seen[r] # "absent" => r \in Present
          /\ Reply(t).seen[r] = "handled" => r \in done
          /\ Reply(t).left[r] # NoLease => r \in Present
    BY <1>2, ReplyFits DEF IInv, PlatformInv, Present, OpFits, AnswerFits
  <2>2. OpFits(pc[t], Reply(t), Present, added[ClientOf[t]], done)
    BY <1>1, <1>2, <2>1, OpRefits, ReplyFits
  <2>3. QED
    BY <1>1, <1>3, <2>2, AnswerStep
<1>4. CASE op' = [op EXCEPT ![t].answered = TRUE]
  <2> DEFINE o == [op[t] EXCEPT !.answered = TRUE]
  <2>1. /\ o \in OpRecord /\ o.call = op[t].call /\ o.request = op[t].request
        /\ o.known = op[t].known /\ o.new = op[t].new /\ o.batch = op[t].batch
        /\ o.seen = op[t].seen /\ o.left = op[t].left
    BY <1>2 DEF OpRecord
  <2>2. \A r \in Requests :
          /\ o.seen[r] # "absent" => r \in Present
          /\ o.seen[r] = "handled" => r \in done
          /\ o.left[r] # NoLease => r \in Present
    BY <1>2, <2>1 DEF OpFits, AnswerFits
  <2>3. OpFits(pc[t], o, Present, added[ClientOf[t]], done)
    <3> HIDE DEF o
    <3>1. QED
      BY <1>1, <1>2, <2>1, <2>2, OpRefits
  <2>4. op' = [op EXCEPT ![t] = o]
    BY <1>4
  <2>5. QED
    BY <1>1, <2>3, <2>4, AnswerStep
<1>5. QED
  BY <1>3, <1>4 DEF AnswerRead

LEMMA AnswerVerifyStep ==
  ASSUME IInv, NEW t \in Tasks, NEW q \in Requests, AnswerVerify(t, q)
  PROVE  IInv'
<1>1. pc[t] = "verify" /\ UNCHANGED <<platform, local, pc, holds, historyVars>>
  BY DEF AnswerVerify
<1>2. op[t] \in OpRecord /\ OpFits(pc[t], op[t], Present, added[ClientOf[t]], done)
  BY MyOpFits DEF IInv
<1>3. PICK s \in [Requests -> Status] :
        /\ op' = [op EXCEPT ![t] = [op[t] EXCEPT !.waits = @ \ {q}, !.seen = s]]
        /\ \A r \in Requests : s[r] \in {op[t].seen[r], platform[r]}
  <2>1. CASE op' = [op EXCEPT ![t].waits = @ \ {q}, ![t].seen[q] = platform[q]]
    <3> DEFINE s == [op[t].seen EXCEPT ![q] = platform[q]]
    <3>1. s \in [Requests -> Status] /\ \A r \in Requests : s[r] \in {op[t].seen[r], platform[r]}
      BY <1>2 DEF OpRecord, IInv, PlatformInv
    <3>2. op' = [op EXCEPT ![t] = [op[t] EXCEPT !.waits = @ \ {q}, !.seen = s]]
      BY <1>2, <2>1 DEF OpRecord, IInv, CallsInv
    <3>3. QED
      BY <3>1, <3>2
  <2>2. CASE op' = [op EXCEPT ![t].waits = @ \ {q}]
    <3>1. op[t].seen \in [Requests -> Status]
      BY <1>2 DEF OpRecord
    <3>2. op' = [op EXCEPT ![t] = [op[t] EXCEPT !.waits = @ \ {q}, !.seen = op[t].seen]]
      BY <1>2, <2>2 DEF OpRecord, IInv, CallsInv
    <3>3. QED
      BY <3>1, <3>2
  <2>3. QED
    BY <2>1, <2>2 DEF AnswerVerify
<1> DEFINE o == [op[t] EXCEPT !.waits = @ \ {q}, !.seen = s]
<1>4. /\ o \in OpRecord /\ o.call = op[t].call /\ o.request = op[t].request
      /\ o.known = op[t].known /\ o.new = op[t].new /\ o.batch = op[t].batch
      /\ o.seen = s /\ o.left = op[t].left
  BY <1>2 DEF OpRecord
<1>5. \A r \in Requests :
        /\ o.seen[r] # "absent" => r \in Present
        /\ o.seen[r] = "handled" => r \in done
        /\ o.left[r] # NoLease => r \in Present
  BY <1>2, <1>3, <1>4 DEF OpFits, AnswerFits, IInv, PlatformInv, Present
<1>6. OpFits(pc[t], o, Present, added[ClientOf[t]], done)
  <2> HIDE DEF o
  <2>1. QED
    BY <1>1, <1>2, <1>4, <1>5, OpRefits
<1>7. op' = [op EXCEPT ![t] = o]
  BY <1>3
<1> HIDE DEF o
<1>8. QED
  BY <1>1, <1>6, <1>7, AnswerStep

LEMMA AnswerUpdateStep ==
  ASSUME IInv, NEW t \in Tasks, AnswerUpdate(t)
  PROVE  IInv'
<1> DEFINE r == op[t].request
<1>1. /\ pc[t] = "update_request" /\ UNCHANGED <<local, pc, holds, added>>
      /\ op' = [op EXCEPT ![t] = Reply(t)]
  BY DEF AnswerUpdate, Pending
<1>2. op[t] \in OpRecord /\ OpFits(pc[t], op[t], Present, added[ClientOf[t]], done)
  BY MyOpFits DEF IInv
<1>3. r \in Requests
  BY <1>1, <1>2 DEF OpFits, PlaceFits
<1>4. \/ op[t].call = "mark" /\ platform' = [platform EXCEPT ![r] = "handled"]
                             /\ done' = done \cup {r}
      \/ op[t].call # "mark" /\ platform' = [platform EXCEPT ![r] = "pending"] /\ done' = done
  BY DEF AnswerUpdate
<1>5. Grows /\ PlatformInv' /\ r \in Present' /\ (op[t].call = "mark" => r \in done')
  <2>1. platform' \in [Requests -> Status] /\ done' \subseteq Requests /\ done \subseteq done'
    BY <1>3, <1>4 DEF IInv, PlatformInv
  <2>2. /\ Present \subseteq Present' /\ r \in Present' /\ (op[t].call = "mark" => r \in done')
        /\ \A q \in Requests : platform'[q] = "handled" => q \in done'
    BY <1>3, <1>4 DEF IInv, PlatformInv, Present
  <2>3. QED
    BY <1>1, <2>1, <2>2 DEF IInv, PlatformInv, Grows
<1>6. OpFits(pc[t], Reply(t), Present', added'[ClientOf[t]], done')
  <2>1. \A q \in Requests :
          /\ Reply(t).seen[q] # "absent" => q \in Present'
          /\ Reply(t).seen[q] = "handled" => q \in done'
          /\ Reply(t).left[q] # NoLease => q \in Present'
    <3>1. \A q \in Requests :
            /\ platform[q] # "absent" => q \in Present
            /\ platform[q] = "handled" => q \in done
            /\ op[t].left[q] # NoLease => q \in Present
      BY <1>2 DEF OpFits, AnswerFits, IInv, PlatformInv, Present
    <3>2. QED
      BY <3>1, <1>5, ReplyFits DEF Grows
  <2>2. PlaceFits(pc[t], Reply(t))
    BY <1>1, <1>2, ReplyFits DEF OpFits, PlaceFits
  <2>3. AnswerFits(pc[t], Reply(t), Present', added'[ClientOf[t]], done')
    BY <1>1, <1>2, <1>5, <2>1, ReplyFits DEF OpFits, AnswerFits, PlaceFits, Grows
  <2>4. QED
    BY <1>2, <2>2, <2>3, ReplyFits DEF OpFits
<1>7. CallsInv'
  BY <1>1, <1>5, <1>6, CallAnswered DEF IInv
<1>8. QED
  BY <1>1, <1>5, <1>7, ClientsStay DEF IInv, HoldsInv

-----------------------------------------------------------------------------
(* The tasks' own steps.                                                    *)

LEMMA TaskStep ==
  ASSUME IInv, NEW t \in Tasks, NEW l, NEW at, NEW o,
         UNCHANGED <<platform, historyVars>>, HoldsInv',
         Becomes(t, l), Awaits(t, at, o),
         ClientFits(l, Present, added[ClientOf[t]], done),
         OpFits(at, o, Present, added[ClientOf[t]], done)
  PROVE  IInv'
<1>1. Grows /\ Present' = Present /\ PlatformInv' /\ added' = added /\ done' = done
  BY NothingGrows DEF IInv, historyVars
<1>2. QED
  BY <1>1, ClientBecomes, CallMoves DEF IInv

LEMMA ClientStays ==
  ASSUME ClientsInv, NEW t \in Tasks, UNCHANGED local
  PROVE  Becomes(t, My(t))
BY DEF Becomes, My, ClientsInv

LEMMA TaskReturns ==
  ASSUME IInv, NEW t \in Tasks, NEW l,
         UNCHANGED <<platform, historyVars>>, HoldsInv', Becomes(t, l), Returns(t),
         ClientFits(l, Present, added[ClientOf[t]], done)
  PROVE  IInv'
BY TaskStep, NoOpFits DEF Returns

LEMMA HoldsStay ==
  ASSUME IInv, UNCHANGED holds
  PROVE  HoldsInv'
BY DEF IInv, HoldsInv

LEMMA EntryOf ==
  ASSUME NEW l \in ClientRecord, NEW r \in Requests
  PROVE  /\ l.cache[r] \in EntryRecord /\ l.cache[r].left \in Int
         /\ l.cache[r].hydrated \in {"uncached", "no"} \cup Status
         /\ l.cache[r].left # NoLease => l.cache[r] # Uncached
BY DEF ClientRecord, EntryRecord, Uncached, Entry

(* Changes to a client object that keep it fitting.                         *)
LEMMA HeadFits ==
  ASSUME NEW l, NEW P, NEW A, NEW D, ClientFits(l, P, A, D),
         NEW h \in Seq(Requests), NEW s \in SUBSET Requests, NEW f \in BOOLEAN,
         NEW v, \/ v = [l EXCEPT !.head = h]
                \/ v = [l EXCEPT !.head = h, !.inProgress = s]
                \/ v = [l EXCEPT !.head = h, !.forefront = f]
                \/ v = [l EXCEPT !.inProgress = s]
                \/ v = [l EXCEPT !.beingAdded = s]
  PROVE  ClientFits(v, P, A, D) /\ v.cache = l.cache
<1>1. v \in ClientRecord /\ v.cache = l.cache /\ v.unhandled = l.unhandled
  <2>0. l \in ClientRecord
    BY DEF ClientFits
  <2>1. CASE v = [l EXCEPT !.head = h]
    BY <2>0, <2>1 DEF ClientRecord
  <2>2. CASE v = [l EXCEPT !.head = h, !.inProgress = s]
    BY <2>0, <2>2 DEF ClientRecord
  <2>3. CASE v = [l EXCEPT !.head = h, !.forefront = f]
    BY <2>0, <2>3 DEF ClientRecord
  <2>4. CASE v = [l EXCEPT !.inProgress = s]
    BY <2>0, <2>4 DEF ClientRecord
  <2>5. CASE v = [l EXCEPT !.beingAdded = s]
    BY <2>0, <2>5 DEF ClientRecord
  <2> QED
    BY <2>1, <2>2, <2>3, <2>4, <2>5
<1>2. QED
  BY <1>1 DEF ClientFits

LEMMA DiscardFits ==
  ASSUME NEW l, NEW P, NEW A, NEW D, ClientFits(l, P, A, D), NEW r
  PROVE  ClientFits(Discard(l, r), P, A, D)
<1>1. l.inProgress \ {r} \in SUBSET Requests
  BY DEF ClientFits, ClientRecord
<1>2. QED
  BY <1>1 DEF Discard, ClientFits, ClientRecord

LEMMA CacheFits ==
  ASSUME NEW l, NEW P, NEW A, NEW D, ClientFits(l, P, A, D), NEW r \in Requests, r \in P,
         NEW entry \in EntryRecord, NEW isHandled \in BOOLEAN, isHandled => r \in D
  PROVE  ClientFits(Cache(l, r, entry, isHandled), P, A, D)
<1> DEFINE v == Cache(l, r, entry, isHandled)
<1>1. /\ v.cache = [l.cache EXCEPT ![r] = entry]
      /\ v.unhandled = IF isHandled THEN l.unhandled \ {r} ELSE l.unhandled \cup {r}
      /\ v \in ClientRecord
  BY DEF Cache, ClientFits, ClientRecord
<1>2. \A q \in Requests : v.cache[q] # Uncached => q \in P
  BY <1>1 DEF ClientFits, ClientRecord
<1>3. A \ D \subseteq v.unhandled
  BY <1>1 DEF ClientFits
<1>4. QED
  BY <1>1, <1>2, <1>3 DEF ClientFits

LEMMA WithRequest ==
  ASSUME NEW o \in OpRecord, NEW r \in Requests, NEW v, v = [o EXCEPT !.request = r]
  PROVE  /\ v \in OpRecord /\ v.request = r /\ v.call = o.call /\ v.answered = o.answered
         /\ v.seen = o.seen /\ v.left = o.left /\ v.known = o.known /\ v.new = o.new
         /\ v.yes = o.yes /\ v.waits = o.waits /\ v.batch = o.batch
BY DEF OpRecord

LEMMA FetchRecord ==
  ASSUME NEW r \in Requests, NEW v, v = [NewOp("fetch") EXCEPT !.request = r]
  PROVE  /\ v \in OpRecord /\ v.request = r /\ v.call = "fetch" /\ ~v.answered
         /\ v.seen = [q \in Requests |-> "absent"] /\ v.left = [q \in Requests |-> NoLease]
         /\ v.known = {} /\ v.new = {}
<1>1. NewOp("fetch") \in OpRecord
  BY NewOpFits
<1>2. /\ v \in OpRecord /\ v.request = r /\ v.call = NewOp("fetch").call
      /\ v.answered = NewOp("fetch").answered /\ v.seen = NewOp("fetch").seen
      /\ v.left = NewOp("fetch").left /\ v.known = NewOp("fetch").known
      /\ v.new = NewOp("fetch").new
  BY <1>1, WithRequest
<1>3. QED
  BY <1>2, NewOpFits

LEMMA FetchFits ==
  ASSUME NEW P, NEW A, NEW D, NEW r \in Requests,
         NEW at \in {"prolong_request_lock", "hydrate", "refetch"}, NEW o \in OpRecord,
         o.request = r, o.call = "fetch", ~o.answered,
         o.seen = [q \in Requests |-> "absent"], o.known = {}, o.new = {},
         \A q \in Requests : o.left[q] # NoLease => q \in P
  PROVE  OpFits(at, o, P, A, D)
BY DEF OpFits, PlaceFits, AnswerFits, Places

LEMMA BareFetchFits ==
  ASSUME NEW P, NEW A, NEW D, NEW r \in Requests,
         NEW at \in {"prolong_request_lock", "hydrate", "refetch"}
  PROVE  OpFits(at, [NewOp("fetch") EXCEPT !.request = r], P, A, D)
<1> DEFINE o == [NewOp("fetch") EXCEPT !.request = r]
<1>1. o = [NewOp("fetch") EXCEPT !.request = r]
  OBVIOUS
<1> HIDE DEF o
<1>2. /\ o \in OpRecord /\ o.request = r /\ o.call = "fetch" /\ ~o.answered
      /\ o.seen = [q \in Requests |-> "absent"] /\ o.known = {} /\ o.new = {}
      /\ o.left = [q \in Requests |-> NoLease]
  BY <1>1, FetchRecord
<1>3. \A q \in Requests : o.left[q] # NoLease => q \in P
  BY <1>2
<1>4. OpFits(at, o, P, A, D)
  BY <1>2, <1>3 DEF OpFits, PlaceFits, AnswerFits, Places
<1>5. QED
  BY <1>4 DEF o

LEMMA LeasedFetchFits ==
  ASSUME NEW P, NEW A, NEW D, NEW r \in Requests, NEW k \in Int, k # NoLease => r \in P,
         NEW at \in {"prolong_request_lock", "hydrate", "refetch"}
  PROVE  OpFits(at, [NewOp("fetch") EXCEPT !.request = r, !.left[r] = k], P, A, D)
<1> DEFINE o == [NewOp("fetch") EXCEPT !.request = r]
           x == [q \in Requests |-> IF q = r THEN k ELSE NoLease]
           v == [NewOp("fetch") EXCEPT !.request = r, !.left[r] = k]
<1>1. o = [NewOp("fetch") EXCEPT !.request = r]
  OBVIOUS
<1>2. x \in [Requests -> Int]
  BY DEF NoLease
<1>3. v = [o EXCEPT !.left = x]
  <2>1. NewOp("fetch") \in OpRecord /\ NewOp("fetch").left = [q \in Requests |-> NoLease]
    BY NewOpFits
  <2>2. [NewOp("fetch").left EXCEPT ![r] = k] = x
    BY <2>1
  <2>3. QED
    BY <2>1, <2>2 DEF OpRecord
<1>4. \A q \in Requests : x[q] # NoLease => q \in P
  OBVIOUS
<1> HIDE DEF o, v, x
<1>5. /\ o \in OpRecord /\ o.request = r /\ o.call = "fetch" /\ ~o.answered
      /\ o.seen = [q \in Requests |-> "absent"] /\ o.known = {} /\ o.new = {}
  BY <1>1, FetchRecord
<1>6. /\ v \in OpRecord /\ v.left = x /\ v.call = o.call /\ v.request = o.request
      /\ v.answered = o.answered /\ v.seen = o.seen /\ v.known = o.known /\ v.new = o.new
  BY <1>2, <1>3, <1>5, WithLeft
<1>7. /\ v.request = r /\ v.call = "fetch" /\ ~v.answered
      /\ v.seen = [q \in Requests |-> "absent"] /\ v.known = {} /\ v.new = {}
      /\ \A q \in Requests : v.left[q] # NoLease => q \in P
  BY <1>4, <1>5, <1>6
<1>9. OpFits(at, v, P, A, D)
  BY <1>6, <1>7, FetchFits
<1>8. QED
  BY <1>9 DEF v

LEMMA LookUpStep ==
  ASSUME IInv, NEW t \in Tasks, NEW r \in Requests, NEW l, LookUp(t, r, l),
         UNCHANGED <<platform, historyVars>>, HoldsInv',
         ClientFits(l, Present, added[ClientOf[t]], done)
  PROVE  IInv'
<1> DEFINE record == [NewOp("fetch") EXCEPT !.request = r, !.left[r] = l.cache[r].left]
<1>1. /\ l.cache[r].left \in Int
      /\ l.cache[r].left # NoLease => r \in Present
  BY EntryOf DEF ClientFits
<1>2. /\ OpFits("hydrate", record, Present, added[ClientOf[t]], done)
      /\ OpFits("refetch", record, Present, added[ClientOf[t]], done)
  BY <1>1, LeasedFetchFits
<1>3. ClientFits(Discard(l, r), Present, added[ClientOf[t]], done)
  BY DiscardFits
<1>4. \/ Becomes(t, l) /\ Awaits(t, "hydrate", record)
      \/ Becomes(t, l) /\ Awaits(t, "refetch", record)
      \/ Becomes(t, Discard(l, r)) /\ Returns(t)
  BY DEF LookUp
<1> HIDE DEF record
<1>5. CASE Becomes(t, l) /\ Awaits(t, "hydrate", record)
  BY <1>2, <1>5, TaskStep
<1>6. CASE Becomes(t, l) /\ Awaits(t, "refetch", record)
  BY <1>2, <1>6, TaskStep
<1>7. CASE Becomes(t, Discard(l, r)) /\ Returns(t)
  BY <1>3, <1>7, TaskReturns
<1>8. QED
  BY <1>4, <1>5, <1>6, <1>7

LEMMA PickStep ==
  ASSUME IInv, NEW t \in Tasks, NEW l, Pick(t, l),
         UNCHANGED <<platform, historyVars>>, HoldsInv',
         ClientFits(l, Present, added[ClientOf[t]], done)
  PROVE  IInv'
<1>1. CASE Becomes(t, [l EXCEPT !.head = <<>>]) /\ Returns(t)
  <2>1. <<>> \in Seq(Requests)
    BY EmptySeq
  <2>2. ClientFits([l EXCEPT !.head = <<>>], Present, added[ClientOf[t]], done)
    BY <2>1, HeadFits
  <2>3. QED
    BY <1>1, <2>2, TaskReturns
<1>2. ASSUME NEW i \in Eligible(l),
             LET r == l.head[i]
                 reserved == [l EXCEPT !.head = SubSeq(@, i + 1, Len(@)),
                                       !.inProgress = @ \cup {r}]
             IN  IF WindowSuffices(l.cache[r].left) THEN LookUp(t, r, reserved)
                 ELSE /\ Becomes(t, reserved)
                      /\ Awaits(t, "prolong_request_lock", [NewOp("fetch") EXCEPT !.request = r])
      PROVE  IInv'
  <2> DEFINE r == l.head[i]
             rest == SubSeq(l.head, i + 1, Len(l.head))
             reserved == [l EXCEPT !.head = SubSeq(@, i + 1, Len(@)), !.inProgress = @ \cup {r}]
  <2>1. l \in ClientRecord /\ l.head \in Seq(Requests) /\ i \in DOMAIN l.head
    BY <1>2 DEF ClientFits, ClientRecord, Eligible
  <2>2. r \in Requests /\ rest \in Seq(Requests)
    BY <2>1, RestIsSequence
  <2>3. l.inProgress \cup {r} \in SUBSET Requests
    BY <2>1, <2>2 DEF ClientRecord
  <2>4. reserved = [l EXCEPT !.head = rest, !.inProgress = l.inProgress \cup {r}]
    BY <2>1 DEF ClientRecord
  <2>5. ClientFits(reserved, Present, added[ClientOf[t]], done)
    <3> HIDE DEF reserved, rest, r
    <3>1. QED
      BY <2>2, <2>3, <2>4, HeadFits
  <2>6. CASE LookUp(t, r, reserved)
    <3> HIDE DEF reserved, rest, r
    <3>1. QED
      BY <2>2, <2>5, <2>6, LookUpStep
  <2>7. CASE /\ Becomes(t, reserved)
             /\ Awaits(t, "prolong_request_lock", [NewOp("fetch") EXCEPT !.request = r])
    <3>1. OpFits("prolong_request_lock", [NewOp("fetch") EXCEPT !.request = r],
                 Present, added[ClientOf[t]], done)
      BY <2>2, BareFetchFits
    <3> HIDE DEF reserved, rest, r
    <3>2. QED
      BY <2>5, <2>7, <3>1, TaskStep
  <2>8. QED
    BY <1>2, <2>6, <2>7
<1>3. QED
  BY <1>1, <1>2 DEF Pick

(* A call that only lists, or asks for the head's metadata.                 *)
LEMMA HeadFits2 ==
  ASSUME NEW P, NEW A, NEW D, NEW at \in {"list_and_lock_head", "metadata"}, NEW o \in OpRecord,
         o.call \in {"fetch", "finished"}, o.request = NoRequest, ~o.answered,
         o.seen = [q \in Requests |-> "absent"], o.left = [q \in Requests |-> NoLease],
         o.new = {}, o.known \subseteq P, o.known \subseteq A
  PROVE  OpFits(at, o, P, A, D)
<1>1. \A q \in Requests : o.seen[q] = "absent" /\ o.left[q] = NoLease
  OBVIOUS
<1>2. QED
  BY <1>1 DEF OpFits, PlaceFits, AnswerFits, Places

LEMMA ListStep ==
  ASSUME IInv, NEW t \in Tasks, NEW o \in OpRecord, List(t, o),
         UNCHANGED <<platform, historyVars>>, HoldsInv',
         o.call \in {"fetch", "finished"}, o.request = NoRequest, ~o.answered,
         o.seen = [q \in Requests |-> "absent"], o.left = [q \in Requests |-> NoLease],
         o.new = {}, o.known \subseteq added[ClientOf[t]]
  PROVE  IInv'
<1> DEFINE l == [My(t) EXCEPT !.head = <<>>, !.forefront = FALSE]
           v == [o EXCEPT !.rest = My(t).head]
<1>1. /\ My(t) \in ClientRecord /\ My(t).head \in Seq(Requests)
      /\ ClientFits(My(t), Present, added[ClientOf[t]], done) /\ <<>> \in Seq(Requests)
      /\ added[ClientOf[t]] \subseteq Present
  BY MyClientFits, EmptySeq DEF IInv, ClientRecord, PlatformInv
<1>2. ClientFits(l, Present, added[ClientOf[t]], done)
  BY <1>1 DEF ClientFits, ClientRecord
<1>3. /\ v \in OpRecord /\ v.call = o.call /\ v.request = o.request /\ v.answered = o.answered
      /\ v.seen = o.seen /\ v.left = o.left /\ v.new = o.new /\ v.known = o.known
  BY <1>1 DEF OpRecord
<1>4. Becomes(t, l) /\ Awaits(t, "list_and_lock_head", v)
  BY DEF List
<1> HIDE DEF l, v
<1>5. OpFits("list_and_lock_head", v, Present, added[ClientOf[t]], done)
  BY <1>1, <1>3, HeadFits2
<1>6. QED
  BY <1>2, <1>4, <1>5, TaskStep

LEMMA CallFetchStep ==
  ASSUME IInv, NEW t \in Tasks, CallFetch(t)
  PROVE  IInv'
<1>1. UNCHANGED <<platform, historyVars>> /\ HoldsInv'
  BY HoldsStay DEF CallFetch
<1>2. ClientFits(My(t), Present, added[ClientOf[t]], done)
  BY MyClientFits DEF IInv
<1>3. /\ NewOp("fetch") \in OpRecord /\ NewOp("fetch").call = "fetch"
      /\ NewOp("fetch").request = NoRequest /\ ~NewOp("fetch").answered
      /\ NewOp("fetch").seen = [q \in Requests |-> "absent"]
      /\ NewOp("fetch").left = [q \in Requests |-> NoLease]
      /\ NewOp("fetch").known = {} /\ NewOp("fetch").new = {}
  BY NewOpFits
<1>4. CASE List(t, NewOp("fetch"))
  BY <1>1, <1>3, <1>4, ListStep
<1>5. CASE Awaits(t, "metadata", NewOp("fetch")) /\ UNCHANGED local
  <2>1. OpFits("metadata", NewOp("fetch"), Present, added[ClientOf[t]], done)
    BY <1>3, HeadFits2
  <2>2. Becomes(t, My(t))
    BY <1>5, ClientStays DEF IInv
  <2>3. QED
    BY <1>1, <1>2, <1>5, <2>1, <2>2, TaskStep
<1>6. CASE Pick(t, My(t))
  BY <1>1, <1>2, <1>6, PickStep
<1>7. QED
  BY <1>4, <1>5, <1>6 DEF CallFetch

(* Everything _list_head makes of an answer fits.                           *)
LEMMA ListedFits ==
  ASSUME IInv, NEW t \in Tasks, pc[t] = "list_and_lock_head", NEW v \in Listed(t)
  PROVE  ClientFits(v, Present, added[ClientOf[t]], done)
<1> DEFINE l == My(t)
           items == {r \in Requests : op[t].left[r] # NoLease} \ l.inProgress
           entries == [r \in Requests |-> IF r \in items THEN Entry("pending", op[t].left[r])
                                          ELSE l.cache[r]]
<1>1. PICK news \in SetToSeqs(items) :
        v = [l EXCEPT !.head = @ \o news \o op[t].rest, !.locked = op[t].yes,
                      !.unhandled = @ \cup items,
                      !.cache = [r \in Requests |-> IF r \in items THEN Entry("pending", op[t].left[r])
                                                    ELSE @[r]]]
  BY DEF Listed
<1>2. /\ l \in ClientRecord /\ ClientFits(l, Present, added[ClientOf[t]], done)
      /\ op[t] \in OpRecord /\ OpFits(pc[t], op[t], Present, added[ClientOf[t]], done)
  BY MyOpFits, MyClientFits DEF IInv
<1>3. items \subseteq Requests /\ items \subseteq Present
  BY <1>2 DEF OpFits, AnswerFits
<1>4. l.head \o news \o op[t].rest \in Seq(Requests)
  <2>1. l.head \in Seq(Requests) /\ op[t].rest \in Seq(Requests)
    BY <1>2 DEF OpRecord, ClientRecord
  <2>2. news \in Seq(Requests)
    BY <1>3, OrdersAreSequences
  <2>3. QED
    BY <2>1, <2>2, ThreeJoin
<1>5. entries \in [Requests -> EntryRecord]
  <2>1. \A r \in Requests : op[t].left[r] \in Int /\ l.cache[r] \in EntryRecord
    BY <1>2 DEF OpRecord, ClientRecord
  <2>2. QED
    BY <2>1, UncachedEntry
<1>6. op[t].yes \in BOOLEAN /\ l.unhandled \cup items \in SUBSET Requests
  BY <1>2, <1>3 DEF OpRecord, ClientRecord
<1>7. v = [l EXCEPT !.head = l.head \o news \o op[t].rest, !.locked = op[t].yes,
                    !.unhandled = l.unhandled \cup items, !.cache = entries]
  BY <1>1, <1>2 DEF ClientRecord
<1>8. \A r \in Requests : entries[r] # Uncached => r \in Present
  BY <1>2, <1>3 DEF ClientFits
<1> HIDE DEF items, entries
<1>9. /\ v \in ClientRecord /\ v.cache = entries /\ v.unhandled = l.unhandled \cup items
  <2> DEFINE h == l.head \o news \o op[t].rest
             y == op[t].yes
             n == l.unhandled \cup items
  <2>1. h \in Seq(Requests) /\ y \in BOOLEAN /\ n \in SUBSET Requests
    BY <1>4, <1>6
  <2>2. v = [l EXCEPT !.head = h, !.locked = y, !.unhandled = n, !.cache = entries]
    BY <1>7
  <2> HIDE DEF h, y, n
  <2>3. v \in ClientRecord /\ v.cache = entries /\ v.unhandled = n
    BY <1>2, <1>5, <2>1, <2>2 DEF ClientRecord
  <2>4. QED
    BY <2>3 DEF n
<1>10. QED
  BY <1>2, <1>8, <1>9 DEF ClientFits

LEMMA FetchHeadListedStep ==
  ASSUME IInv, NEW t \in Tasks, FetchHeadListed(t)
  PROVE  IInv'
<1>1. UNCHANGED <<platform, historyVars>> /\ HoldsInv'
  BY HoldsStay DEF FetchHeadListed
<1>2. CASE Pick(t, My(t))
  <2>1. ClientFits(My(t), Present, added[ClientOf[t]], done)
    BY MyClientFits DEF IInv
  <2>2. QED
    BY <1>1, <1>2, <2>1, PickStep
<1>3. CASE Answered(t, "list_and_lock_head") /\ \E l \in Listed(t) : Pick(t, l)
  <2>1. PICK l \in Listed(t) : Pick(t, l)
    BY <1>3
  <2>2. ClientFits(l, Present, added[ClientOf[t]], done)
    BY <1>3, ListedFits DEF Answered
  <2>3. QED
    BY <1>1, <2>1, <2>2, PickStep
<1>4. QED
  BY <1>2, <1>3 DEF FetchHeadListed

LEMMA LeaseFits ==
  ASSUME NEW l, NEW P, NEW A, NEW D, ClientFits(l, P, A, D), NEW r \in Requests, r \in P,
         NEW k \in Int
  PROVE  ClientFits([l EXCEPT !.cache[r].left = k], P, A, D)
<1> DEFINE entries == [l.cache EXCEPT ![r] = Entry(l.cache[r].hydrated, k)]
           v == [l EXCEPT !.cache[r].left = k]
<1>1. l.cache[r] \in EntryRecord /\ l.cache \in [Requests -> EntryRecord] /\ l \in ClientRecord
  BY DEF ClientFits, ClientRecord
<1>2. entries \in [Requests -> EntryRecord]
  BY <1>1, UncachedEntry DEF EntryRecord
<1>3. [l.cache[r] EXCEPT !.left = k] = Entry(l.cache[r].hydrated, k)
  BY <1>1 DEF EntryRecord, Entry
<1>4. v = [l EXCEPT !.cache = entries]
  BY <1>1, <1>3 DEF ClientRecord
<1>5. \A q \in Requests : entries[q] # Uncached => q \in P
  BY <1>1 DEF ClientFits
<1> HIDE DEF v, entries
<1>6. v \in ClientRecord /\ v.cache = entries /\ v.unhandled = l.unhandled
  BY <1>1, <1>2, <1>4 DEF ClientRecord
<1>7. ClientFits(v, P, A, D)
  BY <1>5, <1>6 DEF ClientFits
<1>8. QED
  BY <1>7 DEF v

LEMMA ProlongedStep ==
  ASSUME IInv, NEW t \in Tasks, Prolonged(t)
  PROVE  IInv'
<1> DEFINE r == op[t].request
           k == op[t].left[r]
<1>1. UNCHANGED <<platform, historyVars>> /\ HoldsInv' /\ pc[t] = "prolong_request_lock"
  BY HoldsStay DEF Prolonged, Answered
<1>2. /\ ClientFits(My(t), Present, added[ClientOf[t]], done)
      /\ op[t] \in OpRecord /\ OpFits(pc[t], op[t], Present, added[ClientOf[t]], done)
  BY MyClientFits, MyOpFits DEF IInv
<1>3. r \in Requests /\ k \in Int /\ (k # NoLease => r \in Present)
  BY <1>1, <1>2 DEF OpFits, PlaceFits, AnswerFits, OpRecord
<1>4. CASE Becomes(t, Discard(My(t), r)) /\ Returns(t)
  BY <1>1, <1>2, <1>4, DiscardFits, TaskReturns
<1>5. CASE k # NoLease /\ LookUp(t, r, [My(t) EXCEPT !.cache[r].left = k])
  <2>1. ClientFits([My(t) EXCEPT !.cache[r].left = k], Present, added[ClientOf[t]], done)
    BY <1>2, <1>3, <1>5, LeaseFits
  <2>2. QED
    BY <1>1, <1>3, <1>5, <2>1, LookUpStep
<1>6. QED
  BY <1>4, <1>5 DEF Prolonged

LEMMA HydratedStep ==
  ASSUME IInv, NEW t \in Tasks, Hydrated(t)
  PROVE  IInv'
<1> DEFINE r == op[t].request
           status == op[t].seen[r]
           l == Cache(My(t), r, Entry(status, op[t].left[r]), status = "handled")
<1>1. UNCHANGED <<platform, historyVars>> /\ HoldsInv' /\ pc[t] = "hydrate"
  BY HoldsStay DEF Hydrated, Answered
<1>2. /\ ClientFits(My(t), Present, added[ClientOf[t]], done)
      /\ op[t] \in OpRecord /\ OpFits(pc[t], op[t], Present, added[ClientOf[t]], done)
  BY MyClientFits, MyOpFits DEF IInv
<1>3. /\ r \in Requests /\ op[t].left[r] \in Int /\ status \in Status
      /\ (status # "absent" => r \in Present) /\ (status = "handled" => r \in done)
  BY <1>1, <1>2 DEF OpFits, PlaceFits, AnswerFits, OpRecord
<1>4. CASE Becomes(t, Discard(My(t), r)) /\ Returns(t)
  BY <1>1, <1>2, <1>4, DiscardFits, TaskReturns
<1>5. ASSUME status # "absent"
      PROVE  ClientFits(l, Present, added[ClientOf[t]], done)
  <2>1. Entry(status, op[t].left[r]) \in EntryRecord
    BY <1>3, UncachedEntry
  <2>2. QED
    BY <1>2, <1>3, <1>5, <2>1, CacheFits
<1>6. CASE /\ status # "absent" /\ Becomes(t, l)
           /\ Awaits(t, "refetch", [NewOp("fetch") EXCEPT !.request = r])
  <2>1. OpFits("refetch", [NewOp("fetch") EXCEPT !.request = r],
               Present, added[ClientOf[t]], done)
    BY <1>3, BareFetchFits
  <2> HIDE DEF l, r
  <2>2. QED
    BY <1>1, <1>5, <1>6, <2>1, TaskStep
<1>7. CASE status # "absent" /\ Becomes(t, Discard(l, r)) /\ Returns(t)
  <2> HIDE DEF l
  <2>1. QED
    BY <1>1, <1>5, <1>7, DiscardFits, TaskReturns
<1>8. QED
  BY <1>4, <1>6, <1>7 DEF Hydrated

LEMMA RefetchedStep ==
  ASSUME IInv, NEW t \in Tasks, Refetched(t)
  PROVE  IInv'
<1> DEFINE r == op[t].request
<1>1. UNCHANGED <<platform, historyVars>> /\ pc[t] = "refetch" /\ Returns(t)
  BY DEF Refetched, Answered
<1>2. /\ ClientFits(My(t), Present, added[ClientOf[t]], done)
      /\ op[t] \in OpRecord /\ OpFits(pc[t], op[t], Present, added[ClientOf[t]], done)
  BY MyClientFits, MyOpFits DEF IInv
<1>3. r \in Requests
  BY <1>1, <1>2 DEF OpFits, PlaceFits
<1>4. HoldsInv'
  BY <1>3 DEF Refetched, IInv, HoldsInv
<1>5. CASE Becomes(t, Discard(My(t), r))
  BY <1>1, <1>2, <1>4, <1>5, DiscardFits, TaskReturns
<1>6. CASE UNCHANGED local
  BY <1>1, <1>2, <1>4, <1>6, ClientStays, TaskReturns DEF IInv
<1>7. QED
  BY <1>5, <1>6 DEF Refetched

(* add_batch_of_requests.                                                   *)
LEMMA AddFits ==
  ASSUME NEW P, NEW A, NEW D, NEW at \in {"batch_add", "in_flight"}, NEW o \in OpRecord,
         o.call = "add", ~o.answered, o.known \subseteq P, o.new \subseteq P,
         \A r \in Requests :
           /\ o.seen[r] # "absent" => r \in P
           /\ o.seen[r] = "handled" => r \in D
           /\ o.left[r] # NoLease => r \in P
  PROVE  OpFits(at, o, P, A, D)
BY DEF OpFits, PlaceFits, AnswerFits, Places

LEMMA CallAddStep ==
  ASSUME IInv, NEW t \in Tasks, CallAdd(t)
  PROVE  IInv'
<1>1. UNCHANGED <<platform, historyVars>> /\ HoldsInv'
  BY HoldsStay DEF CallAdd
<1>2. PICK b \in Batches :
        LET l == My(t)
            known == {r \in b : l.cache[r] # Uncached}
            send == b \ (known \cup l.beingAdded)
            waits == b \ (known \cup send)
            record == [NewOp("add") EXCEPT !.batch = send, !.known = known, !.waits = waits]
        IN  /\ Becomes(t, [l EXCEPT !.beingAdded = @ \cup send])
            /\ IF b = known THEN Returns(t)
               ELSE Awaits(t, IF send # {} THEN "batch_add" ELSE "in_flight", record)
  BY DEF CallAdd
<1> DEFINE known == {r \in b : My(t).cache[r] # Uncached}
           send == b \ (known \cup My(t).beingAdded)
           waits == b \ (known \cup send)
           record == [NewOp("add") EXCEPT !.batch = send, !.known = known, !.waits = waits]
           l == [My(t) EXCEPT !.beingAdded = @ \cup send]
           at == IF send # {} THEN "batch_add" ELSE "in_flight"
<1>3. /\ ClientFits(My(t), Present, added[ClientOf[t]], done) /\ My(t) \in ClientRecord
  BY MyClientFits DEF IInv
<1>4. b \subseteq Requests
  OBVIOUS
<1>5. known \subseteq Requests /\ send \subseteq Requests /\ waits \subseteq Requests
  BY <1>4
<1>6. known \subseteq Present
  BY <1>3, <1>4 DEF ClientFits
<1>7. ClientFits(l, Present, added[ClientOf[t]], done)
  <2>1. My(t).beingAdded \cup send \in SUBSET Requests
    BY <1>3, <1>5 DEF ClientRecord
  <2>2. l = [My(t) EXCEPT !.beingAdded = My(t).beingAdded \cup send]
    BY <1>3 DEF ClientRecord
  <2> DEFINE x == My(t).beingAdded \cup send
  <2> HIDE DEF l, send, x
  <2>3. QED
    BY <1>3, <2>1, <2>2 DEF x, ClientFits, ClientRecord
<1>8. OpFits(at, record, Present, added[ClientOf[t]], done)
  <2> HIDE DEF known, send, waits
  <2>1. NewOp("add") \in OpRecord
    BY NewOpFits
  <2>2. /\ record \in OpRecord /\ record.call = NewOp("add").call
        /\ record.answered = NewOp("add").answered /\ record.known = known
        /\ record.new = NewOp("add").new /\ record.seen = NewOp("add").seen
        /\ record.left = NewOp("add").left
    BY <1>5, <2>1 DEF OpRecord
  <2>3. /\ record.call = "add" /\ ~record.answered /\ record.known = known /\ record.new = {}
        /\ \A q \in Requests : record.seen[q] = "absent" /\ record.left[q] = NoLease
    BY <2>2, NewOpFits
  <2>4. at \in {"batch_add", "in_flight"}
    OBVIOUS
  <2> HIDE DEF record, at
  <2>5. \A q \in Requests :
          /\ record.seen[q] # "absent" => q \in Present
          /\ record.seen[q] = "handled" => q \in done
          /\ record.left[q] # NoLease => q \in Present
    BY <2>3
  <2>6. record.known \subseteq Present /\ record.new \subseteq Present
    BY <1>6, <2>3
  <2>7. QED
    BY <2>2, <2>3, <2>4, <2>5, <2>6 DEF OpFits, PlaceFits, AnswerFits, Places
<1>9. Becomes(t, l) /\ (Returns(t) \/ Awaits(t, at, record))
  BY <1>2
<1> HIDE DEF l, record, at
<1>10. QED
  BY <1>1, <1>7, <1>8, <1>9, TaskStep, TaskReturns

LEMMA AddReturnsStep ==
  ASSUME IInv, NEW t \in Tasks, AddReturns(t)
  PROVE  IInv'
<1> DEFINE n == My(t).total + Cardinality(op[t].new)
           l == [My(t) EXCEPT !.total = @ + Cardinality(op[t].new)]
<1>1. UNCHANGED <<platform, historyVars>> /\ HoldsInv' /\ Returns(t) /\ Becomes(t, l)
  BY HoldsStay DEF AddReturns
<1>2. /\ ClientFits(My(t), Present, added[ClientOf[t]], done) /\ My(t) \in ClientRecord
      /\ op[t] \in OpRecord
  BY MyClientFits, MyOpFits DEF IInv
<1>3. n \in Int
  <2>1. Cardinality(op[t].new) \in Nat
    BY <1>2, FS_Subset, FS_CardinalityType DEF OpRecord
  <2>2. My(t).total \in Int
    BY <1>2 DEF ClientRecord
  <2>3. QED
    BY <2>1, <2>2
<1>4. l = [My(t) EXCEPT !.total = n]
  BY <1>2 DEF ClientRecord
<1>5. ClientFits(l, Present, added[ClientOf[t]], done)
  <2> HIDE DEF n, l
  <2>1. QED
    BY <1>2, <1>3, <1>4 DEF ClientFits, ClientRecord
<1>6. QED
  BY <1>1, <1>5, TaskReturns

(* settle_pending_addition: the calls that waited keep fitting.             *)
LEMMA SettleStep ==
  ASSUME CallsInv, Grows, NEW t \in Tasks, NEW at, NEW o, NEW committed \in SUBSET Requests,
         Settle(t, at, o, committed), committed \subseteq Present',
         OpFits(at, o, Present', added'[ClientOf[t]], done')
  PROVE  CallsInv'
<1>1. ASSUME NEW u \in Tasks
      PROVE  /\ op'[u] \in OpRecord
             /\ OpFits(pc'[u], op'[u], Present', added'[ClientOf[u]], done')
  <2>1. CASE u = t
    BY <2>1 DEF CallsInv, Settle, OpFits
  <2>2. CASE u # t
    <3>1. pc'[u] = pc[u] /\ pc[u] \in Places /\ op[u] \in OpRecord
      BY <2>2 DEF CallsInv, Settle
    <3>2. OpFits(pc[u], op[u], Present', added'[ClientOf[u]], done')
      BY OpGrows DEF CallsInv, Grows
    <3>3. CASE op'[u] = op[u]
      BY <3>1, <3>2, <3>3
    <3>4. CASE /\ op[u].call = "add"
               /\ op'[u] = [op[u] EXCEPT !.known = @ \cup (op[u].waits \cap committed),
                                         !.waits = @ \ op[t].batch]
      <4> DEFINE known == op[u].known \cup (op[u].waits \cap committed)
                 waits == op[u].waits \ op[t].batch
      <4>1. known \in SUBSET Requests /\ waits \in SUBSET Requests
        BY <3>1 DEF OpRecord
      <4>2. op'[u] = [op[u] EXCEPT !.known = known, !.waits = waits]
        BY <3>1, <3>4 DEF OpRecord
      <4>3. known \subseteq Present'
        BY <3>2 DEF OpFits, AnswerFits
      <4> HIDE DEF known, waits
      <4>4. /\ op'[u] \in OpRecord /\ op'[u].known = known /\ op'[u].call = op[u].call
            /\ op'[u].request = op[u].request /\ op'[u].answered = op[u].answered
            /\ op'[u].seen = op[u].seen /\ op'[u].left = op[u].left /\ op'[u].new = op[u].new
            /\ op'[u].batch = op[u].batch /\ op'[u].rejected = op[u].rejected
            /\ op'[u].yes = op[u].yes
        BY <3>1, <4>1, <4>2 DEF OpRecord
      <4>5. PlaceFits(pc[u], op'[u])
        BY <3>2, <4>4 DEF OpFits, PlaceFits
      <4>6. AnswerFits(pc[u], op'[u], Present', added'[ClientOf[u]], done')
        BY <3>2, <3>4, <4>3, <4>4 DEF OpFits, AnswerFits, PlaceFits
      <4>7. QED
        BY <3>1, <4>4, <4>5, <4>6 DEF OpFits
    <3>5. QED
      BY <2>2, <3>3, <3>4 DEF Settle
  <2>3. QED
    BY <2>1, <2>2
<1>2. pc' \in [Tasks -> Places] /\ op' \in [Tasks -> OpRecord]
  <2>1. pc' \in [Tasks -> Places]
    BY DEF CallsInv, Settle, OpFits
  <2>2. DOMAIN op' = Tasks /\ op' = [u \in Tasks |-> op'[u]]
    BY DEF Settle
  <2>3. QED
    BY <1>1, <2>1, <2>2
<1>3. QED
  BY <1>1, <1>2 DEF CallsInv

LEMMA BatchAnsweredStep ==
  ASSUME IInv, NEW t \in Tasks, BatchAnswered(t)
  PROVE  IInv'
<1> DEFINE committed == op[t].batch \ op[t].rejected
           new == {r \in committed : op[t].seen[r] = "absent"}
           record == [op[t] EXCEPT !.batch = {}, !.new = new, !.known = @ \cup (committed \ new)]
           n == IF record.waits = {} THEN My(t).total + Cardinality(new) ELSE My(t).total
           entries == [r \in Requests |-> IF r \in committed THEN Entry("no", NoLease)
                                          ELSE My(t).cache[r]]
           l == [My(t) EXCEPT
                  !.cache = [r \in Requests |-> IF r \in committed THEN Entry("no", NoLease)
                                                ELSE @[r]],
                  !.unhandled = @ \cup committed, !.beingAdded = @ \ op[t].batch,
                  !.total = IF record.waits = {} THEN @ + Cardinality(new) ELSE @]
<1>1. /\ pc[t] = "batch_add" /\ op[t].answered /\ UNCHANGED <<platform, holds, done>>
      /\ Becomes(t, l)
      /\ added' = [added EXCEPT ![ClientOf[t]] = @ \cup committed]
      /\ Settle(t, "idle", NoOp, committed) \/ Settle(t, "in_flight", record, committed)
  BY DEF BatchAnswered, Answered
<1>2. /\ ClientFits(My(t), Present, added[ClientOf[t]], done) /\ My(t) \in ClientRecord
      /\ op[t] \in OpRecord /\ OpFits(pc[t], op[t], Present, added[ClientOf[t]], done)
  BY MyClientFits, MyOpFits DEF IInv
<1>3. /\ op[t].batch \subseteq Requests /\ committed \subseteq Requests /\ new \subseteq committed
      /\ committed \subseteq Present
  BY <1>1, <1>2 DEF OpRecord, OpFits, AnswerFits
<1>4. Present' = Present /\ PlatformInv' /\ Grows
  <2>1. Present' = Present
    BY <1>1 DEF Present
  <2>2. added' \in [Clients -> SUBSET Present] /\ \A c \in Clients : added[c] \subseteq added'[c]
    BY <1>1, <1>3 DEF IInv, PlatformInv
  <2>3. QED
    BY <1>1, <2>1, <2>2 DEF IInv, PlatformInv, Grows
<1>5. added'[ClientOf[t]] = added[ClientOf[t]] \cup committed
  BY <1>1 DEF IInv, PlatformInv
<1>6. ClientFits(l, Present', added'[ClientOf[t]], done')
  <2>1. Cardinality(new) \in Nat
    BY <1>3, FS_Subset, FS_CardinalityType
  <2>2. My(t).total \in Int
    BY <1>2 DEF ClientRecord
  <2>3. n \in Int
    <3> HIDE DEF new, record
    <3>1. QED
      BY <2>1, <2>2
  <2>4. entries \in [Requests -> EntryRecord]
    <3>1. Entry("no", NoLease) \in EntryRecord
      BY UncachedEntry DEF NoLease
    <3>2. \A r \in Requests : My(t).cache[r] \in EntryRecord
      BY <1>2 DEF ClientRecord
    <3> HIDE DEF committed
    <3>3. QED
      BY <3>1, <3>2
  <2>5. \A r \in Requests : entries[r] # Uncached => r \in Present
    BY <1>2, <1>3 DEF ClientFits
  <2> DEFINE x == My(t).unhandled \cup committed
             y == My(t).beingAdded \ op[t].batch
  <2>6. x \in SUBSET Requests /\ y \in SUBSET Requests
    BY <1>2, <1>3 DEF ClientRecord
  <2>7. l = [My(t) EXCEPT !.cache = entries, !.unhandled = x, !.beingAdded = y, !.total = n]
    <3> HIDE DEF committed, new, record
    <3>1. QED
      BY <1>2 DEF ClientRecord
  <2>8. added'[ClientOf[t]] \ done' \subseteq x
    BY <1>1, <1>2, <1>5 DEF ClientFits
  <2> HIDE DEF committed, new, record, n, entries, l, x, y
  <2>9. l \in ClientRecord /\ l.cache = entries /\ l.unhandled = x
    BY <1>2, <2>3, <2>4, <2>6, <2>7 DEF ClientRecord
  <2>10. QED
    BY <1>4, <2>5, <2>8, <2>9 DEF ClientFits
<1>7. ClientsInv'
  <2>1. \A c \in Clients : c # ClientOf[t] => added'[c] = added[c]
    BY <1>1 DEF IInv, PlatformInv
  <2> HIDE DEF l, committed
  <2>2. QED
    BY <1>1, <1>4, <1>6, <2>1, ClientBecomes DEF IInv
<1>8. OpFits("in_flight", record, Present', added'[ClientOf[t]], done')
  <2> DEFINE known == op[t].known \cup (committed \ new)
  <2>1. known \in SUBSET Requests /\ known \subseteq Present /\ new \in SUBSET Requests
    BY <1>2, <1>3 DEF OpRecord, OpFits, AnswerFits
  <2>2. record = [op[t] EXCEPT !.batch = {}, !.new = new, !.known = known]
    BY <1>2 DEF OpRecord
  <2> HIDE DEF known, new, record
  <2>3. /\ record \in OpRecord /\ record.call = op[t].call /\ record.known = known
        /\ record.new = new /\ record.seen = op[t].seen /\ record.left = op[t].left
    BY <1>2, <2>1, <2>2 DEF OpRecord
  <2>4. op[t].call = "add" /\ new \subseteq Present
    BY <1>1, <1>2, <1>3 DEF OpFits, PlaceFits
  <2>5. \A q \in Requests :
          /\ record.seen[q] # "absent" => q \in Present
          /\ record.seen[q] = "handled" => q \in done
          /\ record.left[q] # NoLease => q \in Present
    BY <1>2, <2>3 DEF OpFits, AnswerFits
  <2>6. QED
    BY <1>1, <1>4, <2>1, <2>3, <2>4, <2>5 DEF OpFits, PlaceFits, AnswerFits, Places
<1>9. OpFits("idle", NoOp, Present', added'[ClientOf[t]], done')
  BY NoOpFits
<1>10. CallsInv'
  <2> HIDE DEF record, committed
  <2>1. committed \in SUBSET Requests /\ committed \subseteq Present'
    BY <1>3, <1>4
  <2>2. CASE Settle(t, "idle", NoOp, committed)
    BY <1>4, <1>9, <2>1, <2>2, SettleStep DEF IInv
  <2>3. CASE Settle(t, "in_flight", record, committed)
    BY <1>4, <1>8, <2>1, <2>3, SettleStep DEF IInv
  <2>4. QED
    BY <1>1, <2>2, <2>3
<1>11. QED
  BY <1>1, <1>4, <1>7, <1>10, HoldsStay DEF IInv

(* mark_request_as_handled, reclaim_request.                                *)
LEMMA GivesUpStep ==
  ASSUME IInv, NEW t \in Tasks, holds[t] # NoRequest, NEW call \in {"mark", "reclaim"},
         GivesUp(t, call)
  PROVE  IInv'
<1> DEFINE r == holds[t]
<1>1. PICK f \in BOOLEAN :
        Awaits(t, "update_request", [NewOp(call) EXCEPT !.request = r, !.forefront = f])
  BY DEF GivesUp
<1> DEFINE o == [NewOp(call) EXCEPT !.request = r, !.forefront = f]
<1>2. UNCHANGED <<platform, historyVars>> /\ Becomes(t, Discard(My(t), r))
  BY DEF GivesUp
<1>3. r \in Requests /\ HoldsInv'
  BY DEF IInv, HoldsInv, GivesUp
<1>4. ClientFits(Discard(My(t), r), Present, added[ClientOf[t]], done)
  BY MyClientFits, DiscardFits DEF IInv
<1>5. OpFits("update_request", o, Present, added[ClientOf[t]], done)
  <2>1. NewOp(call) \in OpRecord
    BY NewOpFits
  <2>2. /\ o \in OpRecord /\ o.call = NewOp(call).call /\ o.request = r
        /\ o.answered = NewOp(call).answered /\ o.known = NewOp(call).known
        /\ o.new = NewOp(call).new /\ o.seen = NewOp(call).seen /\ o.left = NewOp(call).left
    <3> HIDE DEF r
    <3>1. QED
      BY <1>3, <2>1 DEF OpRecord
  <2>3. /\ o.call = call /\ ~o.answered /\ o.known = {} /\ o.new = {}
        /\ \A q \in Requests : o.seen[q] = "absent" /\ o.left[q] = NoLease
    BY <2>2, NewOpFits
  <2> HIDE DEF o, r
  <2>4. QED
    BY <1>3, <2>2, <2>3 DEF OpFits, PlaceFits, AnswerFits, Places
<1>6. Awaits(t, "update_request", o)
  BY <1>1
<1> HIDE DEF o, r
<1>7. QED
  BY <1>2, <1>3, <1>4, <1>5, <1>6, TaskStep

LEMMA UpdatedStep ==
  ASSUME IInv, NEW t \in Tasks, Updated(t)
  PROVE  IInv'
<1> DEFINE r == op[t].request
           marks == op[t].call = "mark"
           n == My(t).handled + CountsChange(op[t].call, op[t].seen[r] = "handled")
           f == My(t).forefront \/ op[t].forefront
           l == [My(t) EXCEPT !.handled = @ + CountsChange(op[t].call, op[t].seen[r] = "handled"),
                              !.forefront = @ \/ op[t].forefront]
           e == Entry(IF marks THEN "handled" ELSE "pending", NoLease)
<1>1. /\ UNCHANGED <<platform, historyVars>> /\ HoldsInv' /\ Returns(t)
      /\ pc[t] = "update_request" /\ op[t].answered
      /\ Becomes(t, Cache(l, r, e, marks))
  BY HoldsStay DEF Updated, Answered
<1>2. /\ ClientFits(My(t), Present, added[ClientOf[t]], done) /\ My(t) \in ClientRecord
      /\ op[t] \in OpRecord /\ OpFits(pc[t], op[t], Present, added[ClientOf[t]], done)
  BY MyClientFits, MyOpFits DEF IInv
<1>3. r \in Requests /\ r \in Present /\ (marks => r \in done)
  BY <1>1, <1>2 DEF OpFits, PlaceFits, AnswerFits
<1>4. ClientFits(l, Present, added[ClientOf[t]], done)
  <2>1. n \in Int
    BY <1>2 DEF ClientRecord, CountsChange
  <2>2. f \in BOOLEAN
    BY <1>2 DEF ClientRecord, OpRecord
  <2>3. l = [My(t) EXCEPT !.handled = n, !.forefront = f]
    BY <1>2 DEF ClientRecord
  <2> HIDE DEF n, f, l
  <2>4. QED
    BY <1>2, <2>1, <2>2, <2>3 DEF ClientFits, ClientRecord
<1>5. e \in EntryRecord
  BY UncachedEntry DEF NoLease
<1>6. ClientFits(Cache(l, r, e, marks), Present, added[ClientOf[t]], done)
  <2>1. marks \in BOOLEAN
    OBVIOUS
  <2> HIDE DEF l, e, r, marks
  <2>2. QED
    BY <1>3, <1>4, <1>5, <2>1, CacheFits
<1> HIDE DEF l, e, r, marks
<1>7. QED
  BY <1>1, <1>6, TaskReturns

(* is_finished.                                                             *)
LEMMA FinishedRecord ==
  ASSUME NEW k \in SUBSET Requests, NEW v, v = [NewOp("finished") EXCEPT !.known = k]
  PROVE  /\ v \in OpRecord /\ v.call = "finished" /\ v.known = k /\ v.request = NoRequest
         /\ ~v.answered /\ v.new = {} /\ v.seen = [q \in Requests |-> "absent"]
         /\ v.left = [q \in Requests |-> NoLease]
<1>1. NewOp("finished") \in OpRecord
  BY NewOpFits
<1>2. /\ v \in OpRecord /\ v.call = NewOp("finished").call /\ v.known = k
      /\ v.request = NewOp("finished").request /\ v.answered = NewOp("finished").answered
      /\ v.new = NewOp("finished").new /\ v.seen = NewOp("finished").seen
      /\ v.left = NewOp("finished").left
  BY <1>1 DEF OpRecord
<1>3. QED
  BY <1>2, NewOpFits

LEMMA VerdictStep ==
  ASSUME IInv, NEW t \in Tasks, NEW record, NEW yes \in BOOLEAN, Verdict(t, record, yes), NEW l,
         UNCHANGED <<platform, historyVars>>, HoldsInv', Becomes(t, l),
         ClientFits(l, Present, added[ClientOf[t]], done),
         record.known \in SUBSET Requests, record.known \subseteq Present,
         yes => record.known \subseteq done
  PROVE  IInv'
<1>1. CASE Returns(t)
  BY <1>1, TaskReturns
<1>2. CASE /\ yes
           /\ Awaits(t, "idle", [NewOp("finished") EXCEPT !.known = record.known, !.yes = TRUE])
  <2> DEFINE k == record.known
             o == [NewOp("finished") EXCEPT !.known = k]
             v == [NewOp("finished") EXCEPT !.known = k, !.yes = TRUE]
  <2>1. /\ o \in OpRecord /\ o.call = "finished" /\ o.known = k
        /\ ~o.answered /\ o.new = {} /\ o.seen = [q \in Requests |-> "absent"]
        /\ o.left = [q \in Requests |-> NoLease]
    <3>1. o = [NewOp("finished") EXCEPT !.known = k]
      OBVIOUS
    <3> HIDE DEF o, k
    <3>2. k \in SUBSET Requests
      BY DEF k
    <3>3. QED
      BY <3>1, <3>2, FinishedRecord
  <2>2. v = [o EXCEPT !.yes = TRUE]
    BY NewOpFits DEF OpRecord
  <2> HIDE DEF o, v
  <2>3. /\ v \in OpRecord /\ v.call = "finished" /\ v.known = k /\ v.new = {}
        /\ v.seen = o.seen /\ v.left = o.left
    BY <2>1, <2>2 DEF OpRecord
  <2>4. \A q \in Requests : v.seen[q] = "absent" /\ v.left[q] = NoLease
    BY <2>1, <2>3
  <2>5. OpFits("idle", v, Present, added[ClientOf[t]], done)
    BY <1>2, <2>3, <2>4 DEF OpFits, PlaceFits, AnswerFits, Places
  <2>6. Awaits(t, "idle", v)
    BY <1>2 DEF v
  <2>7. QED
    BY <2>5, <2>6, TaskStep
<1>3. QED
  BY <1>1, <1>2 DEF Verdict

LEMMA ConcludesStep ==
  ASSUME IInv, NEW t \in Tasks, NEW record, NEW l, NEW empty, Concludes(t, record, l, empty),
         UNCHANGED <<platform, historyVars>>, HoldsInv', Becomes(t, l),
         ClientFits(l, Present, added[ClientOf[t]], done),
         record.known \subseteq added[ClientOf[t]]
  PROVE  IInv'
<1>1. added[ClientOf[t]] \subseteq Present /\ Present \subseteq Requests
  BY DEF IInv, PlatformInv, Present
<1>2. record.known \in SUBSET Requests /\ record.known \subseteq Present
  BY <1>1
<1>3. l \in ClientRecord /\ record.known \subseteq l.unhandled \cup done
      /\ l.unhandled \subseteq Requests
  BY DEF ClientFits, ClientRecord
<1>4. CASE Verdict(t, record, FALSE)
  BY <1>2, <1>4, VerdictStep
<1>5. CASE l.unhandled = {} /\ Verdict(t, record, TRUE)
  BY <1>2, <1>3, <1>5, VerdictStep
<1>6. CASE Awaits(t, "verify", [NewOp("finished") EXCEPT
                                  !.known = record.known, !.batch = l.unhandled,
                                  !.waits = l.unhandled])
  <2> DEFINE k == record.known
             u == l.unhandled
             o == [NewOp("finished") EXCEPT !.known = k]
             v == [NewOp("finished") EXCEPT !.known = k, !.batch = u, !.waits = u]
  <2>1. k \in SUBSET Requests /\ u \in SUBSET Requests /\ k \subseteq u \cup done
        /\ k \subseteq Present
    BY <1>2, <1>3
  <2>2. /\ o \in OpRecord /\ o.call = "finished" /\ o.known = k
        /\ ~o.answered /\ o.new = {} /\ o.seen = [q \in Requests |-> "absent"]
        /\ o.left = [q \in Requests |-> NoLease]
    <3>1. o = [NewOp("finished") EXCEPT !.known = k]
      OBVIOUS
    <3> HIDE DEF o, k
    <3>2. QED
      BY <2>1, <3>1, FinishedRecord
  <2>3. v = [o EXCEPT !.batch = u, !.waits = u]
    BY NewOpFits DEF OpRecord
  <2>4. Awaits(t, "verify", v)
    BY <1>6
  <2> HIDE DEF o, v, k, u
  <2>5. /\ v \in OpRecord /\ v.call = "finished" /\ v.known = k /\ v.new = {}
        /\ v.batch = u /\ v.seen = o.seen /\ v.left = o.left
    BY <2>1, <2>2, <2>3 DEF OpRecord
  <2>6. \A q \in Requests : v.seen[q] = "absent" /\ v.left[q] = NoLease
    BY <2>2, <2>5
  <2>7. OpFits("verify", v, Present, added[ClientOf[t]], done)
    BY <2>1, <2>5, <2>6 DEF OpFits, PlaceFits, AnswerFits, Places
  <2>8. QED
    BY <2>4, <2>7, TaskStep
<1>7. QED
  BY <1>4, <1>5, <1>6 DEF Concludes

LEMMA CallFinishedStep ==
  ASSUME IInv, NEW t \in Tasks, CallFinished(t)
  PROVE  IInv'
<1> DEFINE a == added[ClientOf[t]]
           record == [NewOp("finished") EXCEPT !.known = a]
           asked == [record EXCEPT !.yes = CountsEmpty(My(t))]
<1>1. UNCHANGED <<platform, historyVars>> /\ HoldsInv'
  BY HoldsStay DEF CallFinished
<1>2. a \in SUBSET Requests /\ a \subseteq Present
  BY DEF IInv, PlatformInv, Present
<1>3. /\ record \in OpRecord /\ record.call = "finished" /\ record.known = a
      /\ record.request = NoRequest /\ ~record.answered /\ record.new = {}
      /\ record.seen = [q \in Requests |-> "absent"]
      /\ record.left = [q \in Requests |-> NoLease]
  <2>1. record = [NewOp("finished") EXCEPT !.known = a]
    OBVIOUS
  <2> HIDE DEF record, a
  <2>2. QED
    BY <1>2, <2>1, FinishedRecord
<1>4. ClientFits(My(t), Present, added[ClientOf[t]], done)
  BY MyClientFits DEF IInv
<1>5. CASE List(t, record)
  <2> HIDE DEF record
  <2>1. record.known \subseteq added[ClientOf[t]]
    BY <1>3
  <2>2. QED
    BY <1>1, <1>3, <1>5, <2>1, ListStep
<1>6. CASE UNCHANGED local /\ Awaits(t, "metadata", asked)
  <2>1. CountsEmpty(My(t)) \in BOOLEAN
    BY DEF CountsEmpty
  <2> DEFINE y == CountsEmpty(My(t))
  <2> HIDE DEF record, a, y
  <2>2. asked = [record EXCEPT !.yes = y]
    BY DEF y
  <2> HIDE DEF asked
  <2>3. /\ asked \in OpRecord /\ asked.left = record.left /\ asked.call = record.call
        /\ asked.request = record.request /\ asked.answered = record.answered
        /\ asked.seen = record.seen /\ asked.known = record.known /\ asked.new = record.new
    BY <1>3, <2>1, <2>2 DEF OpRecord, y
  <2>4. \A q \in Requests : asked.seen[q] = "absent" /\ asked.left[q] = NoLease
    BY <1>3, <2>3
  <2>5. OpFits("metadata", asked, Present, added[ClientOf[t]], done)
    BY <1>2, <1>3, <2>3, <2>4 DEF OpFits, PlaceFits, AnswerFits, Places, a
  <2>6. Becomes(t, My(t))
    BY <1>6, ClientStays DEF IInv
  <2>7. QED
    BY <1>1, <1>4, <1>6, <2>5, <2>6, TaskStep
<1>7. CASE UNCHANGED local /\ Concludes(t, record, My(t), CountsEmpty(My(t)))
  <2>1. Becomes(t, My(t))
    BY <1>7, ClientStays DEF IInv
  <2> HIDE DEF record
  <2>2. record.known \subseteq added[ClientOf[t]]
    BY <1>3
  <2>3. QED
    BY <1>1, <1>4, <1>7, <2>1, <2>2, ConcludesStep
<1>8. QED
  BY <1>5, <1>6, <1>7 DEF CallFinished

LEMMA FinishedHeadListedStep ==
  ASSUME IInv, NEW t \in Tasks, FinishedHeadListed(t)
  PROVE  IInv'
<1>1. UNCHANGED <<platform, historyVars>> /\ HoldsInv' /\ op[t].call = "finished"
  BY HoldsStay DEF FinishedHeadListed
<1>2. /\ ClientFits(My(t), Present, added[ClientOf[t]], done)
      /\ OpFits(pc[t], op[t], Present, added[ClientOf[t]], done)
  BY MyClientFits, MyOpFits DEF IInv
<1>3. CASE Answered(t, "metadata") /\ Concludes(t, op[t], My(t), op[t].yes) /\ UNCHANGED local
  <2>1. Becomes(t, My(t))
    BY <1>3, ClientStays DEF IInv
  <2>2. op[t].known \subseteq added[ClientOf[t]]
    BY <1>1, <1>2, <1>3 DEF OpFits, AnswerFits, Answered
  <2>3. QED
    BY <1>1, <1>2, <1>3, <2>1, <2>2, ConcludesStep
<1>4. ASSUME Answered(t, "list_and_lock_head"), NEW l \in Listed(t), Becomes(t, l),
             Concludes(t, op[t], l, \A r \in Requests : op[t].left[r] = NoLease)
      PROVE  IInv'
  <2>1. op[t].known \subseteq added[ClientOf[t]]
    BY <1>1, <1>2, <1>4 DEF OpFits, AnswerFits, Answered
  <2>2. ClientFits(l, Present, added[ClientOf[t]], done)
    BY <1>4, ListedFits DEF Answered
  <2> DEFINE empty == \A r \in Requests : op[t].left[r] = NoLease
  <2>3. Concludes(t, op[t], l, empty)
    BY <1>4
  <2> HIDE DEF empty
  <2>4. QED
    BY <1>1, <1>4, <2>1, <2>2, <2>3, ConcludesStep
<1>5. QED
  BY <1>3, <1>4 DEF FinishedHeadListed

LEMMA VerifiedStep ==
  ASSUME IInv, NEW t \in Tasks, Verified(t)
  PROVE  IInv'
<1> DEFINE confirmed == {r \in op[t].batch : op[t].seen[r] = "handled"}
           l == [My(t) EXCEPT !.unhandled = @ \ confirmed]
           yes == confirmed = op[t].batch
<1>1. /\ UNCHANGED <<platform, historyVars>> /\ HoldsInv' /\ pc[t] = "verify"
      /\ Becomes(t, l) /\ Verdict(t, op[t], yes)
  BY HoldsStay DEF Verified
<1>2. /\ ClientFits(My(t), Present, added[ClientOf[t]], done) /\ My(t) \in ClientRecord
      /\ op[t] \in OpRecord /\ OpFits(pc[t], op[t], Present, added[ClientOf[t]], done)
  BY MyClientFits, MyOpFits DEF IInv
<1>3. confirmed \subseteq done /\ op[t].known \in SUBSET Requests /\ op[t].known \subseteq Present
  BY <1>2 DEF OpRecord, OpFits, AnswerFits
<1>4. yes => op[t].known \subseteq done
  BY <1>1, <1>2, <1>3 DEF OpFits, AnswerFits
<1>5. ClientFits(l, Present, added[ClientOf[t]], done)
  <2> DEFINE x == My(t).unhandled \ confirmed
  <2>1. x \in SUBSET Requests /\ added[ClientOf[t]] \ done \subseteq x
    BY <1>2, <1>3 DEF ClientFits, ClientRecord
  <2>2. l = [My(t) EXCEPT !.unhandled = x]
    BY <1>2 DEF ClientRecord
  <2> HIDE DEF l, x, confirmed
  <2>3. QED
    BY <1>2, <2>1, <2>2 DEF ClientFits, ClientRecord
<1>6. yes \in BOOLEAN
  OBVIOUS
<1> HIDE DEF l, yes
<1>7. QED
  BY <1>1, <1>3, <1>4, <1>5, <1>6, VerdictStep

-----------------------------------------------------------------------------
(* Failures and time.                                                       *)

LEMMA FailStep ==
  ASSUME IInv, NEW t \in Tasks, Fail(t)
  PROVE  IInv'
<1>1. UNCHANGED <<platform, historyVars>> /\ HoldsInv'
  BY HoldsStay DEF Fail
<1>2. ClientFits(My(t), Present, added[ClientOf[t]], done) /\ My(t) \in ClientRecord
  BY MyClientFits DEF IInv
<1>3. Grows /\ Present' = Present /\ PlatformInv' /\ added' = added /\ done' = done
  BY <1>1, NothingGrows DEF IInv, historyVars
<1>4. CASE /\ Settle(t, "idle", NoOp, {})
           /\ Becomes(t, [My(t) EXCEPT !.beingAdded = @ \ op[t].batch])
  <2> DEFINE x == My(t).beingAdded \ op[t].batch
             l == [My(t) EXCEPT !.beingAdded = @ \ op[t].batch]
  <2>1. x \in SUBSET Requests
    BY <1>2 DEF ClientRecord
  <2>2. l = [My(t) EXCEPT !.beingAdded = x]
    BY <1>2 DEF ClientRecord
  <2>3. Becomes(t, l)
    BY <1>4
  <2>4. OpFits("idle", NoOp, Present', added'[ClientOf[t]], done')
    BY NoOpFits
  <2>5. CallsInv'
    BY <1>3, <1>4, <2>4, SettleStep DEF IInv
  <2> HIDE DEF x, l
  <2>6. ClientFits(l, Present', added'[ClientOf[t]], done')
    BY <1>2, <1>3, <2>1, <2>2 DEF ClientFits, ClientRecord
  <2>7. ClientsInv'
    BY <1>3, <2>3, <2>6, ClientBecomes DEF IInv
  <2>8. QED
    BY <1>1, <1>3, <2>5, <2>7 DEF IInv
<1>5. CASE Returns(t) /\ Becomes(t, Discard(My(t), op[t].request))
  BY <1>1, <1>2, <1>5, DiscardFits, TaskReturns
<1>6. CASE Returns(t) /\ UNCHANGED local
  BY <1>1, <1>2, <1>6, ClientStays, TaskReturns DEF IInv
<1>7. QED
  BY <1>4, <1>5, <1>6 DEF Fail

(* Time only shortens leases: what was none stays none.                     *)
LEMMA DownStays ==
  ASSUME NEW k \in Int
  PROVE  Down(k) \in Int /\ (k = NoLease => Down(k) = NoLease)
BY DEF Down, NoLease

LEMMA TickStep ==
  ASSUME IInv, Tick
  PROVE  IInv'
<1>1. UNCHANGED <<platform, pc, holds, historyVars>>
  BY DEF Tick
<1>2. Grows /\ Present' = Present /\ PlatformInv' /\ added' = added /\ done' = done
  BY <1>1, NothingGrows DEF IInv, historyVars
<1>3. ASSUME NEW c \in Clients
      PROVE  local'[c] \in ClientRecord /\ ClientFits(local'[c], Present, added[c], done)
  <2> DEFINE l == local[c]
             entries == [r \in Requests |-> Entry(l.cache[r].hydrated, Down(l.cache[r].left))]
  <2>1. l \in ClientRecord /\ ClientFits(l, Present, added[c], done)
    BY DEF IInv, ClientsInv
  <2>2. local'[c] = [l EXCEPT !.cache = entries]
    BY DEF Tick
  <2>3. ASSUME NEW r \in Requests
        PROVE  entries[r] \in EntryRecord /\ (l.cache[r] = Uncached => entries[r] = Uncached)
    <3>1. l.cache[r] \in EntryRecord /\ l.cache[r].left \in Int
      BY <2>1 DEF ClientRecord, EntryRecord
    <3>2. entries[r] = Entry(l.cache[r].hydrated, Down(l.cache[r].left)) /\ entries[r] \in EntryRecord
      BY <3>1, DownStays DEF EntryRecord, Entry
    <3>3. l.cache[r] = Uncached => entries[r] = Uncached
      BY <3>1, <3>2, DownStays, UncachedEntry DEF Uncached, Entry, EntryRecord, NoLease
    <3>4. QED
      BY <3>2, <3>3
  <2>4. entries \in [Requests -> EntryRecord]
    BY <2>3
  <2> HIDE DEF entries, l
  <2>5. /\ local'[c] \in ClientRecord /\ local'[c].cache = entries
        /\ local'[c].unhandled = l.unhandled
    BY <2>1, <2>2, <2>4 DEF ClientRecord
  <2>6. QED
    BY <2>1, <2>3, <2>5 DEF ClientFits
<1>4. ClientsInv'
  <2>1. local' = [c \in Clients |-> local'[c]]
    BY DEF Tick
  <2>2. local' \in [Clients -> ClientRecord]
    BY <1>3, <2>1
  <2>3. QED
    BY <1>2, <1>3, <2>2 DEF ClientsInv
<1>5. ASSUME NEW t \in Tasks
      PROVE  op'[t] \in OpRecord /\ OpFits(pc[t], op'[t], Present, added[ClientOf[t]], done)
  <2> DEFINE o == op[t]
             left == [r \in Requests |-> Down(o.left[r])]
  <2>1. o \in OpRecord /\ OpFits(pc[t], o, Present, added[ClientOf[t]], done)
    BY MyOpFits DEF IInv
  <2>2. op'[t] = [o EXCEPT !.left = left]
    BY <2>1 DEF Tick, OpRecord
  <2>3. \A r \in Requests : o.left[r] \in Int
    BY <2>1 DEF OpRecord
  <2>4. /\ left \in [Requests -> Int]
        /\ \A r \in Requests : left[r] # NoLease => o.left[r] # NoLease
    BY <2>3, DownStays
  <2> HIDE DEF left, o
  <2>5. /\ op'[t] \in OpRecord /\ op'[t].left = left /\ op'[t].call = o.call
        /\ op'[t].request = o.request /\ op'[t].answered = o.answered /\ op'[t].seen = o.seen
        /\ op'[t].rejected = o.rejected /\ op'[t].batch = o.batch /\ op'[t].known = o.known
        /\ op'[t].new = o.new /\ op'[t].yes = o.yes
    BY <2>1, <2>2, <2>4 DEF OpRecord
  <2>6. PlaceFits(pc[t], op'[t])
    BY <2>1, <2>5 DEF OpFits, PlaceFits
  <2>7. AnswerFits(pc[t], op'[t], Present, added[ClientOf[t]], done)
    BY <2>1, <2>4, <2>5 DEF OpFits, AnswerFits
  <2>8. QED
    BY <2>1, <2>5, <2>6, <2>7 DEF OpFits
<1>6. CallsInv'
  <2>1. op' = [t \in Tasks |-> op'[t]]
    BY DEF Tick
  <2>2. op' \in [Tasks -> OpRecord]
    BY <1>5, <2>1
  <2>3. QED
    BY <1>1, <1>2, <1>5, <2>2 DEF CallsInv, IInv
<1>7. QED
  BY <1>1, <1>2, <1>4, <1>6, HoldsStay DEF IInv

LEMMA Stutters ==
  ASSUME IInv, UNCHANGED vars
  PROVE  IInv'
<1>1. UNCHANGED <<platform, historyVars, local, pc, op, holds, added>>
  BY DEF vars, taskVars, historyVars
<1>2. Grows /\ Present' = Present /\ PlatformInv'
  BY <1>1, NothingGrows DEF IInv
<1>3. QED
  BY <1>1, <1>2, ClientsStay, CallsStay, HoldsStay DEF IInv

LEMMA Inductive == IInv /\ [Next]_vars => IInv'
<1> SUFFICES ASSUME IInv, [Next]_vars PROVE IInv'
  OBVIOUS
<1>1. ASSUME NEW t \in Tasks, Call(t)
      PROVE  IInv'
  <2>1. ASSUME CallMark(t) \/ CallReclaim(t)
        PROVE  IInv'
    BY <2>1, GivesUpStep DEF CallMark, CallReclaim
  <2>2. QED
    BY <1>1, <2>1, CallAddStep, CallFetchStep, CallFinishedStep DEF Call
<1>2. ASSUME NEW t \in Tasks, Answer(t)
      PROVE  IInv'
  BY <1>2, AnswerBatchStep, AnswerListingStep, AnswerProlongStep, AnswerReadStep,
     AnswerUpdateStep, AnswerVerifyStep DEF Answer
<1>3. ASSUME NEW t \in Tasks, Resume(t)
      PROVE  IInv'
  BY <1>3, BatchAnsweredStep, AddReturnsStep, FetchHeadListedStep, ProlongedStep, HydratedStep,
     RefetchedStep, UpdatedStep, FinishedHeadListedStep, VerifiedStep DEF Resume
<1>4. QED
  BY <1>1, <1>2, <1>3, FailStep, TickStep, Stutters DEF Next

LEMMA Always == Spec => []IInv
<1>1. IInv /\ [Next]_vars => IInv'
  BY Inductive
<1>2. QED
  BY Initially, <1>1, PTL DEF Spec

(* _request_queue_shared_client.py add_batch_of_requests: what it reports   *)
(* as added or present the platform has, whichever calls it relied on and   *)
(* whatever the platform rejected.                                          *)
THEOREM NoFalseSuccess == Spec => []AddsTruthful
<1>1. IInv => AddsTruthful
  <2> SUFFICES ASSUME IInv, NEW t \in Tasks, NEW r \in Requests,
                      \/ r \in added[ClientOf[t]] \/ My(t).cache[r] # Uncached
                      \/ op[t].call = "add" /\ r \in op[t].known \cup op[t].new
               PROVE  platform[r] # "absent"
    BY DEF AddsTruthful
  <2>1. /\ ClientFits(My(t), Present, added[ClientOf[t]], done)
        /\ OpFits(pc[t], op[t], Present, added[ClientOf[t]], done)
    BY MyClientFits, MyOpFits DEF IInv
  <2>2. added[ClientOf[t]] \subseteq Present
    BY DEF IInv, PlatformInv
  <2>3. r \in Present
    BY <2>1, <2>2 DEF ClientFits, OpFits, AnswerFits
  <2>4. QED
    BY <2>3 DEF Present
<1>2. QED
  BY Always, <1>1, PTL

(* _request_queue_shared_client.py is_finished: it says True only when      *)
(* everything this client had confirmed as added when the call began has    *)
(* been handled, whatever lags, lapses or fails.                            *)
THEOREM FinishedCovers == Spec => FinishedCoversAdded
<1>1. ASSUME IInv, IInv', [Next]_vars, NEW t \in Tasks,
             pc'[t] = "idle", op'[t].call = "finished", op'[t].yes, op'[t] # op[t]
      PROVE  op'[t].known \subseteq done
  <2>1. op'[t].known \subseteq done'
    BY <1>1 DEF IInv, CallsInv, OpFits, AnswerFits
  <2>2. done' # done => \E u \in Tasks : AnswerUpdate(u)
    BY <1>1 DEF Next, Call, Answer, Resume, Tick, Fail, vars, historyVars, CallAdd, CallFetch,
       CallMark, CallReclaim, GivesUp, CallFinished, AnswerBatch, AnswerListing, AnswerProlong,
       AnswerRead, AnswerVerify, BatchAnswered, AddReturns, FetchHeadListed, Prolonged, Hydrated,
       Refetched, Updated, FinishedHeadListed, Verified
  <2>3. ASSUME NEW u \in Tasks, AnswerUpdate(u)
        PROVE  FALSE
    <3>1. /\ pc[u] = "update_request" /\ pc' = pc
          /\ op' = [op EXCEPT ![u] = Reply(u)]
      BY <2>3 DEF AnswerUpdate, Pending
    <3>2. t # u
      BY <1>1, <3>1
    <3>3. QED
      BY <1>1, <3>1, <3>2 DEF IInv, CallsInv
  <2>4. QED
    BY <2>1, <2>2, <2>3
<1>2. IInv /\ IInv' /\ [Next]_vars =>
        \A t \in Tasks :
          pc'[t] = "idle" /\ op'[t].call = "finished" /\ op'[t].yes /\ op'[t] # op[t] =>
            op'[t].known \subseteq done
  BY <1>1
<1>3. IInv /\ IInv' /\ [Next]_vars =>
        [\A t \in Tasks :
           pc'[t] = "idle" /\ op'[t].call = "finished" /\ op'[t].yes /\ op'[t] # op[t] =>
             op'[t].known \subseteq done]_vars
  BY <1>2
<1>4. QED
  BY <1>3, Always, PTL DEF Spec, FinishedCoversAdded

-----------------------------------------------------------------------------
(* One hand-out at a time.  A task reserves the request it was handed or is *)
(* fetching: it is in its client's inProgress, and no other task of the     *)
(* client reserves it.                                                      *)

Reserved(h, o) == {r \in Requests : h = r \/ (o.call = "fetch" /\ o.request = r)}

Reserves(t) == Reserved(holds[t], op[t])

HandInv ==
  \A t \in Tasks :
    /\ Reserves(t) \subseteq My(t).inProgress
    /\ op[t].call = "fetch" => holds[t] = NoRequest
    /\ \A u \in Tasks : u # t /\ SameClient(t, u) => Reserves(t) \cap Reserves(u) = {}

LEMMA HandInit == Init => HandInv
BY NewOpFits DEF Init, HandInv, Reserves, Reserved, NoOp, HoldsInv

(* A step of one task: what others reserve stays in progress, and what it   *)
(* reserves anew was not.                                                   *)
LEMMA HandKeeps ==
  ASSUME IInv, HandInv, NEW t \in Tasks,
         \A c \in Clients : c # ClientOf[t] => local'[c].inProgress = local[c].inProgress,
         \A u \in Tasks : u # t => /\ holds'[u] = holds[u] /\ op'[u].call = op[u].call
                                   /\ op'[u].request = op[u].request,
         My(t).inProgress \ Reserves(t) \subseteq My(t)'.inProgress,
         Reserves(t)' \subseteq My(t)'.inProgress,
         \A r \in Reserves(t)' : r \in Reserves(t) \/ r \notin My(t).inProgress,
         op'[t].call = "fetch" => holds'[t] = NoRequest
  PROVE  HandInv'
<1>1. \A u \in Tasks : u # t => Reserves(u)' = Reserves(u)
  BY DEF Reserves, Reserved
<1>2. ASSUME NEW u \in Tasks
      PROVE  /\ Reserves(u)' \subseteq My(u)'.inProgress
             /\ op'[u].call = "fetch" => holds'[u] = NoRequest
  <2>1. CASE u = t
    BY <2>1
  <2>2. CASE u # t
    <3>1. op'[u].call = "fetch" => holds'[u] = NoRequest
      BY <2>2 DEF HandInv
    <3>2. Reserves(u) \subseteq My(u).inProgress
      BY DEF HandInv
    <3>3. CASE ClientOf[u] = ClientOf[t]
      <4>1. Reserves(t) \cap Reserves(u) = {} /\ My(u) = My(t) /\ My(u)' = My(t)'
        BY <2>2, <3>3 DEF HandInv, SameClient, My
      <4>2. QED
        BY <1>1, <2>2, <3>1, <3>2, <4>1
    <3>4. CASE ClientOf[u] # ClientOf[t]
      <4>1. My(u)'.inProgress = My(u).inProgress
        BY <3>4 DEF My
      <4>2. QED
        BY <1>1, <2>2, <3>1, <3>2, <4>1
    <3>5. QED
      BY <3>3, <3>4
  <2>3. QED
    BY <2>1, <2>2
<1>3. ASSUME NEW u \in Tasks, u # t, SameClient(t, u)
      PROVE  Reserves(t)' \cap Reserves(u)' = {}
  <2>1. /\ Reserves(u)' = Reserves(u) /\ Reserves(t) \cap Reserves(u) = {}
        /\ Reserves(u) \subseteq My(t).inProgress
    BY <1>1, <1>3 DEF HandInv, SameClient, My
  <2>2. QED
    BY <2>1
<1>4. ASSUME NEW u \in Tasks, NEW v \in Tasks, u # v, SameClient(u, v)
      PROVE  Reserves(u)' \cap Reserves(v)' = {}
  <2>1. CASE u = t
    BY <1>3, <1>4, <2>1
  <2>2. CASE v = t
    BY <1>3, <1>4, <2>2 DEF SameClient
  <2>3. CASE u # t /\ v # t
    BY <1>1, <1>4, <2>3 DEF HandInv
  <2>4. QED
    BY <2>1, <2>2, <2>3
<1>5. QED
  BY <1>2, <1>4 DEF HandInv, SameClient

(* Steps that neither take nor give up anything.                            *)
LEMMA HandSame ==
  ASSUME IInv, HandInv,
         \A c \in Clients : local'[c].inProgress = local[c].inProgress,
         \A u \in Tasks : /\ holds'[u] = holds[u] /\ op'[u].call = op[u].call
                          /\ op'[u].request = op[u].request
  PROVE  HandInv'
<1>1. \A u \in Tasks : Reserves(u)' = Reserves(u)
  BY DEF Reserves, Reserved
<1>2. \A u \in Tasks : My(u)'.inProgress = My(u).inProgress
  BY DEF My
<1>3. QED
  BY <1>1, <1>2 DEF HandInv, SameClient

(* A task's step that leaves what it was handed alone.                      *)
LEMMA HandMoves ==
  ASSUME IInv, HandInv, NEW t \in Tasks, NEW l, NEW at, NEW o,
         Becomes(t, l), Awaits(t, at, o), UNCHANGED holds,
         My(t).inProgress \ Reserves(t) \subseteq l.inProgress,
         Reserved(holds[t], o) \subseteq l.inProgress,
         \A r \in Reserved(holds[t], o) : r \in Reserves(t) \/ r \notin My(t).inProgress,
         o.call = "fetch" => holds[t] = NoRequest
  PROVE  HandInv'
<1>1. /\ local'[ClientOf[t]] = l
      /\ \A c \in Clients : c # ClientOf[t] => local'[c] = local[c]
  BY DEF IInv, ClientsInv, Becomes
<1>2. op'[t] = o /\ \A u \in Tasks : u # t => op'[u] = op[u]
  BY DEF IInv, CallsInv, Awaits
<1>3. Reserves(t)' = Reserved(holds[t], o) /\ My(t)' = l
  BY <1>1, <1>2 DEF Reserves, Reserved, My
<1>4. QED
  BY <1>1, <1>2, <1>3, HandKeeps

(* A task's step within a call that fetches nothing, or its return.         *)
LEMMA HandIdles ==
  ASSUME IInv, HandInv, NEW t \in Tasks, NEW l, NEW at, NEW o,
         Becomes(t, l), Awaits(t, at, o), UNCHANGED holds, o.call # "fetch",
         My(t).inProgress \subseteq l.inProgress
  PROVE  HandInv'
<1>1. ASSUME NEW r \in Reserved(holds[t], o)
      PROVE  r \in Reserves(t)
  <2>1. r \in Requests /\ holds[t] = r
    BY DEF Reserved
  <2>2. QED
    BY <2>1 DEF Reserves, Reserved
<1>2. Reserves(t) \subseteq My(t).inProgress
  BY DEF HandInv
<1>3. QED
  BY <1>1, <1>2, HandMoves

(* A fetch gives the request it reserved up and returns.                    *)
LEMMA HandReturns ==
  ASSUME IInv, HandInv, NEW t \in Tasks, NEW l,
         Becomes(t, l), Returns(t), UNCHANGED holds, holds[t] = NoRequest,
         My(t).inProgress \ Reserves(t) \subseteq l.inProgress
  PROVE  HandInv'
<1>1. NoOp.call # "fetch"
  BY NoOpFits
<1>2. Reserved(holds[t], NoOp) = {}
  BY <1>1 DEF Reserved
<1>3. QED
  BY <1>1, <1>2, HandMoves DEF Returns

(* A step of a fetch that reserves r, or has it reserved.                   *)
LEMMA HandFetches ==
  ASSUME IInv, HandInv, NEW t \in Tasks, NEW l, NEW at, NEW o, NEW r \in Requests,
         Becomes(t, l), Awaits(t, at, o), UNCHANGED holds, holds[t] = NoRequest,
         o.request = r, My(t).inProgress \subseteq l.inProgress,
         r \in l.inProgress, r \in Reserves(t) \/ r \notin My(t).inProgress
  PROVE  HandInv'
<1>1. Reserved(holds[t], o) \subseteq {r}
  BY DEF Reserved
<1>2. QED
  BY <1>1, HandMoves

LEMMA HandAnswers ==
  ASSUME IInv, HandInv, NEW t \in Tasks, Answer(t)
  PROVE  HandInv'
<1>1. UNCHANGED <<local, holds>>
  BY DEF Answer, AnswerBatch, AnswerListing, AnswerProlong, AnswerRead, AnswerUpdate, AnswerVerify
<1>2. /\ Reply(t) \in OpRecord /\ Reply(t).call = op[t].call /\ Reply(t).request = op[t].request
      /\ op \in [Tasks -> OpRecord] /\ op[t] \in OpRecord
  BY ReplyFits DEF IInv, CallsInv
<1>3. op'[t].call = op[t].call /\ op'[t].request = op[t].request
  <2>1. CASE AnswerBatch(t)
    BY <1>2, <2>1 DEF AnswerBatch, OpRecord
  <2>2. CASE AnswerListing(t)
    BY <1>2, <2>2 DEF AnswerListing, OpRecord
  <2>3. CASE AnswerProlong(t)
    BY <1>2, <2>3 DEF AnswerProlong, OpRecord
  <2>4. CASE AnswerRead(t)
    BY <1>2, <2>4 DEF AnswerRead, OpRecord
  <2>5. CASE AnswerUpdate(t)
    BY <1>2, <2>5 DEF AnswerUpdate
  <2>6. ASSUME NEW r \in Requests, AnswerVerify(t, r)
        PROVE  op'[t].call = op[t].call /\ op'[t].request = op[t].request
    BY <1>2, <2>6 DEF AnswerVerify, OpRecord
  <2>7. QED
    BY <2>1, <2>2, <2>3, <2>4, <2>5, <2>6 DEF Answer
<1>4. \A u \in Tasks : u # t => op'[u] = op[u]
  BY <1>2 DEF Answer, AnswerBatch, AnswerListing, AnswerProlong, AnswerRead, AnswerUpdate,
     AnswerVerify
<1>5. QED
  BY <1>1, <1>3, <1>4, HandSame

LEMMA HandTicks ==
  ASSUME IInv, HandInv, Tick
  PROVE  HandInv'
<1>1. UNCHANGED holds
  BY DEF Tick
<1>2. \A c \in Clients : local'[c].inProgress = local[c].inProgress
  BY DEF Tick, IInv, ClientsInv, ClientRecord
<1>3. \A u \in Tasks : op'[u].call = op[u].call /\ op'[u].request = op[u].request
  BY DEF Tick, IInv, CallsInv, OpRecord
<1>4. QED
  BY <1>1, <1>2, <1>3, HandSame

LEMMA DiscardLeaves ==
  ASSUME NEW l \in ClientRecord, NEW r
  PROVE  Discard(l, r).inProgress = l.inProgress \ {r}
BY DEF Discard, ClientRecord

LEMMA LookUpHands ==
  ASSUME IInv, HandInv, NEW t \in Tasks, NEW r \in Requests, NEW l \in ClientRecord,
         LookUp(t, r, l), UNCHANGED holds, holds[t] = NoRequest,
         My(t).inProgress \subseteq l.inProgress, r \in l.inProgress,
         r \in Reserves(t) \/ r \notin My(t).inProgress
  PROVE  HandInv'
<1> DEFINE record == [NewOp("fetch") EXCEPT !.request = r, !.left[r] = l.cache[r].left]
<1>1. record.request = r
  BY NewOpFits DEF OpRecord
<1>2. \/ \E at \in {"hydrate", "refetch"} : Becomes(t, l) /\ Awaits(t, at, record)
      \/ Becomes(t, Discard(l, r)) /\ Returns(t)
  BY DEF LookUp
<1> HIDE DEF record
<1>3. CASE \E at \in {"hydrate", "refetch"} : Becomes(t, l) /\ Awaits(t, at, record)
  BY <1>1, <1>3, HandFetches
<1>4. CASE Becomes(t, Discard(l, r)) /\ Returns(t)
  <2>1. My(t).inProgress \ Reserves(t) \subseteq Discard(l, r).inProgress
    BY DiscardLeaves
  <2>2. QED
    BY <1>4, <2>1, HandReturns
<1>5. QED
  BY <1>2, <1>3, <1>4

LEMMA PickHands ==
  ASSUME IInv, HandInv, NEW t \in Tasks, NEW l \in ClientRecord, Pick(t, l),
         UNCHANGED holds, holds[t] = NoRequest, l.inProgress = My(t).inProgress
  PROVE  HandInv'
<1>1. CASE Becomes(t, [l EXCEPT !.head = <<>>]) /\ Returns(t)
  <2> DEFINE v == [l EXCEPT !.head = <<>>]
  <2>1. v.inProgress = l.inProgress
    BY DEF ClientRecord
  <2> HIDE DEF v
  <2>2. QED
    BY <1>1, <2>1, HandReturns DEF v
<1>2. ASSUME NEW i \in Eligible(l),
             LET r == l.head[i]
                 reserved == [l EXCEPT !.head = SubSeq(@, i + 1, Len(@)),
                                       !.inProgress = @ \cup {r}]
             IN  IF WindowSuffices(l.cache[r].left) THEN LookUp(t, r, reserved)
                 ELSE /\ Becomes(t, reserved)
                      /\ Awaits(t, "prolong_request_lock", [NewOp("fetch") EXCEPT !.request = r])
      PROVE  HandInv'
  <2> DEFINE r == l.head[i]
             rest == SubSeq(l.head, i + 1, Len(l.head))
             s == l.inProgress \cup {r}
             o == [NewOp("fetch") EXCEPT !.request = r]
             reserved == [l EXCEPT !.head = SubSeq(@, i + 1, Len(@)), !.inProgress = @ \cup {r}]
  <2>1. i \in DOMAIN l.head /\ r \notin l.inProgress /\ l.head \in Seq(Requests)
    BY <1>2 DEF Eligible, ClientRecord
  <2>2. r \in Requests /\ rest \in Seq(Requests)
    BY <2>1, RestIsSequence
  <2>3. s \in SUBSET Requests
    BY <2>2 DEF ClientRecord
  <2>4. reserved = [l EXCEPT !.head = rest, !.inProgress = s]
    BY DEF ClientRecord
  <2>5. o.request = r
    <3>1. NewOp("fetch") \in OpRecord
      BY NewOpFits
    <3> HIDE DEF r
    <3>2. QED
      BY <3>1 DEF OpRecord
  <2>6. r \in s /\ My(t).inProgress \subseteq s
    OBVIOUS
  <2>7. \/ LookUp(t, r, reserved)
        \/ Becomes(t, reserved) /\ Awaits(t, "prolong_request_lock", o)
    BY <1>2
  <2> HIDE DEF r, rest, s, o, reserved
  <2>8. reserved \in ClientRecord /\ reserved.inProgress = s
    BY <2>2, <2>3, <2>4 DEF ClientRecord
  <2>9. CASE LookUp(t, r, reserved)
    BY <2>1, <2>2, <2>6, <2>8, <2>9, LookUpHands
  <2>10. CASE Becomes(t, reserved) /\ Awaits(t, "prolong_request_lock", o)
    BY <2>1, <2>2, <2>5, <2>6, <2>8, <2>10, HandFetches
  <2>11. QED
    BY <2>7, <2>9, <2>10
<1>3. QED
  BY <1>1, <1>2 DEF Pick

LEMMA ListHands ==
  ASSUME IInv, HandInv, NEW t \in Tasks, NEW o \in OpRecord, List(t, o), UNCHANGED holds,
         o.call = "fetch" => o.request = NoRequest /\ holds[t] = NoRequest
  PROVE  HandInv'
<1> DEFINE l == [My(t) EXCEPT !.head = <<>>, !.forefront = FALSE]
           v == [o EXCEPT !.rest = My(t).head]
<1>1. My(t) \in ClientRecord
  BY MyClientFits DEF IInv
<1>2. l.inProgress = My(t).inProgress
  BY <1>1 DEF ClientRecord
<1>3. v.call = o.call /\ v.request = o.request
  BY DEF OpRecord
<1>4. Becomes(t, l) /\ Awaits(t, "list_and_lock_head", v)
  BY DEF List
<1> HIDE DEF l, v
<1>5. CASE o.call = "fetch"
  <2>1. Reserved(holds[t], v) = {}
    BY <1>3, <1>5 DEF Reserved
  <2>2. QED
    BY <1>2, <1>4, <1>5, <2>1, HandMoves
<1>6. CASE o.call # "fetch"
  BY <1>2, <1>3, <1>4, <1>6, HandIdles
<1>7. QED
  BY <1>5, <1>6

LEMMA HandCallFetch ==
  ASSUME IInv, HandInv, NEW t \in Tasks, CallFetch(t)
  PROVE  HandInv'
<1>1. UNCHANGED holds /\ holds[t] = NoRequest /\ My(t) \in ClientRecord
  BY MyClientFits DEF CallFetch, IInv
<1>2. /\ NewOp("fetch") \in OpRecord /\ NewOp("fetch").call = "fetch"
      /\ NewOp("fetch").request = NoRequest
  BY NewOpFits
<1>3. CASE List(t, NewOp("fetch"))
  BY <1>1, <1>2, <1>3, ListHands
<1>4. CASE Awaits(t, "metadata", NewOp("fetch")) /\ UNCHANGED local
  <2>1. Reserved(holds[t], NewOp("fetch")) = {}
    BY <1>1, <1>2 DEF Reserved
  <2>2. Becomes(t, My(t))
    BY <1>4, ClientStays DEF IInv
  <2>3. QED
    BY <1>1, <1>4, <2>1, <2>2, HandMoves
<1>5. CASE Pick(t, My(t))
  BY <1>1, <1>5, PickHands
<1>6. QED
  BY <1>3, <1>4, <1>5 DEF CallFetch

LEMMA ListedKeeps ==
  ASSUME IInv, NEW t \in Tasks, pc[t] = "list_and_lock_head", NEW v \in Listed(t)
  PROVE  v \in ClientRecord /\ v.inProgress = My(t).inProgress
<1>1. v \in ClientRecord
  BY ListedFits DEF ClientFits
<1>2. My(t) \in ClientRecord
  BY MyClientFits DEF IInv
<1>3. PICK h, y, n, k :
        v = [My(t) EXCEPT !.head = h, !.locked = y, !.unhandled = n, !.cache = k]
  BY <1>2 DEF Listed, ClientRecord
<1>4. v.inProgress = My(t).inProgress
  BY <1>2, <1>3 DEF ClientRecord
<1>5. QED
  BY <1>1, <1>4

(* A task in the middle of a fetch holds nothing.                           *)
LEMMA FetchHolds ==
  ASSUME IInv, HandInv, NEW t \in Tasks, op[t].call = "fetch"
  PROVE  /\ holds[t] = NoRequest /\ Reserves(t) = {r \in Requests : op[t].request = r}
         /\ My(t) \in ClientRecord
BY MyClientFits DEF HandInv, Reserves, Reserved, IInv

LEMMA HandFetchHeadListed ==
  ASSUME IInv, HandInv, NEW t \in Tasks, FetchHeadListed(t)
  PROVE  HandInv'
<1>1. UNCHANGED holds /\ holds[t] = NoRequest /\ My(t) \in ClientRecord
  BY FetchHolds DEF FetchHeadListed
<1>2. CASE Pick(t, My(t))
  BY <1>1, <1>2, PickHands
<1>3. CASE Answered(t, "list_and_lock_head") /\ \E l \in Listed(t) : Pick(t, l)
  BY <1>1, <1>3, ListedKeeps, PickHands DEF Answered
<1>4. QED
  BY <1>2, <1>3 DEF FetchHeadListed

LEMMA ReservesAt ==
  ASSUME IInv, HandInv, NEW t \in Tasks,
         pc[t] \in {"prolong_request_lock", "hydrate", "refetch"}
  PROVE  /\ op[t].request \in Requests /\ op[t].request \in Reserves(t)
         /\ op[t].request \in My(t).inProgress /\ holds[t] = NoRequest
         /\ Reserves(t) = {op[t].request} /\ My(t) \in ClientRecord
<1>1. op[t].call = "fetch" /\ op[t].request \in Requests
  BY MyOpFits DEF IInv, OpFits, PlaceFits
<1>2. QED
  BY <1>1, FetchHolds DEF HandInv

LEMMA HandProlonged ==
  ASSUME IInv, HandInv, NEW t \in Tasks, Prolonged(t)
  PROVE  HandInv'
<1> DEFINE r == op[t].request
           l == [My(t) EXCEPT !.cache[r].left = op[t].left[r]]
<1>1. UNCHANGED holds /\ pc[t] = "prolong_request_lock"
  BY DEF Prolonged, Answered
<1>2. /\ r \in Requests /\ r \in Reserves(t) /\ r \in My(t).inProgress /\ holds[t] = NoRequest
      /\ Reserves(t) = {r} /\ My(t) \in ClientRecord
  BY <1>1, ReservesAt
<1>3. CASE Becomes(t, Discard(My(t), r)) /\ Returns(t)
  <2>1. Discard(My(t), r).inProgress = My(t).inProgress \ {r}
    BY <1>2, DiscardLeaves
  <2>2. QED
    BY <1>1, <1>2, <1>3, <2>1, HandReturns
<1>4. CASE op[t].left[r] # NoLease /\ LookUp(t, r, l)
  <2>1. l \in ClientRecord
    <3>1. op[t].left[r] \in Int /\ r \in Present
      BY <1>2, <1>4, MyOpFits DEF IInv, OpRecord, OpFits, AnswerFits
    <3>2. ClientFits(l, Present, added[ClientOf[t]], done)
      BY <1>2, <3>1, MyClientFits, LeaseFits DEF IInv
    <3>3. QED
      BY <3>2 DEF ClientFits
  <2>2. l.inProgress = My(t).inProgress
    BY <1>2 DEF ClientRecord
  <2> HIDE DEF l, r
  <2>3. QED
    BY <1>1, <1>2, <1>4, <2>1, <2>2, LookUpHands
<1>5. QED
  BY <1>3, <1>4 DEF Prolonged

LEMMA HandHydrated ==
  ASSUME IInv, HandInv, NEW t \in Tasks, Hydrated(t)
  PROVE  HandInv'
<1> DEFINE r == op[t].request
           status == op[t].seen[r]
           e == Entry(status, op[t].left[r])
           l == Cache(My(t), r, e, status = "handled")
           o == [NewOp("fetch") EXCEPT !.request = r]
<1>1. UNCHANGED holds /\ pc[t] = "hydrate"
  BY DEF Hydrated, Answered
<1>2. /\ r \in Requests /\ r \in Reserves(t) /\ r \in My(t).inProgress /\ holds[t] = NoRequest
      /\ Reserves(t) = {r} /\ My(t) \in ClientRecord
  BY <1>1, ReservesAt
<1>3. l.inProgress = My(t).inProgress
  BY <1>2 DEF Cache, ClientRecord
<1>4. Discard(My(t), r).inProgress = My(t).inProgress \ {r}
  BY <1>2, DiscardLeaves
<1>5. Discard(l, r).inProgress = l.inProgress \ {r}
  <2>1. DOMAIN l = DOMAIN My(t)
    BY DEF Cache
  <2> HIDE DEF l
  <2>2. QED
    BY <1>2, <2>1 DEF Discard, ClientRecord
<1>6. o.request = r
  <2>1. o = [NewOp("fetch") EXCEPT !.request = r]
    OBVIOUS
  <2> HIDE DEF o, r
  <2>2. QED
    BY <1>2, <2>1, FetchRecord
<1>7. \/ Becomes(t, Discard(My(t), r)) /\ Returns(t)
      \/ Becomes(t, l) /\ Awaits(t, "refetch", o)
      \/ Becomes(t, Discard(l, r)) /\ Returns(t)
  BY DEF Hydrated
<1> HIDE DEF l, o, r
<1>8. CASE Becomes(t, Discard(My(t), r)) /\ Returns(t)
  BY <1>1, <1>2, <1>4, <1>8, HandReturns
<1>9. CASE Becomes(t, l) /\ Awaits(t, "refetch", o)
  BY <1>1, <1>2, <1>3, <1>6, <1>9, HandFetches
<1>10. CASE Becomes(t, Discard(l, r)) /\ Returns(t)
  BY <1>1, <1>2, <1>3, <1>5, <1>10, HandReturns
<1>11. QED
  BY <1>7, <1>8, <1>9, <1>10

LEMMA HandRefetched ==
  ASSUME IInv, HandInv, NEW t \in Tasks, Refetched(t)
  PROVE  HandInv'
<1> DEFINE r == op[t].request
<1>1. pc[t] = "refetch" /\ Returns(t)
  BY DEF Refetched, Answered
<1>2. /\ r \in Requests /\ r \in Reserves(t) /\ r \in My(t).inProgress /\ holds[t] = NoRequest
      /\ Reserves(t) = {r} /\ My(t) \in ClientRecord
  BY <1>1, ReservesAt
<1>3. CASE Becomes(t, Discard(My(t), r)) /\ UNCHANGED holds
  <2>1. Discard(My(t), r).inProgress = My(t).inProgress \ {r}
    BY <1>2, DiscardLeaves
  <2>2. QED
    BY <1>1, <1>2, <1>3, <2>1, HandReturns
<1>4. CASE holds' = [holds EXCEPT ![t] = r] /\ UNCHANGED local
  <2>1. op'[t] = NoOp /\ \A u \in Tasks : u # t => op'[u] = op[u]
    BY <1>1 DEF IInv, CallsInv, Returns, Awaits
  <2>2. holds'[t] = r /\ \A u \in Tasks : u # t => holds'[u] = holds[u]
    BY <1>4 DEF IInv, HoldsInv
  <2>3. NoOp.call # "fetch"
    BY NoOpFits
  <2>4. Reserves(t)' \subseteq {r}
    BY <2>1, <2>2, <2>3 DEF Reserves, Reserved
  <2>5. My(t)' = My(t)
    BY <1>4 DEF My
  <2>6. QED
    BY <1>2, <1>4, <2>1, <2>2, <2>3, <2>4, <2>5, HandKeeps
<1>5. QED
  BY <1>3, <1>4 DEF Refetched

LEMMA HandGivesUp ==
  ASSUME IInv, HandInv, NEW t \in Tasks, NEW call \in {"mark", "reclaim"}, GivesUp(t, call),
         holds[t] # NoRequest
  PROVE  HandInv'
<1>1. PICK f \in BOOLEAN :
        Awaits(t, "update_request", [NewOp(call) EXCEPT !.request = holds[t], !.forefront = f])
  BY DEF GivesUp
<1>2. holds[t] \in Requests /\ holds[t] \in Reserves(t) /\ My(t) \in ClientRecord
  BY MyClientFits DEF IInv, HoldsInv, Reserves, Reserved
<1>3. /\ op'[t] = [NewOp(call) EXCEPT !.request = holds[t], !.forefront = f]
      /\ \A u \in Tasks : u # t => op'[u] = op[u]
  BY <1>1 DEF IInv, CallsInv, Awaits
<1>4. op'[t].call # "fetch"
  <2>1. NewOp(call) \in OpRecord /\ NewOp(call).call = call
    BY NewOpFits
  <2>2. QED
    BY <1>3, <2>1 DEF OpRecord
<1>5. holds'[t] = NoRequest /\ \A u \in Tasks : u # t => holds'[u] = holds[u]
  BY DEF GivesUp, IInv, HoldsInv
<1>6. Reserves(t)' = {}
  BY <1>4, <1>5 DEF Reserves, Reserved
<1>7. /\ My(t)' = Discard(My(t), holds[t])
      /\ \A c \in Clients : c # ClientOf[t] => local'[c] = local[c]
  BY DEF GivesUp, Becomes, My, IInv, ClientsInv
<1>8. My(t)'.inProgress = My(t).inProgress \ {holds[t]}
  BY <1>2, <1>7, DiscardLeaves
<1>9. QED
  BY <1>2, <1>3, <1>4, <1>5, <1>6, <1>7, <1>8, HandKeeps

LEMMA HandUpdated ==
  ASSUME IInv, HandInv, NEW t \in Tasks, Updated(t)
  PROVE  HandInv'
<1>1. UNCHANGED holds /\ Returns(t) /\ My(t) \in ClientRecord
  BY MyClientFits DEF Updated, IInv
<1> DEFINE r == op[t].request
           marks == op[t].call = "mark"
           n == My(t).handled + CountsChange(op[t].call, op[t].seen[r] = "handled")
           f == My(t).forefront \/ op[t].forefront
           l == [My(t) EXCEPT !.handled = n, !.forefront = f]
           e == Entry(IF marks THEN "handled" ELSE "pending", NoLease)
           v == Cache(l, r, e, marks)
<1>2. Becomes(t, v)
  BY DEF Updated
<1>3. v.inProgress = My(t).inProgress
  <2>1. l.inProgress = My(t).inProgress /\ DOMAIN l = DOMAIN My(t)
    <3> HIDE DEF n, f
    <3>1. QED
      BY <1>1 DEF ClientRecord
  <2> HIDE DEF l, e, marks, r
  <2>2. QED
    BY <1>1, <2>1 DEF Cache, ClientRecord
<1>4. NoOp.call # "fetch"
  BY NoOpFits
<1> HIDE DEF v
<1>5. QED
  BY <1>1, <1>2, <1>3, <1>4, HandIdles DEF Returns

LEMMA HandSettles ==
  ASSUME IInv, HandInv, NEW t \in Tasks, NEW at, NEW o, NEW committed, NEW l,
         op[t].call = "add", o.call # "fetch", Settle(t, at, o, committed), Becomes(t, l),
         UNCHANGED holds, l.inProgress = My(t).inProgress
  PROVE  HandInv'
<1>1. ASSUME NEW u \in Tasks, u # t
      PROVE  op'[u].call = op[u].call /\ op'[u].request = op[u].request
  <2>1. op[u] \in OpRecord
    BY DEF IInv, CallsInv
  <2>2. CASE op'[u] = op[u]
    BY <2>2
  <2>3. CASE op'[u] = [op[u] EXCEPT !.known = @ \cup (op[u].waits \cap committed),
                                    !.waits = @ \ op[t].batch]
    <3> DEFINE known == op[u].known \cup (op[u].waits \cap committed)
               waits == op[u].waits \ op[t].batch
    <3>1. op'[u] = [op[u] EXCEPT !.known = known, !.waits = waits]
      BY <2>1, <2>3 DEF OpRecord
    <3> HIDE DEF known, waits
    <3>2. QED
      BY <2>1, <3>1 DEF OpRecord
  <2>4. QED
    BY <1>1, <2>2, <2>3 DEF Settle
<1>2. op'[t] = o
  BY DEF Settle
<1>3. /\ My(t)' = l
      /\ \A c \in Clients : c # ClientOf[t] => local'[c] = local[c]
  BY DEF Becomes, My, IInv, ClientsInv
<1>4. Reserves(t)' \subseteq Reserves(t)
  BY <1>2 DEF Reserves, Reserved
<1>5. Reserves(t) \subseteq My(t).inProgress
  BY DEF HandInv
<1>6. QED
  BY <1>1, <1>2, <1>3, <1>4, <1>5, HandKeeps

LEMMA HandBatchAnswered ==
  ASSUME IInv, HandInv, NEW t \in Tasks, BatchAnswered(t)
  PROVE  HandInv'
<1>1. UNCHANGED holds /\ op[t].call = "add" /\ My(t) \in ClientRecord /\ op[t] \in OpRecord
  BY MyClientFits, MyOpFits DEF BatchAnswered, Answered, IInv, OpFits, PlaceFits
<1> DEFINE committed == op[t].batch \ op[t].rejected
           new == {r \in committed : op[t].seen[r] = "absent"}
           record == [op[t] EXCEPT !.batch = {}, !.new = new, !.known = @ \cup (committed \ new)]
           returns == record.waits = {}
           l == [My(t) EXCEPT
                  !.cache = [r \in Requests |-> IF r \in committed THEN Entry("no", NoLease)
                                                ELSE @[r]],
                  !.unhandled = @ \cup committed, !.beingAdded = @ \ op[t].batch,
                  !.total = IF returns THEN @ + Cardinality(new) ELSE @]
<1>2. Becomes(t, l)
  BY DEF BatchAnswered
<1>3. \/ Settle(t, "idle", NoOp, committed)
      \/ Settle(t, "in_flight", record, committed)
  BY DEF BatchAnswered
<1>4. l.inProgress = My(t).inProgress
  <2> HIDE DEF committed, new, returns
  <2>1. QED
    BY <1>1 DEF ClientRecord
<1>5. record.call # "fetch"
  <2> DEFINE known == op[t].known \cup (committed \ new)
  <2>1. record = [op[t] EXCEPT !.batch = {}, !.new = new, !.known = known]
    BY <1>1 DEF OpRecord
  <2> HIDE DEF committed, new, known, record
  <2>2. QED
    BY <1>1, <2>1 DEF OpRecord
<1> HIDE DEF committed, record, l
<1>6. QED
  BY <1>1, <1>2, <1>3, <1>4, <1>5, NoOpFits, HandSettles

LEMMA HandCallAdd ==
  ASSUME IInv, HandInv, NEW t \in Tasks, CallAdd(t)
  PROVE  HandInv'
<1>1. UNCHANGED holds /\ My(t) \in ClientRecord
  BY MyClientFits DEF CallAdd, IInv
<1>2. PICK b \in Batches :
        LET l == My(t)
            known == {r \in b : l.cache[r] # Uncached}
            send == b \ (known \cup l.beingAdded)
            waits == b \ (known \cup send)
            record == [NewOp("add") EXCEPT !.batch = send, !.known = known, !.waits = waits]
        IN  /\ Becomes(t, [l EXCEPT !.beingAdded = @ \cup send])
            /\ IF b = known THEN Returns(t)
               ELSE Awaits(t, IF send # {} THEN "batch_add" ELSE "in_flight", record)
  BY DEF CallAdd
<1> DEFINE known == {r \in b : My(t).cache[r] # Uncached}
           send == b \ (known \cup My(t).beingAdded)
           waits == b \ (known \cup send)
           record == [NewOp("add") EXCEPT !.batch = send, !.known = known, !.waits = waits]
           at == IF send # {} THEN "batch_add" ELSE "in_flight"
           l == [My(t) EXCEPT !.beingAdded = @ \cup send]
<1>3. Becomes(t, l) /\ (Returns(t) \/ Awaits(t, at, record))
  BY <1>2
<1>4. l.inProgress = My(t).inProgress
  <2> HIDE DEF send
  <2>1. QED
    BY <1>1 DEF ClientRecord
<1>5. record.call # "fetch"
  <2>1. NewOp("add") \in OpRecord /\ NewOp("add").call = "add"
    BY NewOpFits
  <2> HIDE DEF known, send, waits
  <2>2. QED
    BY <2>1 DEF OpRecord
<1> HIDE DEF at, record, l
<1>6. QED
  BY <1>1, <1>3, <1>4, <1>5, NoOpFits, HandIdles DEF Returns

LEMMA HandAddReturns ==
  ASSUME IInv, HandInv, NEW t \in Tasks, AddReturns(t)
  PROVE  HandInv'
<1>1. UNCHANGED holds /\ Returns(t) /\ My(t) \in ClientRecord
  BY MyClientFits DEF AddReturns, IInv
<1> DEFINE n == My(t).total + Cardinality(op[t].new)
           l == [My(t) EXCEPT !.total = n]
<1>2. Becomes(t, l)
  BY DEF AddReturns
<1>3. l.inProgress = My(t).inProgress
  <2> HIDE DEF n
  <2>1. QED
    BY <1>1 DEF ClientRecord
<1> HIDE DEF l
<1>4. QED
  BY <1>1, <1>2, <1>3, NoOpFits, HandIdles DEF Returns

(* Verdicts and verifications.                                              *)
LEMMA HandVerdict ==
  ASSUME IInv, HandInv, NEW t \in Tasks, NEW record, NEW yes, Verdict(t, record, yes),
         UNCHANGED holds, NEW v, Becomes(t, v), v.inProgress = My(t).inProgress
  PROVE  HandInv'
<1> DEFINE known == record.known
           o == [NewOp("finished") EXCEPT !.known = known, !.yes = TRUE]
<1>1. Awaits(t, "idle", o) \/ Awaits(t, "idle", NoOp)
  BY DEF Verdict, Returns
<1>2. o.call # "fetch"
  <2>1. NewOp("finished") \in OpRecord /\ NewOp("finished").call = "finished"
    BY NewOpFits
  <2> HIDE DEF known
  <2>2. QED
    BY <2>1 DEF OpRecord
<1> HIDE DEF o
<1>3. QED
  BY <1>1, <1>2, NoOpFits, HandIdles

LEMMA HandConcludes ==
  ASSUME IInv, HandInv, NEW t \in Tasks, NEW record, NEW l, NEW yes,
         Concludes(t, record, l, yes), UNCHANGED holds,
         NEW v, Becomes(t, v), v.inProgress = My(t).inProgress
  PROVE  HandInv'
<1> DEFINE known == record.known
           batch == l.unhandled
           o == [NewOp("finished") EXCEPT !.known = known, !.batch = batch, !.waits = batch]
<1>1. Verdict(t, record, FALSE) \/ Verdict(t, record, TRUE) \/ Awaits(t, "verify", o)
  BY DEF Concludes
<1>2. o.call # "fetch"
  <2>1. NewOp("finished") \in OpRecord /\ NewOp("finished").call = "finished"
    BY NewOpFits
  <2> HIDE DEF known, batch
  <2>2. QED
    BY <2>1 DEF OpRecord
<1> HIDE DEF o
<1>3. QED
  BY <1>1, <1>2, HandVerdict, HandIdles

LEMMA HandCallFinished ==
  ASSUME IInv, HandInv, NEW t \in Tasks, CallFinished(t)
  PROVE  HandInv'
<1> DEFINE a == added[ClientOf[t]]
           record == [NewOp("finished") EXCEPT !.known = a]
           asked == [record EXCEPT !.yes = CountsEmpty(My(t))]
<1>1. UNCHANGED holds
  BY DEF CallFinished
<1>2. a \in SUBSET Requests
  BY DEF IInv, PlatformInv, Present
<1>3. record \in OpRecord /\ record.call = "finished"
  <2>1. record = [NewOp("finished") EXCEPT !.known = a]
    OBVIOUS
  <2> HIDE DEF record, a
  <2>2. QED
    BY <1>2, <2>1, FinishedRecord
<1>4. CASE List(t, record)
  <2> HIDE DEF record
  <2>1. QED
    BY <1>1, <1>3, <1>4, ListHands
<1>5. CASE UNCHANGED local /\ Awaits(t, "metadata", asked)
  <2>1. asked.call # "fetch"
    <3> HIDE DEF record
    <3>1. QED
      BY <1>3 DEF OpRecord
  <2>2. Becomes(t, My(t))
    BY <1>5, ClientStays DEF IInv
  <2> HIDE DEF asked
  <2>3. QED
    BY <1>1, <1>5, <2>1, <2>2, HandIdles
<1>6. CASE UNCHANGED local /\ Concludes(t, record, My(t), CountsEmpty(My(t)))
  <2>1. Becomes(t, My(t))
    BY <1>6, ClientStays DEF IInv
  <2> HIDE DEF record
  <2>2. QED
    BY <1>1, <1>6, <2>1, HandConcludes
<1>7. QED
  BY <1>4, <1>5, <1>6 DEF CallFinished

LEMMA HandFinishedHeadListed ==
  ASSUME IInv, HandInv, NEW t \in Tasks, FinishedHeadListed(t)
  PROVE  HandInv'
<1>1. UNCHANGED holds
  BY DEF FinishedHeadListed
<1>2. CASE Concludes(t, op[t], My(t), op[t].yes) /\ UNCHANGED local
  BY <1>1, <1>2, ClientStays, HandConcludes DEF IInv
<1>3. ASSUME Answered(t, "list_and_lock_head"), NEW l \in Listed(t), Becomes(t, l), NEW empty,
             Concludes(t, op[t], l, empty)
      PROVE  HandInv'
  <2>1. l.inProgress = My(t).inProgress
    BY <1>3, ListedKeeps DEF Answered
  <2>2. QED
    BY <1>1, <1>3, <2>1, HandConcludes
<1>4. QED
  BY <1>2, <1>3 DEF FinishedHeadListed

LEMMA HandVerified ==
  ASSUME IInv, HandInv, NEW t \in Tasks, Verified(t)
  PROVE  HandInv'
<1>1. UNCHANGED holds /\ My(t) \in ClientRecord
  BY MyClientFits DEF Verified, IInv
<1> DEFINE confirmed == {r \in op[t].batch : op[t].seen[r] = "handled"}
           l == [My(t) EXCEPT !.unhandled = @ \ confirmed]
           yes == confirmed = op[t].batch
<1>2. Becomes(t, l) /\ Verdict(t, op[t], yes)
  BY DEF Verified
<1>3. l.inProgress = My(t).inProgress
  <2> HIDE DEF confirmed
  <2>1. QED
    BY <1>1 DEF ClientRecord
<1> HIDE DEF l, yes
<1>4. QED
  BY <1>1, <1>2, <1>3, HandVerdict

LEMMA HandFails ==
  ASSUME IInv, HandInv, NEW t \in Tasks, Fail(t)
  PROVE  HandInv'
<1>1. UNCHANGED holds /\ My(t) \in ClientRecord /\ NoOp.call # "fetch"
  BY MyClientFits, NoOpFits DEF Fail, IInv
<1>2. CASE /\ pc[t] = "batch_add" /\ Settle(t, "idle", NoOp, {})
           /\ Becomes(t, [My(t) EXCEPT !.beingAdded = @ \ op[t].batch])
  <2>1. op[t].call = "add"
    BY <1>2, MyOpFits DEF IInv, OpFits, PlaceFits
  <2>2. [My(t) EXCEPT !.beingAdded = @ \ op[t].batch].inProgress = My(t).inProgress
    BY <1>1 DEF ClientRecord
  <2>3. QED
    BY <1>1, <1>2, <2>1, <2>2, HandSettles
<1>3. CASE /\ pc[t] \in {"prolong_request_lock", "hydrate"} /\ Returns(t)
           /\ Becomes(t, Discard(My(t), op[t].request))
  <2>1. Reserves(t) = {op[t].request} /\ holds[t] = NoRequest
    BY <1>3, ReservesAt
  <2>2. Discard(My(t), op[t].request).inProgress = My(t).inProgress \ {op[t].request}
    BY <1>1, DiscardLeaves
  <2>3. QED
    BY <1>1, <1>3, <2>1, <2>2, HandReturns
<1>4. CASE Returns(t) /\ UNCHANGED local
  <2>1. Becomes(t, My(t))
    BY <1>4, ClientStays DEF IInv
  <2>2. QED
    BY <1>1, <1>4, <2>1, HandIdles DEF Returns
<1>5. QED
  BY <1>2, <1>3, <1>4 DEF Fail

LEMMA HandStep == IInv /\ HandInv /\ [Next]_vars => HandInv'
<1> SUFFICES ASSUME IInv, HandInv, [Next]_vars PROVE HandInv'
  OBVIOUS
<1>1. ASSUME NEW t \in Tasks, Call(t)
      PROVE  HandInv'
  <2>1. ASSUME CallMark(t) \/ CallReclaim(t)
        PROVE  HandInv'
    BY <2>1, HandGivesUp DEF CallMark, CallReclaim
  <2>2. QED
    BY <1>1, <2>1, HandCallAdd, HandCallFetch, HandCallFinished DEF Call
<1>2. ASSUME NEW t \in Tasks, Resume(t)
      PROVE  HandInv'
  BY <1>2, HandBatchAnswered, HandAddReturns, HandFetchHeadListed, HandProlonged, HandHydrated,
     HandRefetched, HandUpdated, HandFinishedHeadListed, HandVerified DEF Resume
<1>3. ASSUME UNCHANGED vars
      PROVE  HandInv'
  BY <1>3, HandSame DEF vars, taskVars
<1>4. QED
  BY <1>1, <1>2, <1>3, HandAnswers, HandFails, HandTicks DEF Next

(* _request_queue_shared_client.py fetch_next_request: no two tasks of a    *)
(* client hold the same request, also when its lock lapsed and it was       *)
(* listed again.                                                            *)
THEOREM HandsOutOnce == Spec => []HandedOutOnce
<1>1. IInv /\ HandInv => HandedOutOnce
  <2> SUFFICES ASSUME IInv, HandInv, NEW t \in Tasks, NEW u \in Tasks, t # u, SameClient(t, u),
                      holds[t] # NoRequest
               PROVE  holds[t] # holds[u]
    BY DEF HandedOutOnce
  <2>1. Reserves(t) \cap Reserves(u) = {} /\ holds[t] \in Requests
    BY DEF HandInv, IInv, HoldsInv
  <2>2. QED
    BY <2>1 DEF Reserves, Reserved
<1>2. QED
  BY <1>1, HandInit, HandStep, Always, PTL DEF Spec

-----------------------------------------------------------------------------
(* The counters of an only client, while no call failed: its total is the   *)
(* number of requests on the platform but for those a call under way has    *)
(* added and not counted yet; its handled, the number of handled requests   *)
(* but for those a mark or a reclaim has moved and not counted yet.         *)

Alone == ~ManyClients /\ failures = 0

OpOwes(at, o) ==
  IF at = "batch_add" /\ o.answered THEN {r \in o.batch \ o.rejected : o.seen[r] = "absent"}
  ELSE IF at = "in_flight" THEN o.new ELSE {}

Owes(t) == OpOwes(pc[t], op[t])
Owed == {r \in Requests : \E t \in Tasks : r \in Owes(t)}

Moves(at, o, call, was) ==
  /\ at = "update_request" /\ o.answered /\ o.call = call
  /\ (o.seen[o.request] = "handled") = was

Closing == {t \in Tasks : Moves(pc[t], op[t], "mark", FALSE)}
Opening == {t \in Tasks : Moves(pc[t], op[t], "reclaim", TRUE)}
HandledThere == {r \in Requests : platform[r] = "handled"}

TotalInv ==
  /\ \A t \in Tasks : Owes(t) \subseteq Present
  /\ \A t, u \in Tasks : t # u => Owes(t) \cap Owes(u) = {}
  /\ \A c \in Clients : local[c].total = Cardinality(Present \ Owed)

HandledInv ==
  /\ IsFiniteSet(Closing) /\ IsFiniteSet(Opening)
  /\ \A c \in Clients :
       local[c].handled = Cardinality(HandledThere) - Cardinality(Closing) + Cardinality(Opening)

CountsInv == TotalInv /\ HandledInv

(* What a task was handed, or is updating, is on the platform.              *)
HeldInv ==
  \A t \in Tasks :
    /\ holds[t] # NoRequest => holds[t] \in Present
    /\ pc[t] = "update_request" => op[t].request \in Present

LEMMA SubsetsAreCounted ==
  ASSUME NEW S \in SUBSET Requests
  PROVE  IsFiniteSet(S) /\ Cardinality(S) \in Nat
BY FS_Subset, FS_CardinalityType

(* The step is one of t's calls, and goes on to an await where nothing is   *)
(* owed and nothing moved.                                                  *)
MovesNothing(at, o) ==
  /\ at \in {"batch_add", "update_request"} => o.answered = FALSE
  /\ at = "in_flight" => o.new = {}

GoesOn(t) == \E at, o : Awaits(t, at, o) /\ MovesNothing(at, o)

SameCounts(l, v) == l.total = v.total /\ l.handled = v.handled

KeepsCounts(t) == \E l : Becomes(t, l) /\ SameCounts(l, My(t))

LEMMA CountsKept ==
  ASSUME IInv, NEW t \in Tasks, KeepsCounts(t), NEW c \in Clients
  PROVE  SameCounts(local'[c], local[c])
<1>1. PICK l : Becomes(t, l) /\ SameCounts(l, My(t))
  BY DEF KeepsCounts
<1>2. local' = [local EXCEPT ![ClientOf[t]] = l] /\ DOMAIN local = Clients
  BY <1>1 DEF Becomes, IInv, ClientsInv
<1>3. CASE c = ClientOf[t]
  BY <1>1, <1>2, <1>3 DEF My
<1>4. CASE c # ClientOf[t]
  BY <1>2, <1>4 DEF SameCounts
<1>5. QED
  BY <1>3, <1>4

(* A step that leaves alone what is owed, or what has moved.                *)
LEMMA NothingOwed ==
  ASSUME TotalInv, Present' = Present, \A u \in Tasks : Owes(u)' = Owes(u),
         \A c \in Clients : local'[c].total = local[c].total
  PROVE  TotalInv'
<1> HIDE DEF Owes
<1>1. Owed' = Owed
  BY DEF Owed
<1>2. Present' \ Owed' = Present \ Owed
  BY <1>1
<1>3. \A c \in Clients : local'[c].total = Cardinality(Present' \ Owed')
  BY <1>2 DEF TotalInv
<1>4. \A u \in Tasks : Owes(u)' \subseteq Present'
  BY DEF TotalInv
<1>5. \A u, v \in Tasks : u # v => Owes(u)' \cap Owes(v)' = {}
  BY DEF TotalInv
<1>6. QED
  BY <1>3, <1>4, <1>5 DEF TotalInv

LEMMA NothingMoves ==
  ASSUME HandledInv, HandledThere' = HandledThere, Closing' = Closing, Opening' = Opening,
         \A c \in Clients : local'[c].handled = local[c].handled
  PROVE  HandledInv'
<1> HIDE DEF Closing, Opening, HandledThere
<1>1. QED
  BY DEF HandledInv

(* What a call of t that is under way owes and moves.                       *)
LEMMA OthersStay ==
  ASSUME IInv, NEW t \in Tasks, NEW at, NEW o, Awaits(t, at, o)
  PROVE  /\ pc'[t] = at /\ op'[t] = o
         /\ \A u \in Tasks \ {t} : pc'[u] = pc[u] /\ op'[u] = op[u]
BY DEF Awaits, IInv, CallsInv

LEMMA QuietStep ==
  ASSUME IInv, CountsInv, NEW t \in Tasks, GoesOn(t), KeepsCounts(t), UNCHANGED platform,
         pc[t] # "in_flight", ~Answered(t, "batch_add"), ~Answered(t, "update_request")
  PROVE  CountsInv'
<1>1. PICK at, o : Awaits(t, at, o) /\ MovesNothing(at, o)
  BY DEF GoesOn
<1>2. /\ pc'[t] = at /\ op'[t] = o
      /\ \A u \in Tasks \ {t} : pc'[u] = pc[u] /\ op'[u] = op[u]
  BY <1>1, OthersStay
<1>3. Owes(t) = {} /\ Owes(t)' = {}
  BY <1>1, <1>2 DEF Owes, OpOwes, Answered, MovesNothing
<1>4. \A call, was : /\ ~Moves(pc[t], op[t], call, was)
                     /\ ~Moves(pc'[t], op'[t], call, was)
  BY <1>1, <1>2 DEF Moves, Answered, MovesNothing
<1>5. \A u \in Tasks : Owes(u)' = Owes(u)
  BY <1>2, <1>3 DEF Owes
<1>6. Closing' = Closing /\ Opening' = Opening
  BY <1>2, <1>4 DEF Closing, Opening
<1>7. Present' = Present /\ HandledThere' = HandledThere
  BY DEF Present, HandledThere
<1>8. QED
  BY <1>5, <1>6, <1>7, CountsKept, NothingOwed, NothingMoves DEF CountsInv, SameCounts

(* The steps that count nothing.                                            *)
LEMMA KeepsBoth ==
  ASSUME NEW t \in Tasks, NEW l, Becomes(t, l), SameCounts(l, My(t))
  PROVE  KeepsCounts(t)
BY DEF KeepsCounts

LEMMA StaysCounted ==
  ASSUME IInv, NEW t \in Tasks, UNCHANGED local
  PROVE  KeepsCounts(t)
BY ClientStays DEF KeepsCounts, SameCounts, IInv

LEMMA DiscardCounts ==
  ASSUME NEW l \in ClientRecord, NEW r
  PROVE  SameCounts(Discard(l, r), l)
BY DEF Discard, ClientRecord, SameCounts

LEMMA ElsewhereMovesNothing ==
  ASSUME NEW at, NEW o, at \notin {"batch_add", "update_request", "in_flight"}
  PROVE  MovesNothing(at, o)
BY DEF MovesNothing

LEMMA ReturnGoesOn ==
  ASSUME NEW t \in Tasks, Returns(t)
  PROVE  GoesOn(t)
BY ElsewhereMovesNothing DEF Returns, GoesOn

Quiet(t) == GoesOn(t) /\ KeepsCounts(t)

LEMMA LookUpQuiet ==
  ASSUME NEW t \in Tasks, NEW r, NEW l \in ClientRecord, SameCounts(l, My(t)), LookUp(t, r, l)
  PROVE  Quiet(t)
<1>1. \/ \E at \in {"hydrate", "refetch"} : \E o : Becomes(t, l) /\ Awaits(t, at, o)
      \/ Becomes(t, Discard(l, r)) /\ Returns(t)
  BY DEF LookUp
<1>2. CASE \E at \in {"hydrate", "refetch"} : \E o : Becomes(t, l) /\ Awaits(t, at, o)
  BY <1>2, KeepsBoth, ElsewhereMovesNothing DEF Quiet, GoesOn
<1>3. CASE Becomes(t, Discard(l, r)) /\ Returns(t)
  <2>1. SameCounts(Discard(l, r), My(t))
    BY DiscardCounts DEF SameCounts
  <2>2. QED
    BY <1>3, <2>1, KeepsBoth, ReturnGoesOn DEF Quiet
<1>4. QED
  BY <1>1, <1>2, <1>3

LEMMA PickQuiet ==
  ASSUME NEW t \in Tasks, NEW l \in ClientRecord, SameCounts(l, My(t)), Pick(t, l)
  PROVE  Quiet(t)
<1>1. CASE Becomes(t, [l EXCEPT !.head = <<>>]) /\ Returns(t)
  <2> DEFINE v == [l EXCEPT !.head = <<>>]
  <2>1. SameCounts(v, My(t))
    BY DEF ClientRecord, SameCounts
  <2> HIDE DEF v
  <2>2. QED
    BY <1>1, <2>1, KeepsBoth, ReturnGoesOn DEF v, Quiet
<1>2. ASSUME NEW i \in Eligible(l),
             LET r == l.head[i]
                 reserved == [l EXCEPT !.head = SubSeq(@, i + 1, Len(@)),
                                       !.inProgress = @ \cup {r}]
             IN  IF WindowSuffices(l.cache[r].left) THEN LookUp(t, r, reserved)
                 ELSE /\ Becomes(t, reserved)
                      /\ Awaits(t, "prolong_request_lock", [NewOp("fetch") EXCEPT !.request = r])
      PROVE  Quiet(t)
  <2> DEFINE r == l.head[i]
             rest == SubSeq(l.head, i + 1, Len(l.head))
             s == l.inProgress \cup {r}
             reserved == [l EXCEPT !.head = SubSeq(@, i + 1, Len(@)), !.inProgress = @ \cup {r}]
  <2>1. i \in DOMAIN l.head /\ l.head \in Seq(Requests)
    BY <1>2 DEF Eligible, ClientRecord
  <2>2. r \in Requests /\ rest \in Seq(Requests)
    BY <2>1, RestIsSequence
  <2>3. s \in SUBSET Requests
    BY <2>2 DEF ClientRecord
  <2>4. reserved = [l EXCEPT !.head = rest, !.inProgress = s]
    BY DEF ClientRecord
  <2>5. \/ LookUp(t, r, reserved)
        \/ \E o : Becomes(t, reserved) /\ Awaits(t, "prolong_request_lock", o)
    BY <1>2
  <2> HIDE DEF r, rest, s, reserved
  <2>6. reserved \in ClientRecord /\ SameCounts(reserved, My(t))
    BY <2>2, <2>3, <2>4 DEF ClientRecord, SameCounts
  <2>7. CASE LookUp(t, r, reserved)
    BY <2>6, <2>7, LookUpQuiet
  <2>8. CASE \E o : Becomes(t, reserved) /\ Awaits(t, "prolong_request_lock", o)
    BY <2>6, <2>8, KeepsBoth, ElsewhereMovesNothing DEF Quiet, GoesOn
  <2>9. QED
    BY <2>5, <2>7, <2>8
<1>3. QED
  BY <1>1, <1>2 DEF Pick

LEMMA ListQuiet ==
  ASSUME IInv, NEW t \in Tasks, NEW o, List(t, o)
  PROVE  Quiet(t)
<1> DEFINE l == [My(t) EXCEPT !.head = <<>>, !.forefront = FALSE]
<1>1. SameCounts(l, My(t))
  BY MyClientFits DEF IInv, ClientRecord, SameCounts
<1>2. Becomes(t, l) /\ \E v : Awaits(t, "list_and_lock_head", v)
  BY DEF List
<1> HIDE DEF l
<1>3. QED
  BY <1>1, <1>2, KeepsBoth, ElsewhereMovesNothing DEF Quiet, GoesOn

LEMMA ListedCounts ==
  ASSUME IInv, NEW t \in Tasks, pc[t] = "list_and_lock_head", NEW v \in Listed(t)
  PROVE  v \in ClientRecord /\ SameCounts(v, My(t))
<1>1. v \in ClientRecord
  BY ListedFits DEF ClientFits
<1>2. My(t) \in ClientRecord
  BY MyClientFits DEF IInv
<1>3. PICK h, y, n, k :
        v = [My(t) EXCEPT !.head = h, !.locked = y, !.unhandled = n, !.cache = k]
  BY <1>2 DEF Listed, ClientRecord
<1>4. SameCounts(v, My(t))
  BY <1>2, <1>3 DEF ClientRecord, SameCounts
<1>5. QED
  BY <1>1, <1>4

LEMMA FetchQuiet ==
  ASSUME IInv, NEW t \in Tasks, CallFetch(t) \/ FetchHeadListed(t)
  PROVE  Quiet(t)
<1>1. My(t) \in ClientRecord /\ SameCounts(My(t), My(t))
  BY MyClientFits DEF IInv, SameCounts
<1>2. CASE List(t, NewOp("fetch"))
  BY <1>2, ListQuiet
<1>3. CASE Awaits(t, "metadata", NewOp("fetch")) /\ UNCHANGED local
  BY <1>3, StaysCounted, ElsewhereMovesNothing DEF Quiet, GoesOn
<1>4. CASE Pick(t, My(t))
  BY <1>1, <1>4, PickQuiet
<1>5. CASE Answered(t, "list_and_lock_head") /\ \E l \in Listed(t) : Pick(t, l)
  BY <1>5, ListedCounts, PickQuiet DEF Answered
<1>6. QED
  BY <1>2, <1>3, <1>4, <1>5 DEF CallFetch, FetchHeadListed

LEMMA LookedUpQuiet ==
  ASSUME IInv, NEW t \in Tasks, Prolonged(t) \/ Hydrated(t) \/ Refetched(t)
  PROVE  Quiet(t)
<1> DEFINE r == op[t].request
           k == [My(t).cache EXCEPT ![r].left = op[t].left[r]]
           l == [My(t) EXCEPT !.cache[r].left = op[t].left[r]]
           status == op[t].seen[r]
           e == Entry(status, op[t].left[r])
           v == Cache(My(t), r, e, status = "handled")
<1>1. /\ My(t) \in ClientRecord /\ r \in Requests /\ op[t] \in OpRecord
      /\ OpFits(pc[t], op[t], Present, added[ClientOf[t]], done)
      /\ ClientFits(My(t), Present, added[ClientOf[t]], done)
  BY MyClientFits, MyOpFits
  DEF IInv, Prolonged, Hydrated, Refetched, Answered, OpFits, PlaceFits
<1>2. SameCounts(Discard(My(t), r), My(t))
  BY <1>1, DiscardCounts
<1>3. SameCounts(My(t), My(t))
  BY DEF SameCounts
<1>4. CASE Becomes(t, Discard(My(t), r)) /\ Returns(t)
  BY <1>2, <1>4, KeepsBoth, ReturnGoesOn DEF Quiet
<1>5. CASE UNCHANGED local /\ Returns(t)
  BY <1>5, StaysCounted, ReturnGoesOn DEF Quiet
<1>6. CASE op[t].left[r] # NoLease /\ LookUp(t, r, l)
  <2>1. l \in ClientRecord
    <3>1. op[t].left[r] \in Int /\ r \in Present
      BY <1>1, <1>6 DEF OpRecord, OpFits, AnswerFits
    <3>2. ClientFits(l, Present, added[ClientOf[t]], done)
      BY <1>1, <3>1, LeaseFits
    <3>3. QED
      BY <3>2 DEF ClientFits
  <2>2. SameCounts(l, My(t))
    BY <1>1 DEF ClientRecord, SameCounts
  <2> HIDE DEF l, r
  <2>3. QED
    BY <1>6, <2>1, <2>2, LookUpQuiet
<1>7. CASE Hydrated(t) /\ status # "absent"
  <2>1. /\ e \in EntryRecord /\ r \in Present /\ (status = "handled" => r \in done)
    <3>1. status \in Status /\ op[t].left[r] \in Int
      BY <1>1 DEF OpRecord
    <3>2. QED
      BY <1>1, <1>7, <3>1, UncachedEntry DEF OpFits, AnswerFits
  <2>2. v \in ClientRecord
    <3> DEFINE h == status = "handled"
    <3>1. h \in BOOLEAN /\ (h => r \in done)
      BY <2>1
    <3> HIDE DEF h
    <3>2. ClientFits(Cache(My(t), r, e, h), Present, added[ClientOf[t]], done)
      BY <1>1, <2>1, <3>1, CacheFits
    <3>3. QED
      BY <3>2 DEF ClientFits, h
  <2>3. SameCounts(v, My(t))
    BY <1>1 DEF Cache, ClientRecord, SameCounts
  <2>4. SameCounts(Discard(v, r), My(t))
    <3> HIDE DEF v
    <3>1. QED
      BY <2>2, <2>3, DiscardCounts DEF SameCounts
  <2>5. \/ \E o : Becomes(t, v) /\ Awaits(t, "refetch", o)
        \/ Becomes(t, Discard(v, r)) /\ Returns(t)
    BY <1>7 DEF Hydrated
  <2> HIDE DEF v
  <2>6. QED
    BY <2>3, <2>4, <2>5, KeepsBoth, ReturnGoesOn, ElsewhereMovesNothing DEF Quiet, GoesOn
<1>8. CASE Hydrated(t) /\ status = "absent"
  BY <1>4, <1>8 DEF Hydrated
<1>9. CASE Prolonged(t) \/ Refetched(t)
  BY <1>4, <1>5, <1>6, <1>9 DEF Prolonged, Refetched
<1>10. QED
  BY <1>7, <1>8, <1>9

LEMMA CallAddQuiet ==
  ASSUME IInv, NEW t \in Tasks, CallAdd(t)
  PROVE  Quiet(t)
<1>1. My(t) \in ClientRecord
  BY MyClientFits DEF IInv
<1>2. PICK b \in Batches :
        LET l == My(t)
            known == {r \in b : l.cache[r] # Uncached}
            send == b \ (known \cup l.beingAdded)
            waits == b \ (known \cup send)
            record == [NewOp("add") EXCEPT !.batch = send, !.known = known, !.waits = waits]
        IN  /\ Becomes(t, [l EXCEPT !.beingAdded = @ \cup send])
            /\ IF b = known THEN Returns(t)
               ELSE Awaits(t, IF send # {} THEN "batch_add" ELSE "in_flight", record)
  BY DEF CallAdd
<1> DEFINE known == {r \in b : My(t).cache[r] # Uncached}
           send == b \ (known \cup My(t).beingAdded)
           waits == b \ (known \cup send)
           record == [NewOp("add") EXCEPT !.batch = send, !.known = known, !.waits = waits]
           at == IF send # {} THEN "batch_add" ELSE "in_flight"
           l == [My(t) EXCEPT !.beingAdded = @ \cup send]
<1>3. Becomes(t, l) /\ (Returns(t) \/ Awaits(t, at, record))
  BY <1>2
<1>4. SameCounts(l, My(t))
  <2> HIDE DEF send
  <2>1. QED
    BY <1>1 DEF ClientRecord, SameCounts
<1>5. record.answered = FALSE /\ record.new = {}
  <2>1. NewOp("add").answered = FALSE
    BY DEF NewOp
  <2>2. NewOp("add") \in OpRecord /\ NewOp("add").new = {}
    BY NewOpFits
  <2> HIDE DEF known, send, waits
  <2>3. QED
    BY <2>1, <2>2 DEF OpRecord
<1> HIDE DEF at, record, l
<1>6. MovesNothing(at, record)
  BY <1>5 DEF MovesNothing
<1>7. QED
  BY <1>3, <1>4, <1>6, KeepsBoth, ReturnGoesOn DEF Quiet, GoesOn

LEMMA GivesUpQuiet ==
  ASSUME IInv, NEW t \in Tasks, NEW call \in {"mark", "reclaim"}, GivesUp(t, call),
         holds[t] # NoRequest
  PROVE  /\ Quiet(t)
         /\ \E o : /\ Awaits(t, "update_request", o) /\ o.request = holds[t]
                   /\ o.answered = FALSE
<1>1. PICK f \in BOOLEAN :
        Awaits(t, "update_request", [NewOp(call) EXCEPT !.request = holds[t], !.forefront = f])
  BY DEF GivesUp
<1> DEFINE o == [NewOp(call) EXCEPT !.request = holds[t], !.forefront = f]
<1>2. o.answered = FALSE /\ o.request = holds[t]
  <2>1. NewOp(call).answered = FALSE
    BY DEF NewOp
  <2>2. NewOp(call) \in OpRecord
    BY NewOpFits
  <2>3. QED
    BY <2>1, <2>2 DEF OpRecord
<1>3. SameCounts(Discard(My(t), holds[t]), My(t))
  BY MyClientFits, DiscardCounts DEF IInv
<1>4. Becomes(t, Discard(My(t), holds[t]))
  BY DEF GivesUp
<1>5. Awaits(t, "update_request", o)
  BY <1>1
<1> HIDE DEF o
<1>6. MovesNothing("update_request", o)
  BY <1>2 DEF MovesNothing
<1>7. QED
  BY <1>2, <1>3, <1>4, <1>5, <1>6, KeepsBoth DEF Quiet, GoesOn

LEMMA VerdictGoesOn ==
  ASSUME NEW t \in Tasks, NEW record, NEW l, NEW yes,
         Verdict(t, record, yes) \/ Concludes(t, record, l, yes)
  PROVE  GoesOn(t)
<1>1. \E at \in {"idle", "verify"} : \E o : Awaits(t, at, o)
  BY DEF Concludes, Verdict, Returns
<1>2. QED
  BY <1>1, ElsewhereMovesNothing DEF GoesOn

LEMMA FinishedQuiet ==
  ASSUME IInv, NEW t \in Tasks, CallFinished(t) \/ FinishedHeadListed(t) \/ Verified(t)
  PROVE  Quiet(t)
<1>1. CASE \E o : List(t, o)
  BY <1>1, ListQuiet
<1>2. CASE UNCHANGED local /\ \E o : Awaits(t, "metadata", o)
  BY <1>2, StaysCounted, ElsewhereMovesNothing DEF Quiet, GoesOn
<1>3. CASE UNCHANGED local /\ \E record, l, yes : Concludes(t, record, l, yes)
  BY <1>3, StaysCounted, VerdictGoesOn DEF Quiet
<1>4. CASE /\ Answered(t, "list_and_lock_head")
           /\ \E l \in Listed(t) : \E empty : Becomes(t, l) /\ Concludes(t, op[t], l, empty)
  BY <1>4, ListedCounts, KeepsBoth, VerdictGoesOn DEF Quiet, Answered
<1>5. CASE Verified(t)
  <2> DEFINE confirmed == {r \in op[t].batch : op[t].seen[r] = "handled"}
             l == [My(t) EXCEPT !.unhandled = @ \ confirmed]
             yes == confirmed = op[t].batch
  <2>1. Becomes(t, l) /\ Verdict(t, op[t], yes)
    BY <1>5 DEF Verified
  <2>2. SameCounts(l, My(t))
    <3> HIDE DEF confirmed
    <3>1. QED
      BY MyClientFits DEF IInv, ClientRecord, SameCounts
  <2> HIDE DEF l, yes
  <2>3. QED
    BY <2>1, <2>2, KeepsBoth, VerdictGoesOn DEF Quiet
<1>6. CASE FinishedHeadListed(t)
  BY <1>3, <1>4, <1>6 DEF FinishedHeadListed
<1>7. CASE CallFinished(t)
  BY <1>1, <1>2, <1>3, <1>7 DEF CallFinished
<1>8. QED
  BY <1>5, <1>6, <1>7

LEMMA CountsCalls ==
  ASSUME IInv, CountsInv, NEW t \in Tasks, Call(t)
  PROVE  CountsInv'
<1>1. pc[t] = "idle" /\ UNCHANGED platform
  BY DEF Call, CallAdd, CallFetch, CallFinished, CallMark, CallReclaim, GivesUp, Idle
<1>2. CASE CallMark(t) \/ CallReclaim(t)
  <2>1. Quiet(t)
    BY <1>2, GivesUpQuiet DEF CallMark, CallReclaim
  <2>2. QED
    BY <1>1, <2>1, QuietStep DEF Quiet, Answered
<1>3. CASE CallAdd(t) \/ CallFetch(t) \/ CallFinished(t)
  BY <1>1, <1>3, CallAddQuiet, FetchQuiet, FinishedQuiet, QuietStep DEF Quiet, Answered
<1>4. QED
  BY <1>2, <1>3 DEF Call

LEMMA CountsReads ==
  ASSUME IInv, CountsInv, NEW t \in Tasks,
         \/ AnswerListing(t) \/ AnswerProlong(t) \/ AnswerRead(t)
         \/ \E r \in Requests : AnswerVerify(t, r)
  PROVE  CountsInv'
<1>1. /\ pc[t] \in {"list_and_lock_head", "prolong_request_lock", "hydrate", "refetch",
                    "metadata", "verify"}
      /\ UNCHANGED <<pc, local, platform>>
  BY DEF AnswerListing, AnswerProlong, AnswerRead, AnswerVerify, Pending
<1>2. /\ op[t] \in OpRecord /\ DOMAIN op = Tasks /\ pc = [u \in Tasks |-> pc[u]]
  BY DEF IInv, CallsInv
<1>3. \E o : op' = [op EXCEPT ![t] = o]
  <2>1. CASE AnswerListing(t)
    BY <2>1 DEF AnswerListing
  <2>2. CASE AnswerProlong(t)
    BY <2>2 DEF AnswerProlong
  <2>3. CASE AnswerRead(t)
    BY <1>2, <2>3 DEF AnswerRead
  <2>4. CASE \E r \in Requests : AnswerVerify(t, r)
    BY <1>2, <2>4 DEF AnswerVerify
  <2>5. QED
    BY <2>1, <2>2, <2>3, <2>4
<1>4. \E o : Awaits(t, pc[t], o)
  BY <1>1, <1>2, <1>3 DEF Awaits
<1>5. GoesOn(t)
  BY <1>1, <1>4, ElsewhereMovesNothing DEF GoesOn
<1>6. QED
  BY <1>1, <1>5, StaysCounted, QuietStep DEF Answered

(* An accepted batch: what is new to the platform is owed by its task.      *)
LEMMA OwedOf ==
  ASSUME NEW t \in Tasks, \A u \in Tasks \ {t} : Owes(u)' = Owes(u), TotalInv
  PROVE  /\ Owed \ Owes(t) \subseteq Owed'
         /\ Owed' \subseteq (Owed \ Owes(t)) \cup Owes(t)'
         /\ Owes(t) \cap Requests \subseteq Owed /\ Owes(t)' \cap Requests \subseteq Owed'
<1> HIDE DEF Owes
<1>1. \A u \in Tasks \ {t} : Owes(u) \cap Owes(t) = {}
  BY DEF TotalInv
<1>2. QED
  BY <1>1 DEF Owed

LEMMA CountsBatch ==
  ASSUME IInv, CountsInv, NEW t \in Tasks, AnswerBatch(t)
  PROVE  CountsInv'
<1>1. PICK rejected \in SUBSET op[t].batch :
        /\ op' = [op EXCEPT ![t] = [Reply(t) EXCEPT !.rejected = rejected]]
        /\ platform' = [r \in Requests |->
             IF r \in op[t].batch \ rejected /\ platform[r] = "absent" THEN "pending"
             ELSE platform[r]]
  BY DEF AnswerBatch
<1> DEFINE new == {r \in op[t].batch \ rejected : platform[r] = "absent"}
           o == [Reply(t) EXCEPT !.rejected = rejected]
<1>2. /\ pc[t] = "batch_add" /\ op[t].answered # TRUE /\ pc' = pc /\ local' = local
      /\ op[t] \in OpRecord /\ op[t].batch \subseteq Requests /\ rejected \in SUBSET Requests
      /\ platform \in [Requests -> Status]
  BY MyOpFits DEF AnswerBatch, Pending, IInv, PlatformInv, OpRecord
<1>3. o.answered = TRUE /\ o.batch = op[t].batch /\ o.seen = platform /\ o.rejected = rejected
  <2>1. Reply(t) \in OpRecord /\ Reply(t).answered = TRUE /\ Reply(t).seen = platform
        /\ Reply(t).batch = op[t].batch
    BY ReplyFits DEF OpRecord
  <2>2. QED
    BY <1>2, <2>1, WithRejected
<1>4. op'[t] = o /\ \A u \in Tasks \ {t} : op'[u] = op[u]
  BY <1>1 DEF IInv, CallsInv
<1>5. Owes(t) = {} /\ Owes(t)' = new
  BY <1>2, <1>3, <1>4 DEF Owes, OpOwes
<1>6. \A u \in Tasks \ {t} : Owes(u)' = Owes(u)
  BY <1>2, <1>4 DEF Owes
<1>7. new \subseteq Requests /\ new \cap Present = {} /\ Present' = Present \cup new
  BY <1>1, <1>2 DEF Present
<1>8. TotalInv'
  <2>1. Owed' = Owed \cup new
    BY <1>5, <1>6, <1>7, OwedOf DEF CountsInv
  <2>2. Present' \ Owed' = Present \ Owed
    BY <1>7, <2>1
  <2>3. \A u \in Tasks : Owes(u)' \subseteq Present'
    BY <1>5, <1>6, <1>7 DEF CountsInv, TotalInv
  <2>4. \A u, v \in Tasks : u # v => Owes(u)' \cap Owes(v)' = {}
    BY <1>5, <1>6, <1>7 DEF CountsInv, TotalInv
  <2>5. QED
    BY <1>2, <2>2, <2>3, <2>4 DEF CountsInv, TotalInv
<1>9. HandledInv'
  <2>1. \A call, was : ~Moves(pc[t], op[t], call, was) /\ ~Moves(pc'[t], op'[t], call, was)
    BY <1>2 DEF Moves
  <2>2. Closing' = Closing /\ Opening' = Opening
    BY <1>2, <1>4, <2>1 DEF Closing, Opening
  <2>3. HandledThere' = HandledThere
    BY <1>1 DEF HandledThere
  <2>4. QED
    BY <1>2, <2>2, <2>3, NothingMoves DEF CountsInv
<1>10. QED
  BY <1>8, <1>9 DEF CountsInv

LEMMA OneMore ==
  ASSUME NEW S, IsFiniteSet(S), NEW x, x \notin S
  PROVE  IsFiniteSet(S \cup {x}) /\ Cardinality(S \cup {x}) = Cardinality(S) + 1
BY FS_AddElement

LEMMA OneLess ==
  ASSUME NEW S, IsFiniteSet(S), NEW x \in S
  PROVE  IsFiniteSet(S \ {x}) /\ Cardinality(S \ {x}) = Cardinality(S) - 1
BY FS_RemoveElement

LEMMA CountsAreIntegers ==
  ASSUME HandledInv
  PROVE  /\ IsFiniteSet(HandledThere) /\ Cardinality(HandledThere) \in Nat
         /\ Cardinality(Closing) \in Nat /\ Cardinality(Opening) \in Nat
<1>1. HandledThere \in SUBSET Requests
  BY DEF HandledThere
<1>2. QED
  BY <1>1, SubsetsAreCounted, FS_CardinalityType DEF HandledInv

LEMMA SameMembers ==
  ASSUME NEW T, NEW A, NEW B, A \subseteq T, B \subseteq T, \A u \in T : u \in B <=> u \in A
  PROVE  B = A
OBVIOUS

(* The platform takes a mark or a reclaim: what it changes there is not     *)
(* counted yet.                                                             *)
LEMMA CountsUpdate ==
  ASSUME IInv, HeldInv, CountsInv, NEW t \in Tasks, AnswerUpdate(t)
  PROVE  CountsInv'
<1>0. PICK r \in Requests : r = op[t].request /\ r \in Present
  BY DEF AnswerUpdate, Pending, HeldInv, Present
<1>1. /\ pc[t] = "update_request" /\ op[t].answered # TRUE /\ pc' = pc /\ local' = local
      /\ op[t] \in OpRecord /\ op[t].call \in {"mark", "reclaim"}
      /\ platform \in [Requests -> Status]
  BY MyOpFits DEF AnswerUpdate, Pending, IInv, PlatformInv, OpFits, PlaceFits
<1>2. /\ op'[t] = Reply(t) /\ \A u \in Tasks \ {t} : op'[u] = op[u]
      /\ platform' = [platform EXCEPT ![r] = IF op[t].call = "mark" THEN "handled" ELSE "pending"]
  BY <1>0, <1>1 DEF AnswerUpdate, IInv, CallsInv
<1>3. /\ Reply(t).answered = TRUE /\ Reply(t).seen = platform /\ Reply(t).call = op[t].call
      /\ Reply(t).request = r
  BY <1>0, ReplyFits DEF OpRecord
<1>4. \A q \in Requests : platform'[q] # "absent" <=> platform[q] # "absent"
  BY <1>0, <1>1, <1>2 DEF Present
<1>5. TotalInv'
  <2>1. \A u \in Tasks : Owes(u)' = Owes(u)
    BY <1>1, <1>2 DEF Owes, OpOwes
  <2>2. Present' = Present
    BY <1>4 DEF Present
  <2>3. QED
    BY <1>1, <2>1, <2>2, NothingOwed DEF CountsInv
<1>6. \A call, was :
        /\ ~Moves(pc[t], op[t], call, was)
        /\ Moves(pc'[t], op'[t], call, was) <=>
             op[t].call = call /\ (platform[r] = "handled") = was
  BY <1>1, <1>2, <1>3 DEF Moves
<1>7. /\ t \notin Closing /\ t \notin Opening
      /\ Closing' = IF op[t].call = "mark" /\ platform[r] # "handled"
                    THEN Closing \cup {t} ELSE Closing
      /\ Opening' = IF op[t].call = "reclaim" /\ platform[r] = "handled"
                    THEN Opening \cup {t} ELSE Opening
  <2>1. \A u \in Tasks \ {t} : pc'[u] = pc[u] /\ op'[u] = op[u]
    BY <1>1, <1>2
  <2>2. /\ ~Moves(pc[t], op[t], "mark", FALSE) /\ ~Moves(pc[t], op[t], "reclaim", TRUE)
        /\ Moves(pc'[t], op'[t], "mark", FALSE)
             <=> op[t].call = "mark" /\ platform[r] # "handled"
        /\ Moves(pc'[t], op'[t], "reclaim", TRUE)
             <=> op[t].call = "reclaim" /\ platform[r] = "handled"
    BY <1>6
  <2>3. \A u \in Tasks :
          /\ u \in Closing' <=> u \in Closing \/ (u = t /\ Moves(pc'[t], op'[t], "mark", FALSE))
          /\ u \in Opening' <=> u \in Opening \/ (u = t /\ Moves(pc'[t], op'[t], "reclaim", TRUE))
    BY <2>1, <2>2 DEF Closing, Opening
  <2>4. /\ t \notin Closing /\ t \notin Opening
        /\ Closing \subseteq Tasks /\ Opening \subseteq Tasks
        /\ Closing' \subseteq Tasks /\ Opening' \subseteq Tasks
    BY <2>2 DEF Closing, Opening
  <2> DEFINE closes == op[t].call = "mark" /\ platform[r] # "handled"
             opens == op[t].call = "reclaim" /\ platform[r] = "handled"
  <2>5. /\ \A u \in Tasks : u \in Closing' <=> u \in Closing \/ (u = t /\ closes)
        /\ \A u \in Tasks : u \in Opening' <=> u \in Opening \/ (u = t /\ opens)
    BY <2>2, <2>3
  <2> HIDE DEF Closing, Opening, closes, opens
  <2>6. ASSUME closes PROVE Closing' = Closing \cup {t}
    <3>1. \A u \in Tasks : u \in Closing' <=> u \in Closing \cup {t}
      BY <2>5, <2>6
    <3>2. QED
      BY <2>4, <3>1, SameMembers
  <2>7. ASSUME opens PROVE Opening' = Opening \cup {t}
    <3>1. \A u \in Tasks : u \in Opening' <=> u \in Opening \cup {t}
      BY <2>5, <2>7
    <3>2. QED
      BY <2>4, <3>1, SameMembers
  <2>8. ASSUME ~closes PROVE Closing' = Closing
    <3>1. \A u \in Tasks : u \in Closing' <=> u \in Closing
      BY <2>5, <2>8
    <3>2. QED
      BY <2>4, <3>1, SameMembers
  <2>9. ASSUME ~opens PROVE Opening' = Opening
    <3>1. \A u \in Tasks : u \in Opening' <=> u \in Opening
      BY <2>5, <2>9
    <3>2. QED
      BY <2>4, <3>1, SameMembers
  <2>10. QED
    BY <2>4, <2>6, <2>7, <2>8, <2>9 DEF closes, opens
<1>8. HandledThere' = IF op[t].call = "mark" THEN HandledThere \cup {r} ELSE HandledThere \ {r}
  BY <1>1, <1>2 DEF HandledThere
<1>9. r \in HandledThere <=> platform[r] = "handled"
  BY DEF HandledThere
<1> HIDE DEF Closing, Opening, HandledThere
<1>10. CASE op[t].call = "mark" /\ platform[r] # "handled"
  <2>1. /\ IsFiniteSet(Closing') /\ Cardinality(Closing') = Cardinality(Closing) + 1
        /\ Cardinality(HandledThere') = Cardinality(HandledThere) + 1
        /\ Opening' = Opening
    BY <1>7, <1>8, <1>9, <1>10, OneMore, CountsAreIntegers DEF CountsInv, HandledInv
  <2>2. HandledInv'
    BY <1>1, <2>1, CountsAreIntegers DEF CountsInv, HandledInv
  <2>3. QED
    BY <1>5, <2>2 DEF CountsInv
<1>11. CASE op[t].call = "reclaim" /\ platform[r] = "handled"
  <2>1. /\ IsFiniteSet(Opening') /\ Cardinality(Opening') = Cardinality(Opening) + 1
        /\ Cardinality(HandledThere') = Cardinality(HandledThere) - 1
        /\ Closing' = Closing
    BY <1>7, <1>8, <1>9, <1>11, OneMore, OneLess, CountsAreIntegers DEF CountsInv, HandledInv
  <2>2. HandledInv'
    BY <1>1, <2>1, CountsAreIntegers DEF CountsInv, HandledInv
  <2>3. QED
    BY <1>5, <2>2 DEF CountsInv
<1>12. CASE (op[t].call = "mark") = (platform[r] = "handled")
  <2>1. Closing' = Closing /\ Opening' = Opening /\ HandledThere' = HandledThere
    BY <1>1, <1>7, <1>8, <1>9, <1>12
  <2>2. QED
    BY <1>1, <1>5, <2>1, NothingMoves DEF CountsInv
<1>13. QED
  BY <1>1, <1>10, <1>11, <1>12

LEMMA OneClient ==
  ASSUME Alone, NEW t \in Tasks, NEW c \in Clients
  PROVE  c = ClientOf[t]
BY DEF Alone, ManyClients

LEMMA DisjointsAdd ==
  ASSUME NEW S \in SUBSET Requests, NEW T \in SUBSET Requests, S \cap T = {}
  PROVE  Cardinality(S \cup T) = Cardinality(S) + Cardinality(T)
<1>1. /\ IsFiniteSet(S) /\ IsFiniteSet(T)
      /\ Cardinality(S) \in Nat /\ Cardinality(T) \in Nat /\ Cardinality(S \cap T) = 0
  BY SubsetsAreCounted, FS_EmptySet
<1>2. Cardinality(S \cup T) = Cardinality(S) + Cardinality(T) - Cardinality(S \cap T)
  BY <1>1, FS_Union
<1>3. QED
  BY <1>1, <1>2

(* What t owed is counted: it owes nothing any more.                        *)
LEMMA PaysAll ==
  ASSUME TotalInv, NEW t \in Tasks, \A u \in Tasks \ {t} : Owes(u)' = Owes(u),
         Owes(t) \subseteq Requests, Owes(t)' = {}, Present' = Present,
         \A c \in Clients : local'[c].total = local[c].total + Cardinality(Owes(t))
  PROVE  TotalInv'
<1> HIDE DEF Owes
<1>1. Owed' = Owed \ Owes(t) /\ Owes(t) \subseteq Owed /\ Owes(t) \subseteq Present
  BY OwedOf DEF TotalInv
<1>2. Present' \ Owed' = (Present \ Owed) \cup Owes(t) /\ (Present \ Owed) \cap Owes(t) = {}
  BY <1>1
<1>3. Present \ Owed \in SUBSET Requests
  BY DEF Present
<1>4. Cardinality(Present' \ Owed') = Cardinality(Present \ Owed) + Cardinality(Owes(t))
  BY <1>2, <1>3, DisjointsAdd
<1>5. \A c \in Clients : local'[c].total = Cardinality(Present' \ Owed')
  BY <1>4 DEF TotalInv
<1>6. \A u \in Tasks : Owes(u)' \subseteq Present'
  BY DEF TotalInv
<1>7. \A u, v \in Tasks : u # v => Owes(u)' \cap Owes(v)' = {}
  BY DEF TotalInv
<1>8. QED
  BY <1>5, <1>6, <1>7 DEF TotalInv

LEMMA CountsReturns ==
  ASSUME IInv, CountsInv, Alone, NEW t \in Tasks, AddReturns(t)
  PROVE  CountsInv'
<1> DEFINE n == My(t).total + Cardinality(op[t].new)
           l == [My(t) EXCEPT !.total = n]
<1>1. /\ pc[t] = "in_flight" /\ Becomes(t, l) /\ Awaits(t, "idle", NoOp) /\ UNCHANGED platform
      /\ My(t) \in ClientRecord /\ op[t] \in OpRecord
  BY MyOpFits, MyClientFits DEF AddReturns, Returns, IInv
<1>2. l.total = My(t).total + Cardinality(op[t].new) /\ l.handled = My(t).handled
  <2> HIDE DEF n
  <2>1. l.total = n /\ l.handled = My(t).handled
    BY <1>1 DEF ClientRecord
  <2>2. QED
    BY <2>1 DEF n
<1> HIDE DEF l
<1>3. /\ pc'[t] = "idle" /\ op'[t] = NoOp
      /\ \A u \in Tasks \ {t} : pc'[u] = pc[u] /\ op'[u] = op[u]
  BY <1>1, OthersStay
<1>4. Owes(t) = op[t].new /\ Owes(t)' = {} /\ Owes(t) \subseteq Requests
  BY <1>1, <1>3 DEF Owes, OpOwes, OpRecord
<1>5. \A u \in Tasks \ {t} : Owes(u)' = Owes(u)
  BY <1>3 DEF Owes
<1>6. \A c \in Clients : local'[c] = l /\ local[c] = My(t)
  BY <1>1, OneClient DEF Becomes, My, IInv, ClientsInv
<1>7. Present' = Present /\ HandledThere' = HandledThere
  BY <1>1 DEF Present, HandledThere
<1>8. Closing' = Closing /\ Opening' = Opening
  BY <1>1, <1>3 DEF Closing, Opening, Moves
<1>9. TotalInv'
  BY <1>2, <1>4, <1>5, <1>6, <1>7, PaysAll DEF CountsInv
<1>10. HandledInv'
  BY <1>2, <1>6, <1>7, <1>8, NothingMoves DEF CountsInv
<1>11. QED
  BY <1>9, <1>10 DEF CountsInv

(* What the outcome of t's batch leaves of the other calls.                 *)
SameCall(u) ==
  /\ pc'[u] = pc[u]
  /\ op'[u].answered = op[u].answered /\ op'[u].batch = op[u].batch
  /\ op'[u].rejected = op[u].rejected /\ op'[u].seen = op[u].seen
  /\ op'[u].new = op[u].new /\ op'[u].request = op[u].request
  /\ op'[u].call = op[u].call

LEMMA SettleSame ==
  ASSUME IInv, NEW t \in Tasks, NEW at, NEW o, NEW committed, Settle(t, at, o, committed)
  PROVE  /\ pc'[t] = at /\ op'[t] = o
         /\ \A u \in Tasks \ {t} : SameCall(u)
<1>1. pc'[t] = at /\ op'[t] = o /\ \A u \in Tasks \ {t} : pc'[u] = pc[u]
  BY DEF Settle, IInv, CallsInv
<1>2. ASSUME NEW u \in Tasks \ {t}
      PROVE  SameCall(u)
  <2>1. op[u] \in OpRecord
    BY DEF IInv, CallsInv
  <2>2. CASE op'[u] = op[u]
    BY <1>1, <2>2 DEF SameCall
  <2>3. CASE op'[u] = [op[u] EXCEPT !.known = @ \cup (op[u].waits \cap committed),
                                    !.waits = @ \ op[t].batch]
    <3> DEFINE known == op[u].known \cup (op[u].waits \cap committed)
               waits == op[u].waits \ op[t].batch
    <3>1. op'[u] = [op[u] EXCEPT !.known = known, !.waits = waits]
      BY <2>1, <2>3 DEF OpRecord
    <3> HIDE DEF known, waits
    <3>2. QED
      BY <1>1, <2>1, <3>1 DEF OpRecord, SameCall
  <2>4. QED
    BY <2>2, <2>3 DEF Settle
<1>3. QED
  BY <1>1, <1>2

LEMMA CountsBatchAnswered ==
  ASSUME IInv, CountsInv, Alone, NEW t \in Tasks, BatchAnswered(t)
  PROVE  CountsInv'
<1> DEFINE committed == op[t].batch \ op[t].rejected
           new == {r \in committed : op[t].seen[r] = "absent"}
           known == op[t].known \cup (committed \ new)
           record == [op[t] EXCEPT !.batch = {}, !.new = new, !.known = @ \cup (committed \ new)]
           returns == record.waits = {}
           l == [My(t) EXCEPT
                  !.cache = [r \in Requests |-> IF r \in committed THEN Entry("no", NoLease)
                                                ELSE @[r]],
                  !.unhandled = @ \cup committed, !.beingAdded = @ \ op[t].batch,
                  !.total = IF returns THEN @ + Cardinality(new) ELSE @]
<1>1. /\ pc[t] = "batch_add" /\ op[t].answered /\ Becomes(t, l) /\ UNCHANGED platform
      /\ IF returns THEN Settle(t, "idle", NoOp, committed)
         ELSE Settle(t, "in_flight", record, committed)
  BY DEF BatchAnswered, Answered
<1>2. My(t) \in ClientRecord /\ op[t] \in OpRecord /\ new \subseteq Requests
  BY MyOpFits, MyClientFits DEF IInv, OpRecord
<1>3. l.handled = My(t).handled
      /\ l.total = IF returns THEN My(t).total + Cardinality(new) ELSE My(t).total
  <2> HIDE DEF committed, new, returns
  <2>1. QED
    BY <1>2 DEF ClientRecord
<1>4. record.new = new
  <2>1. record = [op[t] EXCEPT !.batch = {}, !.new = new, !.known = known]
    BY <1>2 DEF OpRecord
  <2> HIDE DEF committed, new, known, record
  <2>2. QED
    BY <1>2, <2>1 DEF OpRecord
<1>5. Owes(t) = new
  BY <1>1 DEF Owes, OpOwes
<1> HIDE DEF record, l, returns, new, committed
<1>6. /\ \A u \in Tasks \ {t} : SameCall(u)
      /\ \/ returns /\ pc'[t] = "idle"
         \/ ~returns /\ pc'[t] = "in_flight" /\ op'[t] = record
  BY <1>1, SettleSame
<1>7. ASSUME NEW u \in Tasks \ {t}
      PROVE  Owes(u)' = Owes(u)
  <2>1. SameCall(u)
    BY <1>6
  <2>2. QED
    BY <2>1 DEF Owes, OpOwes, SameCall
<1>8. \A c \in Clients : local'[c] = l /\ local[c] = My(t)
  BY <1>1, OneClient DEF Becomes, My, IInv, ClientsInv
<1>9. Present' = Present /\ HandledThere' = HandledThere
  BY <1>1 DEF Present, HandledThere
<1>10. HandledInv'
  <2>1. \A call, was : ~Moves(pc[t], op[t], call, was) /\ ~Moves(pc'[t], op'[t], call, was)
    BY <1>1, <1>6 DEF Moves
  <2>2. ASSUME NEW u \in Tasks \ {t}, NEW call, NEW was
        PROVE  Moves(pc'[u], op'[u], call, was) <=> Moves(pc[u], op[u], call, was)
    <3>1. SameCall(u)
      BY <1>6
    <3>2. QED
      BY <3>1 DEF Moves, SameCall
  <2>3. Closing' = Closing /\ Opening' = Opening
    BY <2>1, <2>2 DEF Closing, Opening
  <2>4. QED
    BY <1>3, <1>8, <1>9, <2>3, NothingMoves DEF CountsInv
<1>11. CASE returns
  <2>1. Owes(t)' = {}
    BY <1>6, <1>11 DEF Owes, OpOwes
  <2>2. \A c \in Clients : local'[c].total = local[c].total + Cardinality(Owes(t))
    BY <1>3, <1>5, <1>8, <1>11
  <2>3. TotalInv'
    BY <1>2, <1>5, <1>7, <1>9, <2>1, <2>2, PaysAll DEF CountsInv
  <2>4. QED
    BY <1>10, <2>3 DEF CountsInv
<1>12. CASE ~returns
  <2>1. Owes(t)' = Owes(t)
    BY <1>4, <1>5, <1>6, <1>12 DEF Owes, OpOwes
  <2>2. \A u \in Tasks : Owes(u)' = Owes(u)
    BY <1>7, <2>1
  <2>3. \A c \in Clients : local'[c].total = local[c].total
    BY <1>3, <1>8, <1>12
  <2>4. TotalInv'
    BY <1>9, <2>2, <2>3, NothingOwed DEF CountsInv
  <2>5. QED
    BY <1>10, <2>4 DEF CountsInv
<1>13. QED
  BY <1>11, <1>12

(* The answer to an update moves the local counter along.                   *)
LEMMA CountsUpdated ==
  ASSUME IInv, CountsInv, Alone, NEW t \in Tasks, Updated(t)
  PROVE  CountsInv'
<1> DEFINE r == op[t].request
           marks == op[t].call = "mark"
           n == My(t).handled + CountsChange(op[t].call, op[t].seen[r] = "handled")
           f == My(t).forefront \/ op[t].forefront
           l == [My(t) EXCEPT !.handled = n, !.forefront = f]
           e == Entry(IF marks THEN "handled" ELSE "pending", NoLease)
           v == Cache(l, r, e, marks)
<1>1. /\ pc[t] = "update_request" /\ op[t].answered /\ op[t].call \in {"mark", "reclaim"}
      /\ Becomes(t, v) /\ Awaits(t, "idle", NoOp) /\ UNCHANGED platform
      /\ My(t) \in ClientRecord
  BY MyOpFits, MyClientFits DEF Updated, Answered, Returns, IInv, OpFits, PlaceFits
<1>2. v.total = My(t).total /\ v.handled = n
  <2>1. l.total = My(t).total /\ l.handled = n /\ DOMAIN l = DOMAIN My(t)
    <3> HIDE DEF n, f
    <3>1. QED
      BY <1>1 DEF ClientRecord
  <2> HIDE DEF l, e, marks, r, n
  <2>2. QED
    BY <1>1, <2>1 DEF Cache, ClientRecord
<1> HIDE DEF v
<1>3. /\ pc'[t] = "idle" /\ op'[t] = NoOp
      /\ \A u \in Tasks \ {t} : pc'[u] = pc[u] /\ op'[u] = op[u]
  BY <1>1, OthersStay
<1>4. \A c \in Clients : local'[c] = v /\ local[c] = My(t)
  BY <1>1, OneClient DEF Becomes, My, IInv, ClientsInv
<1>5. Present' = Present /\ HandledThere' = HandledThere
  BY <1>1 DEF Present, HandledThere
<1>6. TotalInv'
  <2>1. \A u \in Tasks : Owes(u)' = Owes(u)
    BY <1>1, <1>3 DEF Owes, OpOwes
  <2>2. QED
    BY <1>2, <1>4, <1>5, <2>1, NothingOwed DEF CountsInv
<1>7. Closing' = Closing \ {t} /\ Opening' = Opening \ {t}
  BY <1>3 DEF Closing, Opening, Moves
<1>8. /\ t \in Closing <=> op[t].call = "mark" /\ op[t].seen[r] # "handled"
      /\ t \in Opening <=> op[t].call = "reclaim" /\ op[t].seen[r] = "handled"
  BY <1>1 DEF Closing, Opening, Moves
<1> HIDE DEF Closing, Opening, HandledThere, r
<1>9. CASE t \in Closing
  <2>1. t \notin Opening /\ n = My(t).handled + 1
    BY <1>8, <1>9 DEF CountsChange
  <2>2. /\ IsFiniteSet(Closing') /\ Cardinality(Closing') = Cardinality(Closing) - 1
        /\ Opening' = Opening
    BY <1>7, <1>9, <2>1, OneLess DEF CountsInv, HandledInv
  <2>3. HandledInv'
    BY <1>2, <1>4, <1>5, <2>1, <2>2, CountsAreIntegers DEF CountsInv, HandledInv
  <2>4. QED
    BY <1>6, <2>3 DEF CountsInv
<1>10. CASE t \in Opening
  <2>1. t \notin Closing /\ n = My(t).handled - 1
    BY <1>1, <1>8, <1>10 DEF CountsChange, ClientRecord
  <2>2. /\ IsFiniteSet(Opening') /\ Cardinality(Opening') = Cardinality(Opening) - 1
        /\ Closing' = Closing
    BY <1>7, <1>10, <2>1, OneLess DEF CountsInv, HandledInv
  <2>3. HandledInv'
    BY <1>2, <1>4, <1>5, <2>1, <2>2, CountsAreIntegers DEF CountsInv, HandledInv
  <2>4. QED
    BY <1>6, <2>3 DEF CountsInv
<1>11. CASE t \notin Closing /\ t \notin Opening
  <2>1. Closing' = Closing /\ Opening' = Opening
    BY <1>7, <1>11
  <2>2. n = My(t).handled
    BY <1>1, <1>8, <1>11 DEF CountsChange, ClientRecord
  <2>3. HandledInv'
    BY <1>2, <1>4, <1>5, <2>1, <2>2, NothingMoves DEF CountsInv
  <2>4. QED
    BY <1>6, <2>3 DEF CountsInv
<1>12. QED
  BY <1>9, <1>10, <1>11

LEMMA CountsResumes ==
  ASSUME IInv, CountsInv, Alone, NEW t \in Tasks, Resume(t)
  PROVE  CountsInv'
<1>1. CASE BatchAnswered(t) \/ AddReturns(t) \/ Updated(t)
  BY <1>1, CountsBatchAnswered, CountsReturns, CountsUpdated
<1>2. CASE \/ FetchHeadListed(t) \/ FinishedHeadListed(t) \/ Verified(t)
           \/ Prolonged(t) \/ Hydrated(t) \/ Refetched(t)
  <2>1. Quiet(t)
    BY <1>2, FetchQuiet, FinishedQuiet, LookedUpQuiet
  <2>2. /\ pc[t] \in {"list_and_lock_head", "metadata", "verify", "prolong_request_lock",
                      "hydrate", "refetch"}
        /\ UNCHANGED platform
    BY <1>2 DEF FetchHeadListed, FinishedHeadListed, Verified, Prolonged, Hydrated, Refetched,
                Answered
  <2>3. QED
    BY <2>1, <2>2, QuietStep DEF Quiet, Answered
<1>3. QED
  BY <1>1, <1>2 DEF Resume

LEMMA TickSame ==
  ASSUME IInv, Tick
  PROVE  \A u \in Tasks : SameCall(u)
<1>1. ASSUME NEW u \in Tasks
      PROVE  SameCall(u)
  <2>1. op[u] \in OpRecord
    BY DEF IInv, CallsInv
  <2>2. PICK left : op'[u] = [op[u] EXCEPT !.left = left]
    BY DEF Tick
  <2>3. pc'[u] = pc[u]
    BY DEF Tick
  <2>4. QED
    BY <2>1, <2>2, <2>3 DEF OpRecord, SameCall
<1>2. QED
  BY <1>1

LEMMA CountsTicks ==
  ASSUME IInv, CountsInv, Tick
  PROVE  CountsInv'
<1>1. UNCHANGED platform /\ \A u \in Tasks : SameCall(u)
  BY TickSame DEF Tick
<1>2. \A c \in Clients : SameCounts(local'[c], local[c])
  BY DEF Tick, IInv, ClientsInv, ClientRecord, SameCounts
<1>3. ASSUME NEW u \in Tasks
      PROVE  Owes(u)' = Owes(u)
  <2>1. SameCall(u)
    BY <1>1
  <2>2. QED
    BY <2>1 DEF SameCall, Owes, OpOwes
<1>4. \A u \in Tasks : \A call, was :
        Moves(pc'[u], op'[u], call, was) <=> Moves(pc[u], op[u], call, was)
  BY <1>1 DEF SameCall, Moves
<1>5. Closing' = Closing /\ Opening' = Opening
  BY <1>4 DEF Closing, Opening
<1>6. Present' = Present /\ HandledThere' = HandledThere
  BY <1>1 DEF Present, HandledThere
<1>7. QED
  BY <1>2, <1>3, <1>5, <1>6, NothingOwed, NothingMoves DEF CountsInv, SameCounts

LEMMA CountsInit == Init => HeldInv /\ CountsInv
<1> SUFFICES ASSUME Init PROVE HeldInv /\ CountsInv
  OBVIOUS
<1>1. \A t \in Tasks : pc[t] = "idle" /\ holds[t] = NoRequest
  BY DEF Init
<1>2. \A t \in Tasks : Owes(t) = {}
  BY <1>1 DEF Owes, OpOwes
<1>3. Present = {} /\ Owed = {} /\ HandledThere = {} /\ Closing = {} /\ Opening = {}
  BY <1>1, <1>2 DEF Init, Present, Owed, HandledThere, Closing, Opening, Moves
<1>4. IsFiniteSet({}) /\ Cardinality({}) = 0
  BY FS_EmptySet
<1>5. \A c \in Clients : local[c].total = 0 /\ local[c].handled = 0
  BY DEF Init, NewClient
<1>6. TotalInv
  BY <1>2, <1>3, <1>4, <1>5 DEF TotalInv
<1>7. HandledInv
  BY <1>3, <1>4, <1>5 DEF HandledInv
<1>8. QED
  BY <1>1, <1>6, <1>7 DEF HeldInv, CountsInv

(* A step of t keeps what tasks hold and update on the platform.            *)
LEMMA HeldKeeps ==
  ASSUME IInv, HeldInv, NEW t \in Tasks, Present \subseteq Present',
         \A u \in Tasks \ {t} : /\ holds'[u] = holds[u] /\ pc'[u] = pc[u]
                                /\ op'[u].request = op[u].request,
         holds'[t] # NoRequest => holds'[t] \in Present,
         pc'[t] = "update_request" => op'[t].request \in Present
  PROVE  HeldInv'
BY DEF HeldInv

LEMMA HeldMoves ==
  ASSUME IInv, HeldInv, NEW t \in Tasks, UNCHANGED platform,
         \E at, o : Awaits(t, at, o) /\ (at = "update_request" => o.request \in Present),
         \/ UNCHANGED holds
         \/ \E r \in Present \cup {NoRequest} : holds' = [holds EXCEPT ![t] = r]
  PROVE  HeldInv'
<1>1. PICK at, o : Awaits(t, at, o) /\ (at = "update_request" => o.request \in Present)
  OBVIOUS
<1>2. /\ pc'[t] = at /\ op'[t] = o
      /\ \A u \in Tasks \ {t} : pc'[u] = pc[u] /\ op'[u] = op[u]
  BY <1>1, OthersStay
<1>3. \A u \in Tasks \ {t} : holds'[u] = holds[u]
  BY DEF IInv, HoldsInv
<1>4. holds'[t] # NoRequest => holds'[t] \in Present
  BY DEF IInv, HoldsInv, HeldInv
<1>5. Present' = Present
  BY DEF Present
<1>6. QED
  BY <1>1, <1>2, <1>3, <1>4, <1>5, HeldKeeps

LEMMA HeldQuiet ==
  ASSUME IInv, HeldInv, NEW t \in Tasks, UNCHANGED platform,
         \E at, o : Awaits(t, at, o) /\ at # "update_request",
         \/ UNCHANGED holds
         \/ \E r \in Present \cup {NoRequest} : holds' = [holds EXCEPT ![t] = r]
  PROVE  HeldInv'
BY HeldMoves

LEMMA HeldCalls ==
  ASSUME IInv, HeldInv, NEW t \in Tasks, Call(t)
  PROVE  HeldInv'
<1>1. UNCHANGED platform
  BY DEF Call, CallAdd, CallFetch, CallFinished, CallMark, CallReclaim, GivesUp
<1>2. CASE CallMark(t) \/ CallReclaim(t)
  <2>1. PICK call \in {"mark", "reclaim"} : GivesUp(t, call) /\ holds[t] # NoRequest
    BY <1>2 DEF CallMark, CallReclaim
  <2>2. /\ \E o : Awaits(t, "update_request", o) /\ o.request = holds[t]
        /\ holds[t] \in Present /\ holds' = [holds EXCEPT ![t] = NoRequest]
    BY <2>1, GivesUpQuiet DEF GivesUp, HeldInv
  <2>3. QED
    BY <1>1, <2>2, HeldMoves
<1>3. CASE CallAdd(t)
  <2>1. \E at \in {"idle", "batch_add", "in_flight"} : \E o : Awaits(t, at, o)
    BY <1>3 DEF CallAdd, Returns
  <2>2. QED
    BY <1>1, <1>3, <2>1, HeldQuiet DEF CallAdd
<1>4. CASE CallFetch(t) \/ CallFinished(t)
  <2>1. \E at \in {"idle", "list_and_lock_head", "metadata", "prolong_request_lock", "hydrate",
                   "refetch", "verify"} : \E o : Awaits(t, at, o)
    BY <1>4 DEF CallFetch, CallFinished, List, Pick, LookUp, Concludes, Verdict, Returns
  <2>2. UNCHANGED holds
    BY <1>4 DEF CallFetch, CallFinished
  <2>3. QED
    BY <1>1, <2>1, <2>2, HeldQuiet
<1>5. QED
  BY <1>2, <1>3, <1>4 DEF Call

LEMMA HeldAnswers ==
  ASSUME IInv, HeldInv, NEW t \in Tasks, Answer(t)
  PROVE  HeldInv'
<1>1. UNCHANGED <<pc, holds>> /\ op[t] \in OpRecord /\ platform \in [Requests -> Status]
  BY MyOpFits DEF Answer, AnswerBatch, AnswerListing, AnswerProlong, AnswerRead, AnswerUpdate,
     AnswerVerify, IInv, PlatformInv
<1>2. /\ Reply(t) \in OpRecord /\ Reply(t).request = op[t].request /\ DOMAIN op = Tasks
  BY ReplyFits DEF IInv, CallsInv
<1>3. op'[t].request = op[t].request
  <2>1. CASE AnswerBatch(t)
    BY <1>2, <2>1 DEF AnswerBatch, OpRecord
  <2>2. CASE AnswerListing(t)
    BY <1>2, <2>2 DEF AnswerListing, OpRecord
  <2>3. CASE AnswerProlong(t)
    BY <1>2, <2>3 DEF AnswerProlong, OpRecord
  <2>4. CASE AnswerRead(t)
    BY <1>1, <1>2, <2>4 DEF AnswerRead, OpRecord
  <2>5. CASE AnswerUpdate(t)
    BY <1>2, <2>5 DEF AnswerUpdate
  <2>6. ASSUME NEW r \in Requests, AnswerVerify(t, r)
        PROVE  op'[t].request = op[t].request
    BY <1>1, <1>2, <2>6 DEF AnswerVerify, OpRecord
  <2>7. QED
    BY <2>1, <2>2, <2>3, <2>4, <2>5, <2>6 DEF Answer
<1>4. \A u \in Tasks : u # t => op'[u] = op[u]
  BY <1>2 DEF Answer, AnswerBatch, AnswerListing, AnswerProlong, AnswerRead, AnswerUpdate,
     AnswerVerify
<1>5. Present \subseteq Present'
  <2>1. CASE AnswerBatch(t)
    BY <1>1, <2>1 DEF AnswerBatch, Present
  <2>2. CASE AnswerUpdate(t)
    <3>1. op[t].request \in Requests
      BY <2>2 DEF AnswerUpdate, Pending, HeldInv, Present
    <3>2. QED
      BY <1>1, <2>2, <3>1 DEF AnswerUpdate, Present
  <2>3. CASE ~AnswerBatch(t) /\ ~AnswerUpdate(t)
    BY <2>3 DEF Answer, AnswerListing, AnswerProlong, AnswerRead, AnswerVerify, Present
  <2>4. QED
    BY <2>1, <2>2, <2>3
<1>6. QED
  BY <1>1, <1>3, <1>4, <1>5, HeldKeeps DEF HeldInv

LEMMA HeldResumes ==
  ASSUME IInv, HeldInv, NEW t \in Tasks, Resume(t)
  PROVE  HeldInv'
<1>1. UNCHANGED platform
  BY DEF Resume, BatchAnswered, AddReturns, FetchHeadListed, Prolonged, Hydrated, Refetched,
         Updated, FinishedHeadListed, Verified
<1>2. CASE BatchAnswered(t)
  <2>1. /\ pc'[t] \in {"idle", "in_flight"} /\ \A u \in Tasks \ {t} : SameCall(u)
        /\ holds' = holds
    BY <1>2, SettleSame DEF BatchAnswered
  <2>2. Present' = Present
    BY <1>1 DEF Present
  <2>3. QED
    BY <2>1, <2>2, HeldKeeps DEF SameCall, HeldInv
<1>3. CASE Refetched(t)
  <2>1. op[t].seen[op[t].request] # "absent" => op[t].request \in Present
    BY <1>3, MyOpFits DEF Refetched, Answered, IInv, OpFits, PlaceFits, AnswerFits
  <2>2. \/ UNCHANGED holds
        \/ \E r \in Present : holds' = [holds EXCEPT ![t] = r]
    BY <1>3, <2>1 DEF Refetched
  <2>3. QED
    BY <1>1, <1>3, <2>2, HeldQuiet DEF Refetched, Returns
<1>4. CASE \/ AddReturns(t) \/ Updated(t) \/ FetchHeadListed(t) \/ Prolonged(t) \/ Hydrated(t)
           \/ FinishedHeadListed(t) \/ Verified(t)
  <2>1. \E at \in {"idle", "prolong_request_lock", "hydrate", "refetch", "verify"} : \E o :
          Awaits(t, at, o)
    BY <1>4 DEF AddReturns, Updated, FetchHeadListed, Prolonged, Hydrated, FinishedHeadListed,
                Verified, Pick, LookUp, Concludes, Verdict, Returns
  <2>2. UNCHANGED holds
    BY <1>4 DEF AddReturns, Updated, FetchHeadListed, Prolonged, Hydrated, FinishedHeadListed,
                Verified
  <2>3. QED
    BY <1>1, <2>1, <2>2, HeldQuiet
<1>5. QED
  BY <1>2, <1>3, <1>4 DEF Resume

LEMMA HeldStep == IInv /\ HeldInv /\ [Next]_vars => HeldInv'
<1> SUFFICES ASSUME IInv, HeldInv, [Next]_vars PROVE HeldInv'
  OBVIOUS
<1>1. CASE Tick
  <2>1. UNCHANGED <<platform, holds, Present>> /\ \A u \in Tasks : SameCall(u)
    BY <1>1, TickSame DEF Tick, Present
  <2>2. QED
    BY <2>1 DEF HeldInv, SameCall
<1>2. ASSUME NEW t \in Tasks, Fail(t)
      PROVE  HeldInv'
  <2>1. UNCHANGED <<platform, holds, Present>>
    BY <1>2 DEF Fail, Present
  <2>2. CASE Settle(t, "idle", NoOp, {})
    <3>1. pc'[t] = "idle" /\ \A u \in Tasks \ {t} : SameCall(u)
      BY <2>2, SettleSame
    <3>2. QED
      BY <2>1, <3>1, HeldKeeps DEF SameCall, HeldInv
  <2>3. CASE Returns(t)
    BY <2>1, <2>3, HeldQuiet DEF Returns
  <2>4. QED
    BY <1>2, <2>2, <2>3 DEF Fail
<1>3. CASE UNCHANGED vars
  BY <1>3 DEF HeldInv, Present, vars, taskVars
<1>4. QED
  BY <1>1, <1>2, <1>3, HeldCalls, HeldAnswers, HeldResumes DEF Next

LEMMA FailuresMove ==
  ASSUME [Next]_vars
  PROVE  failures' = failures \/ failures' = failures + 1
<1>1. ASSUME NEW t \in Tasks, Call(t) \/ Resume(t)
      PROVE  failures' = failures
  BY <1>1 DEF Call, CallAdd, CallFetch, CallFinished, CallMark, CallReclaim, GivesUp, Resume,
              BatchAnswered, AddReturns, FetchHeadListed, Prolonged, Hydrated, Refetched, Updated,
              FinishedHeadListed, Verified
<1>2. ASSUME NEW t \in Tasks, Answer(t)
      PROVE  failures' = failures \/ failures' = failures + 1
  BY <1>2 DEF Answer, AnswerBatch, AnswerListing, AnswerProlong, AnswerRead, AnswerUpdate,
              AnswerVerify, MayFail
<1>3. ASSUME NEW t \in Tasks, Fail(t)
      PROVE  failures' = failures + 1
  BY <1>3 DEF Fail, MayFail
<1>4. Tick \/ UNCHANGED vars => failures' = failures
  BY DEF Tick, vars
<1>5. QED
  BY <1>1, <1>2, <1>3, <1>4 DEF Next

LEMMA StaysAlone ==
  ASSUME failures \in Nat, Alone', [Next]_vars
  PROVE  /\ Alone
         /\ Tick \/ (\E t \in Tasks : Call(t) \/ Answer(t) \/ Resume(t)) \/ UNCHANGED vars
<1>1. failures' = 0 /\ ~ManyClients
  BY DEF Alone, ManyClients
<1>2. failures = 0
  BY <1>1, FailuresMove
<1>3. ASSUME NEW t \in Tasks
      PROVE  ~Fail(t)
  BY <1>1, <1>2 DEF Fail, MayFail
<1>4. QED
  BY <1>1, <1>2, <1>3 DEF Alone, Next

LEMMA CountsStep ==
  IInv /\ failures \in Nat /\ HeldInv /\ (Alone => CountsInv) /\ [Next]_vars
    => (Alone' => CountsInv')
<1> SUFFICES ASSUME IInv, failures \in Nat, HeldInv, Alone => CountsInv, [Next]_vars, Alone'
             PROVE  CountsInv'
  OBVIOUS
<1>1. /\ Alone /\ CountsInv
      /\ Tick \/ (\E t \in Tasks : Call(t) \/ Answer(t) \/ Resume(t)) \/ UNCHANGED vars
  BY StaysAlone
<1>2. CASE UNCHANGED vars
  BY <1>1, <1>2 DEF CountsInv, TotalInv, HandledInv, Owed, Owes, Closing, Opening, HandledThere,
                    Present, vars, taskVars
<1>3. ASSUME NEW t \in Tasks, Answer(t)
      PROVE  CountsInv'
  BY <1>1, <1>3, CountsReads, CountsBatch, CountsUpdate DEF Answer
<1>4. QED
  BY <1>1, <1>2, <1>3, CountsTicks, CountsCalls, CountsResumes

(* _request_queue_shared_client.py metadata: whenever no call is under way  *)
(* and none has failed, the local counters of an only client are those of   *)
(* the platform, whatever its tasks added, marked and reclaimed at once,    *)
(* and whatever locks lapsed meanwhile.                                     *)
THEOREM CountersAgree == Spec => []CountsMatchPlatform
<1> DEFINE Counting == failures \in Nat /\ HeldInv /\ (Alone => CountsInv)
<1>1. Init => Counting
  BY CountsInit DEF Init
<1>2. IInv /\ Counting /\ [Next]_vars => Counting'
  BY HeldStep, CountsStep, FailuresMove
<1>3. IInv /\ Counting => CountsMatchPlatform
  <2> SUFFICES ASSUME IInv, Counting, Alone, \A t \in Tasks : Idle(t), NEW c \in Clients
               PROVE  /\ local[c].total = Cardinality({r \in Requests : platform[r] # "absent"})
                      /\ local[c].handled = Cardinality({r \in Requests : platform[r] = "handled"})
    BY DEF CountsMatchPlatform, Alone
  <2>1. Owed = {} /\ Closing = {} /\ Opening = {}
    BY DEF Idle, Owed, Owes, OpOwes, Closing, Opening, Moves
  <2>2. CountsInv /\ Cardinality({}) = 0
    BY FS_EmptySet
  <2>3. local[c].total = Cardinality(Present)
    BY <2>1, <2>2 DEF CountsInv, TotalInv
  <2>4. local[c].handled = Cardinality(HandledThere)
    BY <2>1, <2>2, CountsAreIntegers DEF CountsInv, HandledInv
  <2>5. QED
    BY <2>3, <2>4 DEF Present, HandledThere
<1> HIDE DEF Counting
<1>4. QED
  BY <1>1, <1>2, <1>3, Always, PTL DEF Spec
=============================================================================
