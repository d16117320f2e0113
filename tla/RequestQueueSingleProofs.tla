---------------------- MODULE RequestQueueSingleProofs ----------------------
(* Proofs about RequestQueueSingle: no false success, one write per request *)
(* and one hand-out at a time, for every set of tasks and requests, and     *)
(* that the client is a work queue to its tasks.                            *)
EXTENDS RequestQueueSingle, FiniteSetTheorems, SequenceTheorems, TLAPS

USE QueueAssumption DEF Status

-----------------------------------------------------------------------------
(* Data.                                                                    *)

LEMMA SubsetsAreCounted ==
  \A S \in SUBSET Requests : IsFiniteSet(S) /\ Cardinality(S) \in Nat
BY FS_Subset, FS_CardinalityType

LEMMA OrdersAreSequences ==
  ASSUME NEW S \in SUBSET Requests, NEW s \in SetToSeqs(S)
  PROVE  s \in Seq(Requests) /\ \A i \in DOMAIN s : s[i] \in S
<1>1. Cardinality(S) \in Nat /\ s \in [1..Cardinality(S) -> S]
  BY SubsetsAreCounted DEF SetToSeqs
<1>2. QED
  BY <1>1, SeqDef

LEMMA ConcatKeeps ==
  ASSUME NEW s \in Seq(Requests), NEW u \in Seq(Requests)
  PROVE  /\ s \o u \in Seq(Requests)
         /\ \A i \in DOMAIN (s \o u) :
              \/ \E j \in DOMAIN s : (s \o u)[i] = s[j]
              \/ \E j \in DOMAIN u : (s \o u)[i] = u[j]
<1>1. /\ s \o u \in Seq(Requests)
      /\ Len(s \o u) = Len(s) + Len(u)
      /\ \A i \in 1..(Len(s) + Len(u)) : (s \o u)[i] = IF i <= Len(s) THEN s[i] ELSE u[i - Len(s)]
  BY ConcatProperties
<1>2. /\ Len(s) \in Nat /\ DOMAIN s = 1..Len(s)
      /\ Len(u) \in Nat /\ DOMAIN u = 1..Len(u)
      /\ DOMAIN (s \o u) = 1..Len(s \o u)
  BY <1>1, LenProperties
<1>3. ASSUME NEW i \in DOMAIN (s \o u)
      PROVE  \/ \E j \in DOMAIN s : (s \o u)[i] = s[j]
             \/ \E j \in DOMAIN u : (s \o u)[i] = u[j]
  <2>1. CASE i <= Len(s)
    BY <1>1, <1>2, <2>1
  <2>2. CASE ~(i <= Len(s))
    <3>1. i - Len(s) \in DOMAIN u
      BY <1>1, <1>2, <2>2
    <3>2. QED
      BY <1>1, <1>2, <2>2, <3>1
  <2>3. QED
    BY <2>1, <2>2
<1>4. QED
  BY <1>1, <1>3

LEMMA RestKeeps ==
  ASSUME NEW h \in Seq(Requests), NEW n \in DOMAIN h
  PROVE  /\ h[n] \in Requests
         /\ SubSeq(h, n + 1, Len(h)) \in Seq(Requests)
         /\ \A i \in DOMAIN SubSeq(h, n + 1, Len(h)) :
              \E j \in DOMAIN h : SubSeq(h, n + 1, Len(h))[i] = h[j]
<1> DEFINE s == SubSeq(h, n + 1, Len(h))
<1>1. Len(h) \in Nat /\ h \in [1..Len(h) -> Requests] /\ DOMAIN h = 1..Len(h)
  BY LenProperties
<1>2. /\ s \in Seq(Requests)
      /\ Len(s) = IF n + 1 <= Len(h) THEN Len(h) - (n + 1) + 1 ELSE 0
      /\ \A i \in 1..(Len(h) - (n + 1) + 1) : s[i] = h[n + 1 + i - 1]
  BY <1>1, SubSeqProperties
<1>3. DOMAIN s = 1..Len(s)
  BY <1>2, LenProperties
<1>4. ASSUME NEW i \in DOMAIN s
      PROVE  n + 1 + i - 1 \in DOMAIN h /\ s[i] = h[n + 1 + i - 1]
  BY <1>1, <1>2, <1>3
<1>5. QED
  BY <1>1, <1>2, <1>4

-----------------------------------------------------------------------------
(* Types.                                                                   *)

Places == ApiCalls \cup {"idle", "in_flight"}

(* What a task is suspended at tells which call it is in.                   *)
CallInv ==
  \A t \in Tasks :
    /\ pc[t] \in {"list_requests", "batch_add", "in_flight"} => op[t].call = "add"
    /\ pc[t] = "list_head" => op[t].call \in {"fetch", "finished"}
    /\ pc[t] = "get_request" => op[t].call \in {"fetch", "get"} /\ op[t].request \in Requests
    /\ pc[t] = "update_request" => op[t].call \in {"mark", "reclaim"} /\ op[t].request \in Requests

TypeInv == TypeOK /\ CallInv

LEMMA OpRecordFields ==
  ASSUME NEW o \in OpRecord
  PROVE  /\ o.call \in {"none", "add", "fetch", "finished", "get", "mark", "reclaim"}
         /\ o.batch \in SUBSET Requests /\ o.request \in Requests \cup {NoRequest}
         /\ o.answered \in BOOLEAN /\ o.seen \in [Requests -> Status]
         /\ o.rejected \in SUBSET Requests /\ o.known \in SUBSET Requests
         /\ o.new \in SUBSET Requests /\ o.waits \in SUBSET Requests
         /\ o.finished \in BOOLEAN
BY DEF OpRecord

LEMMA NewOpType ==
  ASSUME NEW call \in {"none", "add", "fetch", "finished", "get", "mark", "reclaim"},
         NEW b \in SUBSET Requests, NEW r \in Requests \cup {NoRequest}
  PROVE  /\ NewOp(call, b, r) \in OpRecord
         /\ NewOp(call, b, r).call = call /\ NewOp(call, b, r).request = r
         /\ NewOp(call, b, r).batch = b
BY DEF NewOp, OpRecord, Nothing

LEMMA NoOpType == NoOp \in OpRecord /\ NoOp.call = "none"
BY NewOpType DEF NoOp

(* A task goes to another await with a call that fits it.                   *)
Fits(at, o) ==
  /\ at \in Places /\ o \in OpRecord
  /\ at \in {"list_requests", "batch_add", "in_flight"} => o.call = "add"
  /\ at = "list_head" => o.call \in {"fetch", "finished"}
  /\ at = "get_request" => o.call \in {"fetch", "get"} /\ o.request \in Requests
  /\ at = "update_request" => o.call \in {"mark", "reclaim"} /\ o.request \in Requests

OpsOK == pc \in [Tasks -> Places] /\ op \in [Tasks -> OpRecord] /\ CallInv

LEMMA AwaitsFits ==
  ASSUME OpsOK, NEW t \in Tasks, NEW at, NEW o, Fits(at, o), Awaits(t, at, o)
  PROVE  OpsOK'
BY DEF OpsOK, CallInv, Awaits, Fits

LEMMA ReturnsFits ==
  ASSUME OpsOK, NEW t \in Tasks, NEW o \in OpRecord, Returns(t, o)
  PROVE  OpsOK'
<1>1. Fits("idle", o)
  BY DEF Fits, Places
<1>2. QED
  BY <1>1, AwaitsFits DEF Returns

(* The rest of the state.                                                   *)
StateOK ==
  /\ platform \in [Requests -> Status] /\ initialized \in BOOLEAN
  /\ cache \subseteq Requests /\ handled \subseteq Requests
  /\ inProgress \subseteq Requests /\ beingAdded \subseteq Requests
  /\ head \in Seq(Requests)
  /\ metadata \in [total : Nat, handled : Int]
  /\ holds \in [Tasks -> [request : Requests, stamped : BOOLEAN, processing : BOOLEAN]
                         \cup {HoldsNothing}]
  /\ added \subseteq Requests /\ done \subseteq Requests
  /\ calls \in 0..MaxCalls /\ failures \in 0..MaxFailures

LEMMA TypeInvParts == (TypeInv <=> OpsOK /\ StateOK) /\ (TypeInv' <=> OpsOK' /\ StateOK')
BY DEF TypeInv, TypeOK, OpsOK, StateOK, Places

LEMMA DispatchTypes ==
  ASSUME OpsOK, NEW t \in Tasks, NEW b \in SUBSET Requests,
         beingAdded \subseteq Requests, handled' \subseteq Requests, cache' \subseteq Requests,
         Dispatch(t, b)
  PROVE  OpsOK' /\ beingAdded' \subseteq Requests
<1> DEFINE known == b \cap (handled' \cup cache')
           waits == b \ (known \cup ToSend(b))
           record == [NewOp("add", ToSend(b), NoRequest) EXCEPT !.known = known, !.waits = waits]
<1>1. ToSend(b) \in SUBSET Requests /\ known \in SUBSET Requests /\ waits \in SUBSET Requests
  BY DEF ToSend
<1>2. record \in OpRecord /\ record.call = "add"
  <2> DEFINE new == NewOp("add", ToSend(b), NoRequest)
  <2>1. new \in OpRecord /\ new.call = "add"
    BY <1>1, NewOpType
  <2> HIDE DEF new, known, waits
  <2>2. [new EXCEPT !.known = known, !.waits = waits] \in OpRecord
    BY <1>1, <2>1 DEF OpRecord
  <2>3. [new EXCEPT !.known = known, !.waits = waits].call = "add"
    BY <2>1 DEF OpRecord
  <2>4. QED
    BY <2>2, <2>3 DEF new
<1>3. \A at \in {"batch_add", "in_flight", "idle"} : Fits(at, record)
  BY <1>2 DEF Fits, Places, ApiCalls
<1>4. \E at \in {"batch_add", "in_flight", "idle"} : Awaits(t, at, record)
  BY DEF Dispatch, Returns
<1>5. beingAdded' \subseteq Requests
  BY <1>1 DEF Dispatch
<1> HIDE DEF record
<1>6. QED
  BY <1>3, <1>4, <1>5, AwaitsFits

LEMMA SettleTypes ==
  ASSUME OpsOK, NEW t \in Tasks, NEW at, NEW o, Fits(at, o), NEW committed \in SUBSET Requests,
         Settle(t, at, o, committed)
  PROVE  /\ OpsOK'
         /\ pc' = [pc EXCEPT ![t] = at] /\ op'[t] = o
         /\ \A u \in Tasks \ {t} :
              /\ op'[u] = [op[u] EXCEPT !.known = op'[u].known, !.waits = op'[u].waits]
              /\ op'[u].known \subseteq op[u].known \cup committed
<1> DEFINE settled(u) == [op[u] EXCEPT !.known = @ \cup (op[u].waits \cap committed),
                                       !.waits = @ \ op[t].batch]
<1>1. /\ pc' = [pc EXCEPT ![t] = at]
      /\ op' = [u \in Tasks |-> IF u = t THEN o ELSE settled(u)]
  BY DEF Settle
<1>2. ASSUME NEW u \in Tasks
      PROVE  /\ settled(u) \in OpRecord
             /\ settled(u).call = op[u].call /\ settled(u).request = op[u].request
             /\ settled(u).known \subseteq op[u].known \cup committed
             /\ settled(u) = [op[u] EXCEPT !.known = settled(u).known, !.waits = settled(u).waits]
  <2>1. op[u] \in OpRecord /\ op[t] \in OpRecord
    BY DEF OpsOK
  <2>2. QED
    BY <2>1 DEF OpRecord
<1> HIDE DEF settled
<1>3. op' \in [Tasks -> OpRecord] /\ pc' \in [Tasks -> Places]
  BY <1>1, <1>2 DEF OpsOK, Fits
<1>4. CallInv'
  <2> SUFFICES ASSUME NEW u \in Tasks
               PROVE  \/ pc'[u] = pc[u] /\ op'[u].call = op[u].call /\ op'[u].request = op[u].request
                      \/ Fits(pc'[u], op'[u])
    BY DEF CallInv, OpsOK, Fits
  <2>1. QED
    BY <1>1, <1>2 DEF OpsOK
<1>5. QED
  BY <1>1, <1>2, <1>3, <1>4 DEF OpsOK

(* What popping the head comes to: nothing, or a request nobody has in      *)
(* progress and nobody has handled, which is now in progress.               *)
Popped(t, h, progress) ==
  \/ head' = <<>> /\ inProgress' = progress /\ Returns(t, NoOp) /\ UNCHANGED holds
  \/ \E j \in DOMAIN h :
       /\ h[j] \in Requests \ (progress \cup handled)
       /\ inProgress' = progress \cup {h[j]}
       /\ head' \in Seq(Requests)
       /\ \A i \in DOMAIN head' : \E k \in DOMAIN h : head'[i] = h[k]
       /\ \/ holds' = [holds EXCEPT ![t] = Held(h[j], FALSE, TRUE)] /\ Returns(t, NoOp)
          \/ Awaits(t, "get_request", NewOp("fetch", {}, h[j])) /\ UNCHANGED holds

LEMMA PopOutcome ==
  ASSUME NEW t \in Tasks, NEW h \in Seq(Requests), NEW progress, PopFrom(t, h, progress)
  PROVE  Popped(t, h, progress)
<1> DEFINE open == {i \in DOMAIN h : ~Skips(h[i], progress)}
<1>1. CASE open = {}
  BY <1>1 DEF PopFrom, Popped
<1>2. CASE open # {}
  <2>1. PICK next \in open :
          /\ head' = SubSeq(h, next + 1, Len(h))
          /\ inProgress' = progress \cup {h[next]}
          /\ IF h[next] \in cache
             THEN holds' = [holds EXCEPT ![t] = Held(h[next], FALSE, TRUE)] /\ Returns(t, NoOp)
             ELSE Awaits(t, "get_request", NewOp("fetch", {}, h[next])) /\ UNCHANGED holds
    BY <1>2 DEF PopFrom
  <2>2. next \in DOMAIN h /\ h[next] \notin progress \cup handled
    BY DEF Skips
  <2>3. /\ h[next] \in Requests
        /\ head' \in Seq(Requests)
        /\ \A i \in DOMAIN head' : \E k \in DOMAIN h : head'[i] = h[k]
    BY <2>1, <2>2, RestKeeps
  <2>4. QED
    BY <2>1, <2>2, <2>3 DEF Popped
<1>3. QED
  BY <1>1, <1>2

LEMMA PoppedTypes ==
  ASSUME OpsOK, NEW t \in Tasks, NEW h, NEW progress \in SUBSET Requests, Popped(t, h, progress),
         holds \in [Tasks -> [request : Requests, stamped : BOOLEAN, processing : BOOLEAN]
                             \cup {HoldsNothing}]
  PROVE  /\ OpsOK' /\ inProgress' \subseteq Requests /\ head' \in Seq(Requests)
         /\ holds' \in [Tasks -> [request : Requests, stamped : BOOLEAN, processing : BOOLEAN]
                                 \cup {HoldsNothing}]
<1>1. CASE head' = <<>> /\ inProgress' = progress /\ Returns(t, NoOp) /\ UNCHANGED holds
  BY <1>1, NoOpType, ReturnsFits
<1>2. ASSUME NEW j \in DOMAIN h, h[j] \in Requests, inProgress' = progress \cup {h[j]},
             head' \in Seq(Requests),
             \/ holds' = [holds EXCEPT ![t] = Held(h[j], FALSE, TRUE)] /\ Returns(t, NoOp)
             \/ Awaits(t, "get_request", NewOp("fetch", {}, h[j])) /\ UNCHANGED holds
      PROVE  /\ OpsOK'
             /\ holds' \in [Tasks -> [request : Requests, stamped : BOOLEAN, processing : BOOLEAN]
                                     \cup {HoldsNothing}]
  <2>1. CASE holds' = [holds EXCEPT ![t] = Held(h[j], FALSE, TRUE)] /\ Returns(t, NoOp)
    BY <1>2, <2>1, NoOpType, ReturnsFits DEF Held
  <2>2. CASE Awaits(t, "get_request", NewOp("fetch", {}, h[j])) /\ UNCHANGED holds
    <3>1. Fits("get_request", NewOp("fetch", {}, h[j]))
      BY <1>2, NewOpType DEF Fits, Places, ApiCalls
    <3>2. QED
      BY <2>2, <3>1, AwaitsFits
  <2>3. QED
    BY <1>2, <2>1, <2>2
<1>3. QED
  BY <1>1, <1>2 DEF Popped

LEMMA ListedHead ==
  ASSUME NEW t \in Tasks, head \in Seq(Requests), NEW h \in HeadWithNews(t)
  PROVE  /\ h \in Seq(Requests)
         /\ \A i \in DOMAIN h : \/ \E j \in DOMAIN head : h[i] = head[j]
                                \/ op[t].seen[h[i]] = "pending"
<1> DEFINE S == {r \in Requests : op[t].seen[r] = "pending" /\ IsNews(r)}
<1>1. PICK news \in SetToSeqs(S) : h = head \o news
  BY DEF HeadWithNews
<1>2. news \in Seq(Requests) /\ \A i \in DOMAIN news : news[i] \in S
  BY OrdersAreSequences
<1>3. QED
  BY <1>1, <1>2, ConcatKeeps

LEMMA TypeInit == Init => TypeInv
<1> SUFFICES ASSUME Init PROVE TypeInv
  OBVIOUS
<1>1. platform \in [Requests -> Status]
  BY DEF Init
<1>2. metadata \in [total : Nat, handled : Int]
  BY SubsetsAreCounted DEF Init, Count
<1>3. OpsOK
  BY NoOpType DEF Init, OpsOK, CallInv, Places
<1>4. head \in Seq(Requests)
  BY EmptySeq DEF Init
<1>5. holds \in [Tasks -> {HoldsNothing}] /\ calls \in 0..MaxCalls /\ failures \in 0..MaxFailures
  BY DEF Init
<1>6. initialized \in BOOLEAN
  BY DEF Init
<1>7. StateOK
  BY <1>1, <1>2, <1>4, <1>5, <1>6 DEF Init, StateOK
<1>8. QED
  BY <1>3, <1>7, TypeInvParts

LEMMA TypeAnswers ==
  ASSUME TypeInv, NEW t \in Tasks, Answer(t)
  PROVE  TypeInv'
<1> USE TypeInvParts
<1>1. op[t] \in OpRecord /\ platform \in [Requests -> Status] /\ failures \in 0..MaxFailures
  BY DEF OpsOK, StateOK
<1> DEFINE Replied(o) == o \in OpRecord /\ o.call = op[t].call /\ o.request = op[t].request
<1>2. Replied(Reply(t))
  BY <1>1 DEF Reply, OpRecord
<1>3. ASSUME NEW o, Replied(o), op' = [op EXCEPT ![t] = o], UNCHANGED pc
      PROVE  OpsOK'
  BY <1>3 DEF OpsOK, CallInv
<1>4. CASE AnswerRead(t)
  <2>1. Replied([Reply(t) EXCEPT !.seen = Nothing])
    BY <1>2 DEF OpRecord, Nothing
  <2>2. OpsOK'
    BY <1>2, <1>3, <1>4, <2>1 DEF AnswerRead
  <2>3. StateOK'
    BY <1>1, <1>4 DEF AnswerRead, StateOK, clientVars, historyVars
  <2>4. QED
    BY <2>2, <2>3
<1>5. CASE AnswerBatch(t)
  <2>1. PICK rejected \in SUBSET op[t].batch :
          /\ op' = [op EXCEPT ![t] = [Reply(t) EXCEPT !.rejected = rejected]]
          /\ platform' = [r \in Requests |->
               IF r \in op[t].batch \ rejected /\ platform[r] = "absent"
               THEN "pending" ELSE platform[r]]
          /\ rejected # {} => failures < MaxFailures
          /\ failures' = IF rejected = {} THEN failures ELSE failures + 1
    BY <1>5 DEF AnswerBatch
  <2>2. Replied([Reply(t) EXCEPT !.rejected = rejected])
    BY <1>1, <1>2 DEF OpRecord
  <2>3. OpsOK'
    BY <1>3, <1>5, <2>1, <2>2 DEF AnswerBatch
  <2>4. platform' \in [Requests -> Status] /\ failures' \in 0..MaxFailures
    BY <1>1, <2>1
  <2>5. StateOK'
    BY <1>5, <2>4 DEF AnswerBatch, StateOK, clientVars, historyVars
  <2>6. QED
    BY <2>3, <2>5
<1>6. CASE AnswerUpdate(t)
  <2>1. OpsOK'
    BY <1>2, <1>3, <1>6 DEF AnswerUpdate
  <2>2. StateOK'
    BY <1>6 DEF AnswerUpdate, StateOK, clientVars, historyVars
  <2>3. QED
    BY <2>1, <2>2
<1>7. QED
  BY <1>4, <1>5, <1>6 DEF Answer

LEMMA TypeCalls ==
  ASSUME TypeInv, NEW t \in Tasks, Call(t)
  PROVE  TypeInv'
<1> USE TypeInvParts
<1>1. calls < MaxCalls /\ calls' = calls + 1 => calls' \in 0..MaxCalls
  BY DEF StateOK
<1>2. CASE CallAdd(t)
  <2>1. PICK b \in SUBSET Requests :
          IF initialized THEN UNCHANGED <<cache, handled>> /\ Dispatch(t, b)
          ELSE /\ Awaits(t, "list_requests", NewOp("add", b, NoRequest))
               /\ UNCHANGED <<cache, handled, beingAdded>>
    BY <1>2 DEF CallAdd
  <2>2. Fits("list_requests", NewOp("add", b, NoRequest))
    BY NewOpType DEF Fits, Places, ApiCalls
  <2>3. cache' \subseteq Requests /\ handled' \subseteq Requests
    BY <2>1 DEF StateOK
  <2>4. OpsOK' /\ beingAdded' \subseteq Requests
    BY <2>1, <2>2, <2>3, DispatchTypes, AwaitsFits DEF StateOK
  <2>5. StateOK'
    BY <1>1, <1>2, <2>3, <2>4 DEF CallAdd, Calls, StateOK, historyVars
  <2>6. QED
    BY <2>4, <2>5
<1>3. CASE CallGet(t)
  <2>1. PICK r \in Requests : \/ Returns(t, NoOp)
                              \/ Awaits(t, "get_request", NewOp("get", {}, r))
    BY <1>3 DEF CallGet
  <2>2. Fits("get_request", NewOp("get", {}, r))
    BY NewOpType DEF Fits, Places, ApiCalls
  <2>3. OpsOK'
    BY <2>1, <2>2, NoOpType, ReturnsFits, AwaitsFits
  <2>4. StateOK'
    BY <1>3 DEF CallGet, StateOK, clientVars, historyVars
  <2>5. QED
    BY <2>3, <2>4
<1>4. CASE CallFetch(t)
  <2>1. CASE Len(head) <= 1
    <3>1. Fits("list_head", NewOp("fetch", {}, NoRequest))
      BY NewOpType DEF Fits, Places, ApiCalls
    <3>2. OpsOK'
      BY <1>4, <2>1, <3>1, AwaitsFits DEF CallFetch
    <3>3. StateOK'
      BY <1>4, <2>1 DEF CallFetch, StateOK, historyVars
    <3>4. QED
      BY <3>2, <3>3
  <2>2. CASE ~(Len(head) <= 1)
    <3>1. Popped(t, head, inProgress)
      BY <1>4, <2>2, PopOutcome DEF CallFetch, StateOK
    <3>2. /\ OpsOK' /\ inProgress' \subseteq Requests /\ head' \in Seq(Requests)
          /\ holds' \in [Tasks -> [request : Requests, stamped : BOOLEAN, processing : BOOLEAN]
                                  \cup {HoldsNothing}]
      BY <3>1, PoppedTypes DEF StateOK
    <3>3. StateOK'
      BY <1>4, <3>2 DEF CallFetch, StateOK, historyVars
    <3>4. QED
      BY <3>2, <3>3
  <2>3. QED
    BY <2>1, <2>2
<1>5. CASE CallFinished(t)
  <2>1. Fits("list_head", NewOp("finished", {}, NoRequest))
    BY NewOpType DEF Fits, Places, ApiCalls
  <2>2. [NewOp("finished", {}, NoRequest) EXCEPT !.finished = Finished] \in OpRecord
    BY DEF NewOp, OpRecord, Nothing, Finished
  <2>3. OpsOK'
    BY <1>5, <2>1, <2>2, AwaitsFits, ReturnsFits DEF CallFinished, Verdict
  <2>4. StateOK'
    BY <1>5 DEF CallFinished, StateOK, clientVars, historyVars
  <2>5. QED
    BY <2>3, <2>4
<1>6. ASSUME holds[t] # HoldsNothing
      PROVE  holds[t].request \in Requests
  BY <1>6 DEF StateOK
<1>7. CASE CallMark(t)
  <2> DEFINE r == holds[t].request
  <2>1. r \in Requests
    BY <1>6, <1>7 DEF CallMark, HoldsNothing, Held
  <2>2. Fits("update_request", NewOp("mark", {}, r))
    BY <2>1, NewOpType DEF Fits, Places, ApiCalls
  <2>3. OpsOK'
    BY <1>7, <2>2, AwaitsFits DEF CallMark
  <2>4. metadata' \in [total : Nat, handled : Int]
    BY <1>7 DEF CallMark, StateOK
  <2>5. holds' \in [Tasks -> [request : Requests, stamped : BOOLEAN, processing : BOOLEAN]
                             \cup {HoldsNothing}]
    BY <1>7, <2>1 DEF CallMark, StateOK, Held
  <2>6. StateOK'
    BY <1>7, <2>1, <2>4, <2>5 DEF CallMark, StateOK
  <2>7. QED
    BY <2>3, <2>6
<1>8. CASE CallReclaim(t)
  <2> DEFINE r == holds[t].request
  <2>1. r \in Requests
    BY <1>6, <1>8 DEF CallReclaim
  <2>2. Fits("update_request", NewOp("reclaim", {}, r))
    BY <2>1, NewOpType DEF Fits, Places, ApiCalls
  <2>3. OpsOK'
    BY <1>8, <2>2, AwaitsFits DEF CallReclaim
  <2>4. head' \in Seq(Requests)
    <3>1. head \in Seq(Requests) /\ <<r>> \in Seq(Requests)
      BY <2>1 DEF StateOK
    <3>2. <<r>> \o head \in Seq(Requests)
      BY <3>1, ConcatKeeps
    <3>3. head' \in {head, <<r>> \o head}
      BY <1>8 DEF CallReclaim
    <3>4. QED
      BY <3>1, <3>2, <3>3
  <2>5. holds' \in [Tasks -> [request : Requests, stamped : BOOLEAN, processing : BOOLEAN]
                             \cup {HoldsNothing}]
    BY <1>8 DEF CallReclaim, StateOK
  <2>6. StateOK'
    BY <1>1, <1>8, <2>1, <2>4, <2>5 DEF CallReclaim, Calls, StateOK
  <2>7. QED
    BY <2>3, <2>6
<1>9. QED
  BY <1>2, <1>3, <1>4, <1>5, <1>7, <1>8 DEF Call

(* What BatchAnswered does with the answer.                                 *)
LEMMA BatchOutcome ==
  ASSUME OpsOK, NEW t \in Tasks, BatchAnswered(t)
  PROVE  \E record \in OpRecord :
           /\ record = [op[t] EXCEPT !.batch = {},
                 !.new = {r \in Committed(t) : op[t].seen[r] = "absent"},
                 !.known = @ \cup {r \in Committed(t) : op[t].seen[r] # "absent"}]
           /\ record.call = "add" /\ record.batch = {}
           /\ record.new \subseteq Committed(t)
           /\ record.known \subseteq op[t].known \cup Committed(t)
           /\ Settle(t, IF record.waits = {} THEN "idle" ELSE "in_flight", record, Committed(t))
           /\ metadata' = IF record.waits = {}
                          THEN [metadata EXCEPT !.total = @ + CountsAsNew(record)] ELSE metadata
<1> DEFINE record == [op[t] EXCEPT !.batch = {},
                 !.new = {r \in Committed(t) : op[t].seen[r] = "absent"},
                 !.known = @ \cup {r \in Committed(t) : op[t].seen[r] # "absent"}]
<1>1. op[t] \in OpRecord /\ op[t].call = "add"
  BY DEF OpsOK, CallInv, BatchAnswered, Answered
<1>2. Committed(t) \subseteq Requests
  BY <1>1 DEF Committed, OpRecord
<1>3. record \in OpRecord
  BY <1>1, <1>2 DEF OpRecord
<1>4. /\ record.call = "add" /\ record.batch = {}
      /\ record.new \subseteq Committed(t)
      /\ record.known \subseteq op[t].known \cup Committed(t)
  BY <1>1 DEF OpRecord
<1>5. /\ Settle(t, IF record.waits = {} THEN "idle" ELSE "in_flight", record, Committed(t))
      /\ metadata' = IF record.waits = {}
                     THEN [metadata EXCEPT !.total = @ + CountsAsNew(record)] ELSE metadata
  BY DEF BatchAnswered
<1> HIDE DEF record
<1>6. QED
  BY <1>3, <1>4, <1>5 DEF record

(* Where the elements of the head come from.                                *)
LEMMA BatchHead ==
  ASSUME OpsOK, head \in Seq(Requests), NEW t \in Tasks, BatchAnswered(t)
  PROVE  /\ head' \in Seq(Requests) /\ Committed(t) \subseteq Requests
         /\ \A i \in DOMAIN head' : head'[i] \in Committed(t) \/ \E j \in DOMAIN head : head'[i] = head[j]
<1>1. Committed(t) \in SUBSET Requests
  BY DEF Committed, OpsOK, OpRecord
<1>2. PICK news \in SetToSeqs(Committed(t)) : head' \in {head \o news, news \o head}
  BY DEF BatchAnswered
<1>3. news \in Seq(Requests) /\ \A i \in DOMAIN news : news[i] \in Committed(t)
  BY <1>1, OrdersAreSequences
<1>4. CASE head' = head \o news
  BY <1>1, <1>3, <1>4, ConcatKeeps
<1>5. CASE head' = news \o head
  BY <1>1, <1>3, <1>5, ConcatKeeps
<1>6. QED
  BY <1>2, <1>4, <1>5

LEMMA TotalGrows ==
  ASSUME NEW record \in OpRecord, metadata \in [total : Nat, handled : Int]
  PROVE  [metadata EXCEPT !.total = @ + CountsAsNew(record)] \in [total : Nat, handled : Int]
<1>1. record.new \in SUBSET Requests
  BY DEF OpRecord
<1>2. CountsAsNew(record) \in Nat
  BY <1>1, SubsetsAreCounted DEF CountsAsNew
<1>3. QED
  BY <1>2

LEMMA TypeResumes ==
  ASSUME TypeInv, NEW t \in Tasks, Resume(t)
  PROVE  TypeInv'
<1>1. OpsOK /\ StateOK /\ op[t] \in OpRecord
  BY TypeInvParts DEF OpsOK
<1>2. CASE CachesListed(t)
  <2>1. cache' \subseteq Requests /\ handled' \subseteq Requests /\ op[t].batch \in SUBSET Requests
    BY <1>1, <1>2, OpRecordFields DEF CachesListed, StateOK
  <2>2. OpsOK' /\ beingAdded' \subseteq Requests
    BY <1>1, <1>2, <2>1, DispatchTypes DEF CachesListed, StateOK
  <2>3. StateOK'
    BY <1>1, <1>2, <2>1, <2>2 DEF CachesListed, StateOK, historyVars
  <2>4. QED
    BY <2>2, <2>3, TypeInvParts
<1>3. CASE BatchAnswered(t)
  <2>1. PICK record \in OpRecord :
          /\ record.call = "add"
          /\ Settle(t, IF record.waits = {} THEN "idle" ELSE "in_flight", record, Committed(t))
          /\ metadata' = IF record.waits = {}
                         THEN [metadata EXCEPT !.total = @ + CountsAsNew(record)] ELSE metadata
    BY <1>1, <1>3, BatchOutcome
  <2>2. \A at \in {"idle", "in_flight"} : Fits(at, record)
    BY <2>1 DEF Fits, Places, ApiCalls
  <2>3. head' \in Seq(Requests) /\ Committed(t) \subseteq Requests
    BY <1>1, <1>3, BatchHead DEF StateOK
  <2>4. OpsOK'
    <3> DEFINE at == IF record.waits = {} THEN "idle" ELSE "in_flight"
    <3>1. Fits(at, record)
      BY <2>2
    <3>2. QED
      BY <1>1, <2>1, <2>3, <3>1, SettleTypes
  <2>5. metadata' \in [total : Nat, handled : Int]
    BY <1>1, <2>1, TotalGrows DEF StateOK
  <2>6. beingAdded' \subseteq Requests
    BY <1>1, <2>1 DEF Settle, StateOK
  <2>7. StateOK'
    BY <1>1, <1>3, <2>3, <2>5, <2>6 DEF BatchAnswered, StateOK
  <2>8. QED
    BY <2>4, <2>7, TypeInvParts
<1>4. CASE AddReturns(t)
  <2>1. OpsOK'
    BY <1>1, <1>4, ReturnsFits DEF AddReturns
  <2>2. metadata' \in [total : Nat, handled : Int]
    BY <1>1, <1>4, TotalGrows DEF AddReturns, StateOK
  <2>3. StateOK'
    BY <1>1, <1>4, <2>2 DEF AddReturns, StateOK, historyVars
  <2>4. QED
    BY <2>1, <2>3, TypeInvParts
<1>5. ASSUME NEW h \in Seq(Requests), NEW progress \in SUBSET Requests, PopFrom(t, h, progress),
             UNCHANGED <<platform, initialized, cache, handled, beingAdded, metadata, historyVars,
                         calls, failures>>
      PROVE  TypeInv'
  <2>1. /\ OpsOK' /\ inProgress' \subseteq Requests /\ head' \in Seq(Requests)
        /\ holds' \in [Tasks -> [request : Requests, stamped : BOOLEAN, processing : BOOLEAN]
                                \cup {HoldsNothing}]
    BY <1>1, <1>5, PopOutcome, PoppedTypes DEF StateOK
  <2>2. StateOK'
    BY <1>1, <1>5, <2>1 DEF StateOK, historyVars
  <2>3. QED
    BY <2>1, <2>2, TypeInvParts
<1>6. CASE FetchHeadListed(t)
  <2>1. PICK h \in HeadWithNews(t) : PopFrom(t, h, inProgress)
    BY <1>6 DEF FetchHeadListed
  <2>2. h \in Seq(Requests)
    BY <1>1, ListedHead DEF StateOK
  <2>3. QED
    BY <1>1, <1>5, <1>6, <2>1, <2>2 DEF FetchHeadListed, StateOK
<1>7. CASE FetchedRequest(t)
  <2>1. op[t].request \in Requests
    BY <1>1, <1>7 DEF FetchedRequest, Answered, OpsOK, CallInv
  <2>2. CASE op[t].seen[op[t].request] = "absent"
    BY <1>1, <1>5, <1>7, <2>2 DEF FetchedRequest, StateOK
  <2>3. CASE op[t].seen[op[t].request] # "absent"
    <3>1. OpsOK'
      BY <1>1, <1>7, <2>3, NoOpType, ReturnsFits DEF FetchedRequest
    <3>2. \A b \in BOOLEAN : Held(op[t].request, b, TRUE) \in
            [request : Requests, stamped : BOOLEAN, processing : BOOLEAN]
      BY <2>1 DEF Held
    <3>3. holds' \in [Tasks -> [request : Requests, stamped : BOOLEAN, processing : BOOLEAN]
                               \cup {HoldsNothing}]
      <4>1. PICK b \in BOOLEAN : holds' = [holds EXCEPT ![t] = Held(op[t].request, b, TRUE)]
        BY <1>7, <2>3 DEF FetchedRequest
      <4>2. QED
        BY <1>1, <3>2, <4>1 DEF StateOK
    <3>4. StateOK'
      BY <1>1, <1>7, <2>3, <3>3 DEF FetchedRequest, StateOK, historyVars
    <3>5. QED
      BY <3>1, <3>4, TypeInvParts
  <2>4. QED
    BY <2>2, <2>3
<1>8. CASE FinishedHeadListed(t)
  <2>1. head' \in Seq(Requests)
    BY <1>1, <1>8, ListedHead DEF FinishedHeadListed, StateOK
  <2>2. [NewOp("finished", {}, NoRequest) EXCEPT !.finished = Finished] \in OpRecord
    BY DEF NewOp, OpRecord, Nothing, Finished
  <2>3. OpsOK'
    BY <1>1, <1>8, <2>2, ReturnsFits DEF FinishedHeadListed, Verdict
  <2>4. StateOK'
    BY <1>1, <1>8, <2>1 DEF FinishedHeadListed, StateOK, historyVars
  <2>5. QED
    BY <2>3, <2>4, TypeInvParts
<1>9. CASE GotRequest(t)
  <2>1. op[t].request \in Requests
    BY <1>1, <1>9 DEF GotRequest, Answered, OpsOK, CallInv
  <2>2. OpsOK'
    BY <1>1, <1>9, NoOpType, ReturnsFits DEF GotRequest
  <2>3. handled' \subseteq Requests /\ cache' \subseteq Requests
    BY <1>1, <1>9, <2>1 DEF GotRequest, StateOK
  <2>4. StateOK'
    BY <1>1, <1>9, <2>3 DEF GotRequest, StateOK, historyVars
  <2>5. QED
    BY <2>2, <2>4, TypeInvParts
<1>10. CASE Updated(t)
  <2>1. OpsOK'
    BY <1>1, <1>10, NoOpType, ReturnsFits DEF Updated
  <2>2. metadata' \in [total : Nat, handled : Int]
    BY <1>1, <1>10 DEF Updated, StateOK
  <2>3. StateOK'
    BY <1>1, <1>10, <2>2 DEF Updated, StateOK, historyVars
  <2>4. QED
    BY <2>1, <2>3, TypeInvParts
<1>11. QED
  BY <1>2, <1>3, <1>4, <1>6, <1>7, <1>8, <1>9, <1>10 DEF Resume

LEMMA TypeFails ==
  ASSUME TypeInv, NEW t \in Tasks, Fail(t)
  PROVE  TypeInv'
<1>1. OpsOK /\ StateOK
  BY TypeInvParts
<1>2. OpsOK' /\ beingAdded' \subseteq Requests
  <2>1. CASE pc[t] = "batch_add"
    <3>1. Fits("idle", NoOp)
      BY NoOpType DEF Fits, Places
    <3>2. Settle(t, "idle", NoOp, {})
      BY <2>1 DEF Fail
    <3>3. OpsOK'
      BY <1>1, <3>1, <3>2, SettleTypes
    <3>4. QED
      BY <1>1, <3>2, <3>3 DEF Settle, StateOK
  <2>2. CASE pc[t] # "batch_add"
    BY <1>1, <2>2, NoOpType, ReturnsFits DEF Fail, StateOK
  <2>3. QED
    BY <2>1, <2>2
<1>3. failures' \in 0..MaxFailures
  BY <1>1 DEF Fail, StateOK
<1>4. StateOK'
  BY <1>1, <1>2, <1>3 DEF Fail, StateOK, historyVars
<1>5. QED
  BY <1>2, <1>4, TypeInvParts

LEMMA TypeOthers ==
  ASSUME TypeInv, NEW r \in Requests, OtherAdds(r) \/ OtherHandles(r)
  PROVE  TypeInv'
<1>1. OpsOK /\ StateOK
  BY TypeInvParts
<1>2. OpsOK' /\ StateOK'
  BY <1>1 DEF OtherAdds, OtherHandles, OpsOK, CallInv, StateOK, clientVars, taskVars, historyVars
<1>3. QED
  BY <1>2, TypeInvParts

LEMMA TypeStutters == TypeInv /\ UNCHANGED vars => TypeInv'
BY DEF TypeInv, TypeOK, CallInv, vars, clientVars, taskVars, historyVars

LEMMA TypeStep == TypeInv /\ [Next]_vars => TypeInv'
BY TypeAnswers, TypeCalls, TypeResumes, TypeFails, TypeOthers, TypeStutters DEF Next, Step

LEMMA TypeCorrect == Spec => []TypeInv
BY TypeInit, TypeStep, PTL DEF Spec

(* Every variable of the queue client keeps its type.                       *)
THEOREM TypesHold == Spec => []TypeOK
<1>1. TypeInv => TypeOK
  BY DEF TypeInv
<1>2. QED
  BY <1>1, TypeCorrect, PTL

-----------------------------------------------------------------------------
(* No false success.  What the client knows of, in whatever collection, and *)
(* what an answer under way tells of, is on the platform, which forgets no  *)
(* request.                                                                 *)

OpPresent(p, at, o) ==
  \A r \in Requests :
    /\ o.seen[r] # "absent" => p[r] # "absent"
    /\ r \in o.known \cup o.new => p[r] # "absent"
    /\ at = "batch_add" /\ o.answered /\ r \in o.batch \ o.rejected => p[r] # "absent"
    /\ at = "get_request" /\ o.call = "fetch" /\ o.request = r => p[r] # "absent"

CallsPresent == \A t \in Tasks : OpPresent(platform, pc[t], op[t])

LocalPresent ==
  \A r \in Requests :
    r \in cache \cup handled \cup inProgress \cup added \cup done => platform[r] # "absent"

HeadPresent == \A i \in DOMAIN head : platform[head[i]] # "absent"

HeldPresent == \A t \in Tasks, r \in Requests : holds[t].request = r => platform[r] # "absent"

PresentInv == CallsPresent /\ LocalPresent /\ HeadPresent /\ HeldPresent

PlatformGrows == \A r \in Requests : platform[r] # "absent" => platform'[r] # "absent"

LEMMA NewOpPresent ==
  ASSUME NEW p, NEW at, NEW call, NEW b, NEW q,
         at = "get_request" /\ call = "fetch" /\ q \in Requests => p[q] # "absent"
  PROVE  OpPresent(p, at, NewOp(call, b, q))
BY DEF OpPresent, NewOp, Nothing

LEMMA AwaitsPresent ==
  ASSUME TypeInv, CallsPresent, PlatformGrows, NEW t \in Tasks, NEW at, NEW o,
         Awaits(t, at, o), OpPresent(platform', at, o)
  PROVE  CallsPresent'
BY DEF TypeInv, TypeOK, CallsPresent, PlatformGrows, Awaits, OpPresent

LEMMA ReturnsPresent ==
  ASSUME TypeInv, CallsPresent, PlatformGrows, NEW t \in Tasks, Returns(t, NoOp)
  PROVE  CallsPresent'
BY AwaitsPresent, NewOpPresent DEF Returns, NoOp

LEMMA SettlePresent ==
  ASSUME TypeInv, CallsPresent, PlatformGrows, NEW t \in Tasks, NEW at, NEW o, Fits(at, o),
         NEW committed \in SUBSET Requests, Settle(t, at, o, committed),
         OpPresent(platform', at, o), \A r \in committed : platform'[r] # "absent"
  PROVE  CallsPresent'
<1>1. /\ pc' = [pc EXCEPT ![t] = at] /\ op'[t] = o
      /\ \A u \in Tasks \ {t} :
           /\ op'[u] = [op[u] EXCEPT !.known = op'[u].known, !.waits = op'[u].waits]
           /\ op'[u].known \subseteq op[u].known \cup committed
  BY TypeInvParts, SettleTypes
<1>2. ASSUME NEW u \in Tasks
      PROVE  OpPresent(platform', pc'[u], op'[u])
  <2>1. CASE u = t
    BY <1>1, <2>1 DEF TypeInv, TypeOK
  <2>2. CASE u # t
    <3>1. op[u] \in OpRecord /\ OpPresent(platform, pc[u], op[u]) /\ pc'[u] = pc[u]
      BY <1>1, <2>2 DEF TypeInv, TypeOK, CallsPresent
    <3>2. /\ op'[u].seen = op[u].seen /\ op'[u].new = op[u].new
          /\ op'[u].answered = op[u].answered /\ op'[u].batch = op[u].batch
          /\ op'[u].rejected = op[u].rejected /\ op'[u].call = op[u].call
          /\ op'[u].request = op[u].request
      <4> DEFINE known == op'[u].known
                 waits == op'[u].waits
      <4>1. op'[u] = [op[u] EXCEPT !.known = known, !.waits = waits]
        BY <1>1, <2>2
      <4> HIDE DEF known, waits
      <4>2. QED
        BY <3>1, <4>1 DEF OpRecord
    <3>3. op'[u].known \subseteq op[u].known \cup committed
      BY <1>1, <2>2
    <3>4. QED
      BY <3>1, <3>2, <3>3 DEF OpPresent, PlatformGrows
  <2>3. QED
    BY <2>1, <2>2
<1>3. QED
  BY <1>2 DEF CallsPresent

LEMMA DispatchPresent ==
  ASSUME TypeInv, CallsPresent, PlatformGrows, NEW t \in Tasks, NEW b \in SUBSET Requests,
         Dispatch(t, b), \A r \in Requests : r \in cache' \cup handled' => platform'[r] # "absent"
  PROVE  CallsPresent'
<1> DEFINE known == b \cap (handled' \cup cache')
           waits == b \ (known \cup ToSend(b))
           record == [NewOp("add", ToSend(b), NoRequest) EXCEPT !.known = known, !.waits = waits]
<1>1. \E at \in {"batch_add", "in_flight", "idle"} : Awaits(t, at, record)
  BY DEF Dispatch, Returns
<1>2. \A at \in {"batch_add", "in_flight", "idle"} : OpPresent(platform', at, record)
  BY DEF OpPresent, NewOp, Nothing
<1> HIDE DEF record
<1>3. QED
  BY <1>1, <1>2, AwaitsPresent

LEMMA PoppedPresent ==
  ASSUME TypeInv, PresentInv, NEW t \in Tasks, NEW h, NEW progress \in SUBSET Requests,
         Popped(t, h, progress), progress \subseteq inProgress,
         \A i \in DOMAIN h : platform[h[i]] # "absent",
         UNCHANGED <<platform, cache, handled, historyVars>>
  PROVE  PresentInv'
<1>1. PlatformGrows
  BY DEF PlatformGrows
<1>2. CASE head' = <<>> /\ inProgress' = progress /\ Returns(t, NoOp) /\ UNCHANGED holds
  <2>1. CallsPresent'
    BY <1>1, <1>2, ReturnsPresent DEF PresentInv
  <2>2. LocalPresent' /\ HeadPresent' /\ HeldPresent'
    BY <1>2 DEF PresentInv, LocalPresent, HeadPresent, HeldPresent, historyVars
  <2>3. QED
    BY <2>1, <2>2 DEF PresentInv
<1>3. ASSUME NEW j \in DOMAIN h, h[j] \in Requests \ (progress \cup handled),
             inProgress' = progress \cup {h[j]},
             \A i \in DOMAIN head' : \E k \in DOMAIN h : head'[i] = h[k],
             \/ holds' = [holds EXCEPT ![t] = Held(h[j], FALSE, TRUE)] /\ Returns(t, NoOp)
             \/ Awaits(t, "get_request", NewOp("fetch", {}, h[j])) /\ UNCHANGED holds
      PROVE  PresentInv'
  <2>1. HeadPresent'
    BY <1>3 DEF HeadPresent
  <2>2. LocalPresent'
    BY <1>3 DEF PresentInv, LocalPresent, historyVars
  <2>3. CASE holds' = [holds EXCEPT ![t] = Held(h[j], FALSE, TRUE)] /\ Returns(t, NoOp)
    <3>1. CallsPresent'
      BY <1>1, <2>3, ReturnsPresent DEF PresentInv
    <3>2. HeldPresent'
      BY <1>3, <2>3 DEF TypeInv, TypeOK, PresentInv, HeldPresent, Held
    <3>3. QED
      BY <2>1, <2>2, <3>1, <3>2 DEF PresentInv
  <2>4. CASE Awaits(t, "get_request", NewOp("fetch", {}, h[j])) /\ UNCHANGED holds
    <3>1. OpPresent(platform', "get_request", NewOp("fetch", {}, h[j]))
      BY NewOpPresent
    <3>2. CallsPresent'
      BY <1>1, <2>4, <3>1, AwaitsPresent DEF PresentInv
    <3>3. QED
      BY <2>1, <2>2, <2>4, <3>2 DEF PresentInv, HeldPresent
  <2>5. QED
    BY <1>3, <2>3, <2>4
<1>4. QED
  BY <1>2, <1>3 DEF Popped

LEMMA PresentInit == Init => PresentInv
<1> SUFFICES ASSUME Init PROVE PresentInv
  OBVIOUS
<1>1. CallsPresent
  BY NewOpPresent DEF Init, CallsPresent, NoOp
<1>2. LocalPresent /\ HeadPresent
  BY DEF Init, LocalPresent, HeadPresent
<1>3. HeldPresent
  BY DEF Init, HeldPresent, HoldsNothing, Held
<1>4. QED
  BY <1>1, <1>2, <1>3 DEF PresentInv

(* The steps that leave alone what the client holds: those of the platform  *)
(* and of the other clients, and those of a task that only goes on.         *)
LEMMA ClientStillPresent ==
  ASSUME PresentInv, TypeInv, PlatformGrows, CallsPresent',
         UNCHANGED <<cache, head, handled, inProgress, holds, added, done>>
  PROVE  PresentInv'
<1>1. LocalPresent' /\ HeldPresent'
  BY DEF TypeInv, TypeOK, PresentInv, LocalPresent, HeldPresent, PlatformGrows
<1>2. HeadPresent'
  <2>1. \A i \in DOMAIN head : head[i] \in Requests
    BY ElementOfSeq, LenProperties DEF TypeInv, TypeOK
  <2>2. QED
    BY <2>1 DEF PresentInv, HeadPresent, PlatformGrows
<1>3. QED
  BY <1>1, <1>2 DEF PresentInv

LEMMA PresentAnswers ==
  ASSUME TypeInv, PresentInv, NEW t \in Tasks, Answer(t)
  PROVE  PresentInv'
<1>1. /\ op[t] \in OpRecord /\ OpPresent(platform, pc[t], op[t])
      /\ \A u \in Tasks \ {t} : OpPresent(platform, pc[u], op[u])
      /\ platform \in [Requests -> Status]
  BY DEF TypeInv, TypeOK, PresentInv, CallsPresent
<1>2. ASSUME PlatformGrows, NEW o, OpPresent(platform', pc[t], o),
             op' = [op EXCEPT ![t] = o], UNCHANGED pc
      PROVE  CallsPresent'
  BY <1>1, <1>2 DEF TypeInv, TypeOK, CallsPresent, OpPresent, PlatformGrows
<1>3. /\ Reply(t).seen = platform /\ Reply(t).known = op[t].known /\ Reply(t).new = op[t].new
      /\ Reply(t).answered = TRUE /\ Reply(t).batch = op[t].batch
      /\ Reply(t).call = op[t].call /\ Reply(t).request = op[t].request
      /\ Reply(t) \in OpRecord
  BY <1>1 DEF Reply, OpRecord
<1>4. CASE AnswerRead(t)
  <2>1. PlatformGrows
    BY <1>4 DEF AnswerRead, PlatformGrows
  <2>2. OpPresent(platform', pc[t], Reply(t))
    BY <1>1, <1>3, <1>4, <2>1 DEF OpPresent, AnswerRead
  <2>3. OpPresent(platform', pc[t], [Reply(t) EXCEPT !.seen = Nothing])
    <3> DEFINE o == [Reply(t) EXCEPT !.seen = Nothing]
    <3>1. /\ o.seen = Nothing /\ o.known = op[t].known /\ o.new = op[t].new
          /\ o.call = op[t].call /\ o.request = op[t].request
      BY <1>3 DEF OpRecord
    <3> HIDE DEF o
    <3>2. OpPresent(platform', pc[t], o)
      BY <1>1, <1>4, <2>1, <3>1 DEF OpPresent, AnswerRead, Nothing
    <3>3. QED
      BY <3>2 DEF o
  <2>4. CallsPresent'
    BY <1>2, <1>4, <2>1, <2>2, <2>3 DEF AnswerRead
  <2>5. QED
    BY <1>4, <2>1, <2>4, ClientStillPresent DEF AnswerRead, clientVars, historyVars
<1>5. CASE AnswerBatch(t)
  <2>1. PICK rejected \in SUBSET op[t].batch :
          /\ op' = [op EXCEPT ![t] = [Reply(t) EXCEPT !.rejected = rejected]]
          /\ platform' = [r \in Requests |->
               IF r \in op[t].batch \ rejected /\ platform[r] = "absent"
               THEN "pending" ELSE platform[r]]
    BY <1>5 DEF AnswerBatch
  <2>2. PlatformGrows
    BY <2>1 DEF PlatformGrows
  <2> DEFINE o == [Reply(t) EXCEPT !.rejected = rejected]
  <2>3. /\ o.seen = platform /\ o.known = op[t].known /\ o.new = op[t].new
        /\ o.call = op[t].call /\ o.request = op[t].request
        /\ o.batch = op[t].batch /\ o.rejected = rejected
    BY <1>3 DEF OpRecord
  <2>4. op' = [op EXCEPT ![t] = o]
    BY <2>1
  <2> HIDE DEF o
  <2>5. OpPresent(platform', pc[t], o)
    BY <1>1, <2>1, <2>2, <2>3, <1>5 DEF OpPresent, PlatformGrows, AnswerBatch
  <2>6. CallsPresent'
    BY <1>2, <1>5, <2>2, <2>4, <2>5 DEF AnswerBatch
  <2>7. QED
    BY <1>5, <2>2, <2>6, ClientStillPresent DEF AnswerBatch, clientVars, historyVars
<1>6. CASE AnswerUpdate(t)
  <2>1. PlatformGrows
    BY <1>1, <1>6 DEF AnswerUpdate, PlatformGrows
  <2>2. OpPresent(platform', pc[t], Reply(t))
    BY <1>1, <1>3, <1>6, <2>1 DEF OpPresent, PlatformGrows, AnswerUpdate
  <2>3. CallsPresent'
    BY <1>2, <1>6, <2>1, <2>2 DEF AnswerUpdate
  <2>4. QED
    BY <1>6, <2>1, <2>3, ClientStillPresent DEF AnswerUpdate, clientVars, historyVars
<1>7. QED
  BY <1>4, <1>5, <1>6 DEF Answer

LEMMA PresentCalls ==
  ASSUME TypeInv, PresentInv, NEW t \in Tasks, Call(t)
  PROVE  PresentInv'
<1>1. PlatformGrows
  BY DEF Call, CallAdd, CallGet, CallFetch, CallFinished, CallMark, CallReclaim, PlatformGrows
<1>2. CASE CallAdd(t)
  <2>1. PICK b \in SUBSET Requests :
          \/ UNCHANGED <<cache, handled>> /\ Dispatch(t, b)
          \/ /\ Awaits(t, "list_requests", NewOp("add", b, NoRequest))
             /\ UNCHANGED <<cache, handled>>
    BY <1>2 DEF CallAdd
  <2>2. \A r \in Requests : r \in cache' \cup handled' => platform'[r] # "absent"
    BY <1>1, <2>1 DEF PresentInv, LocalPresent, PlatformGrows
  <2>3. CallsPresent'
    BY <1>1, <2>1, <2>2, DispatchPresent, AwaitsPresent, NewOpPresent DEF PresentInv
  <2>4. QED
    BY <1>1, <1>2, <2>1, <2>3, ClientStillPresent DEF CallAdd, historyVars
<1>3. CASE CallGet(t)
  <2>1. PICK r \in Requests : \/ Returns(t, NoOp)
                              \/ Awaits(t, "get_request", NewOp("get", {}, r))
    BY <1>3 DEF CallGet
  <2>2. CallsPresent'
    BY <1>1, <2>1, AwaitsPresent, ReturnsPresent, NewOpPresent DEF PresentInv
  <2>3. QED
    BY <1>1, <1>3, <2>2, ClientStillPresent DEF CallGet, clientVars, historyVars
<1>4. CASE CallFetch(t)
  <2>1. CASE Len(head) <= 1
    <3>1. Awaits(t, "list_head", NewOp("fetch", {}, NoRequest)) /\ UNCHANGED <<head, inProgress, holds>>
      BY <1>4, <2>1 DEF CallFetch
    <3>2. CallsPresent'
      BY <1>1, <3>1, AwaitsPresent, NewOpPresent DEF PresentInv
    <3>3. QED
      BY <1>1, <1>4, <3>1, <3>2, ClientStillPresent DEF CallFetch, historyVars
  <2>2. CASE ~(Len(head) <= 1)
    <3>1. Popped(t, head, inProgress)
      BY <1>4, <2>2, PopOutcome DEF CallFetch, TypeInv, TypeOK
    <3>2. QED
      BY <1>4, <3>1, PoppedPresent DEF CallFetch, TypeInv, TypeOK, PresentInv, HeadPresent
  <2>3. QED
    BY <2>1, <2>2
<1>5. CASE CallFinished(t)
  <2>1. OpPresent(platform', "idle", [NewOp("finished", {}, NoRequest) EXCEPT !.finished = Finished])
    BY DEF OpPresent, NewOp, Nothing
  <2>2. CallsPresent'
    BY <1>1, <1>5, <2>1, AwaitsPresent, NewOpPresent DEF CallFinished, Verdict, Returns, PresentInv
  <2>3. QED
    BY <1>1, <1>5, <2>2, ClientStillPresent DEF CallFinished, clientVars, historyVars
<1>6. CASE CallMark(t)
  <2> DEFINE r == holds[t].request
  <2>1. CallsPresent'
    BY <1>1, <1>6, AwaitsPresent, NewOpPresent DEF CallMark, PresentInv
  <2>2. \A q \in Requests : q \in {r} => platform'[q] # "absent"
    BY <1>1 DEF PresentInv, HeldPresent, PlatformGrows
  <2>3. LocalPresent'
    BY <1>1, <1>6, <2>2 DEF CallMark, PresentInv, LocalPresent, PlatformGrows
  <2>4. HeadPresent'
    BY <1>6 DEF CallMark, PresentInv, HeadPresent
  <2>5. HeldPresent'
    BY <1>6 DEF CallMark, PresentInv, HeldPresent, TypeInv, TypeOK, Held, HoldsNothing
  <2>6. QED
    BY <2>1, <2>3, <2>4, <2>5 DEF PresentInv
<1>7. CASE CallReclaim(t)
  <2> DEFINE r == holds[t].request
  <2>1. CallsPresent'
    BY <1>1, <1>7, AwaitsPresent, NewOpPresent DEF CallReclaim, PresentInv
  <2>2. r \in Requests
    BY <1>7 DEF CallReclaim, TypeInv, TypeOK
  <2>3. platform'[r] # "absent"
    BY <1>1, <2>2 DEF PresentInv, HeldPresent, PlatformGrows
  <2>4. LocalPresent'
    BY <1>1, <1>7, <2>3 DEF CallReclaim, PresentInv, LocalPresent, PlatformGrows
  <2>5. HeadPresent'
    <3>1. head \in Seq(Requests) /\ <<r>> \in Seq(Requests) /\ DOMAIN <<r>> = {1}
      BY <2>2 DEF TypeInv, TypeOK
    <3>2. \A i \in DOMAIN (<<r>> \o head) : platform[(<<r>> \o head)[i]] # "absent"
      <4>1. <<r>>[1] = r
        OBVIOUS
      <4>2. QED
        BY <1>7, <2>3, <3>1, <4>1, ConcatKeeps DEF CallReclaim, PresentInv, HeadPresent
    <3>3. head' \in {head, <<r>> \o head}
      BY <1>7 DEF CallReclaim
    <3>4. QED
      BY <1>7, <3>2, <3>3 DEF CallReclaim, PresentInv, HeadPresent
  <2>6. HeldPresent'
    BY <1>7 DEF CallReclaim, PresentInv, HeldPresent, TypeInv, TypeOK, Held, HoldsNothing
  <2>7. QED
    BY <2>1, <2>4, <2>5, <2>6 DEF PresentInv
<1>8. QED
  BY <1>2, <1>3, <1>4, <1>5, <1>6, <1>7 DEF Call

LEMMA PresentResumes ==
  ASSUME TypeInv, PresentInv, NEW t \in Tasks, Resume(t)
  PROVE  PresentInv'
<1>1. PlatformGrows /\ UNCHANGED platform
  BY DEF Resume, CachesListed, BatchAnswered, AddReturns, FetchHeadListed, FetchedRequest,
         FinishedHeadListed, GotRequest, Updated, PlatformGrows
<1>2. OpsOK /\ StateOK /\ op[t] \in OpRecord /\ OpPresent(platform, pc[t], op[t])
  BY TypeInvParts DEF OpsOK, PresentInv, CallsPresent
<1>3. CASE CachesListed(t)
  <2>1. \A r \in Requests : r \in cache' \cup handled' => platform'[r] # "absent"
    BY <1>1, <1>2, <1>3 DEF CachesListed, PresentInv, LocalPresent, OpPresent
  <2>2. op[t].batch \in SUBSET Requests
    BY <1>2 DEF OpRecord
  <2>3. CallsPresent'
    BY <1>1, <1>3, <2>1, <2>2, DispatchPresent DEF CachesListed, PresentInv
  <2>4. LocalPresent' /\ HeadPresent' /\ HeldPresent'
    BY <1>1, <1>3, <2>1 DEF CachesListed, PresentInv, LocalPresent, HeadPresent, HeldPresent, historyVars
  <2>5. QED
    BY <2>3, <2>4 DEF PresentInv
<1>4. CASE BatchAnswered(t)
  <2>1. PICK record \in OpRecord :
          /\ record = [op[t] EXCEPT !.batch = {},
                 !.new = {r \in Committed(t) : op[t].seen[r] = "absent"},
                 !.known = @ \cup {r \in Committed(t) : op[t].seen[r] # "absent"}]
          /\ record.call = "add" /\ record.batch = {}
          /\ record.new \subseteq Committed(t)
          /\ record.known \subseteq op[t].known \cup Committed(t)
          /\ Settle(t, IF record.waits = {} THEN "idle" ELSE "in_flight", record, Committed(t))
    BY <1>2, <1>4, BatchOutcome
  <2>2. record.seen = op[t].seen
    BY <1>2, <2>1 DEF OpRecord
  <2>3. /\ Committed(t) \subseteq Requests
        /\ \A i \in DOMAIN head' : head'[i] \in Committed(t) \/ \E j \in DOMAIN head : head'[i] = head[j]
    BY <1>2, <1>4, BatchHead DEF StateOK
  <2>4. \A r \in Committed(t) : platform'[r] # "absent"
    BY <1>1, <1>2, <1>4, <2>3 DEF BatchAnswered, Answered, OpPresent, Committed
  <2>5. \A at \in {"idle", "in_flight"} : Fits(at, record) /\ OpPresent(platform', at, record)
    BY <1>1, <1>2, <2>1, <2>2, <2>4 DEF Fits, Places, ApiCalls, OpPresent
  <2>6. CallsPresent'
    <3> DEFINE at == IF record.waits = {} THEN "idle" ELSE "in_flight"
    <3>1. Fits(at, record) /\ OpPresent(platform', at, record)
      BY <2>5
    <3>2. QED
      BY <1>1, <2>1, <2>3, <2>4, <3>1, SettlePresent DEF PresentInv
  <2>7. LocalPresent' /\ HeldPresent'
    BY <1>1, <1>4, <2>4 DEF BatchAnswered, PresentInv, LocalPresent, HeldPresent
  <2>8. HeadPresent'
    BY <1>1, <2>3, <2>4 DEF PresentInv, HeadPresent
  <2>9. QED
    BY <2>6, <2>7, <2>8 DEF PresentInv
<1>5. CASE AddReturns(t)
  <2>1. OpPresent(platform', "idle", op[t])
    BY <1>1, <1>2 DEF OpPresent
  <2>2. CallsPresent'
    BY <1>1, <1>5, <2>1, AwaitsPresent DEF AddReturns, Returns, PresentInv
  <2>3. QED
    BY <1>1, <1>5, <2>2, ClientStillPresent DEF AddReturns, historyVars
<1>6. CASE FetchHeadListed(t)
  <2>1. PICK h \in HeadWithNews(t) : PopFrom(t, h, inProgress)
    BY <1>6 DEF FetchHeadListed
  <2>2. /\ h \in Seq(Requests)
        /\ \A i \in DOMAIN h : \/ \E j \in DOMAIN head : h[i] = head[j]
                               \/ op[t].seen[h[i]] = "pending"
    BY <1>2, ListedHead DEF StateOK
  <2>3. ASSUME NEW i \in DOMAIN h PROVE h[i] \in Requests
    BY <2>2, ElementOfSeq, LenProperties
  <2>4. \A i \in DOMAIN h : platform[h[i]] # "absent"
    BY <1>2, <2>2, <2>3 DEF PresentInv, HeadPresent, OpPresent
  <2>5. Popped(t, h, inProgress)
    BY <2>1, <2>2, PopOutcome
  <2>6. QED
    BY <1>2, <1>6, <2>4, <2>5, PoppedPresent DEF FetchHeadListed, StateOK
<1>7. CASE FetchedRequest(t)
  <2> DEFINE r == op[t].request
  <2>1. r \in Requests /\ platform[r] # "absent"
    BY <1>2, <1>7 DEF FetchedRequest, Answered, OpsOK, CallInv, OpPresent
  <2>2. CASE op[t].seen[r] = "absent"
    <3>1. Popped(t, head, inProgress \ {r})
      BY <1>2, <1>7, <2>2, PopOutcome DEF FetchedRequest, StateOK
    <3>2. inProgress \ {r} \in SUBSET Requests /\ inProgress \ {r} \subseteq inProgress
      BY <1>2 DEF StateOK
    <3>3. QED
      BY <1>7, <3>1, <3>2, PoppedPresent DEF FetchedRequest, PresentInv, HeadPresent
  <2>3. CASE op[t].seen[r] # "absent"
    <3>1. CallsPresent'
      BY <1>1, <1>7, <2>3, ReturnsPresent DEF FetchedRequest, PresentInv
    <3>2. HeldPresent'
      BY <1>1, <1>2, <1>7, <2>1, <2>3 DEF FetchedRequest, PresentInv, HeldPresent, StateOK, Held
    <3>3. LocalPresent' /\ HeadPresent'
      BY <1>1, <1>7, <2>3 DEF FetchedRequest, PresentInv, LocalPresent, HeadPresent, historyVars
    <3>4. QED
      BY <3>1, <3>2, <3>3 DEF PresentInv
  <2>4. QED
    BY <2>2, <2>3
<1>8. CASE FinishedHeadListed(t)
  <2>1. OpPresent(platform', "idle", [NewOp("finished", {}, NoRequest) EXCEPT !.finished = Finished])
    BY DEF OpPresent, NewOp, Nothing
  <2>2. CallsPresent'
    BY <1>1, <1>8, <2>1, AwaitsPresent DEF FinishedHeadListed, Verdict, Returns, PresentInv
  <2>3. /\ head' \in Seq(Requests)
        /\ \A i \in DOMAIN head' : \/ \E j \in DOMAIN head : head'[i] = head[j]
                                   \/ op[t].seen[head'[i]] = "pending"
    BY <1>2, <1>8, ListedHead DEF FinishedHeadListed, StateOK
  <2>4. ASSUME NEW i \in DOMAIN head' PROVE head'[i] \in Requests
    BY <2>3, ElementOfSeq, LenProperties
  <2>5. HeadPresent'
    BY <1>1, <1>2, <2>3, <2>4 DEF PresentInv, HeadPresent, OpPresent
  <2>6. LocalPresent' /\ HeldPresent'
    BY <1>1, <1>8 DEF FinishedHeadListed, PresentInv, LocalPresent, HeldPresent, historyVars
  <2>7. QED
    BY <2>2, <2>5, <2>6 DEF PresentInv
<1>9. CASE GotRequest(t)
  <2>1. op[t].request \in Requests
    BY <1>2, <1>9 DEF GotRequest, Answered, OpsOK, CallInv
  <2>2. CallsPresent'
    BY <1>1, <1>9, ReturnsPresent DEF GotRequest, PresentInv
  <2>3. LocalPresent'
    BY <1>1, <1>2, <1>9, <2>1 DEF GotRequest, PresentInv, LocalPresent, OpPresent, historyVars
  <2>4. HeadPresent' /\ HeldPresent'
    BY <1>1, <1>9 DEF GotRequest, PresentInv, HeadPresent, HeldPresent
  <2>5. QED
    BY <2>2, <2>3, <2>4 DEF PresentInv
<1>10. CASE Updated(t)
  <2>1. CallsPresent'
    BY <1>1, <1>10, ReturnsPresent DEF Updated, PresentInv
  <2>2. QED
    BY <1>1, <1>10, <2>1, ClientStillPresent DEF Updated, historyVars
<1>11. QED
  BY <1>3, <1>4, <1>5, <1>6, <1>7, <1>8, <1>9, <1>10 DEF Resume

LEMMA PresentFails ==
  ASSUME TypeInv, PresentInv, NEW t \in Tasks, Fail(t)
  PROVE  PresentInv'
<1>1. PlatformGrows
  BY DEF Fail, PlatformGrows
<1>2. CallsPresent'
  <2>1. CASE pc[t] = "batch_add"
    <3>1. Fits("idle", NoOp)
      BY NoOpType DEF Fits, Places
    <3>2. Settle(t, "idle", NoOp, {}) /\ OpPresent(platform', "idle", NoOp)
      BY <2>1, NewOpPresent DEF Fail, NoOp
    <3>3. QED
      BY <1>1, <3>1, <3>2, SettlePresent DEF PresentInv
  <2>2. CASE pc[t] # "batch_add"
    BY <1>1, <2>2, ReturnsPresent DEF Fail, PresentInv
  <2>3. QED
    BY <2>1, <2>2
<1>3. QED
  BY <1>1, <1>2, ClientStillPresent DEF Fail, historyVars

LEMMA PresentOthers ==
  ASSUME TypeInv, PresentInv, NEW r \in Requests, OtherAdds(r) \/ OtherHandles(r)
  PROVE  PresentInv'
<1>1. PlatformGrows
  BY DEF OtherAdds, OtherHandles, PlatformGrows, TypeInv, TypeOK
<1>2. CallsPresent'
  BY <1>1 DEF OtherAdds, OtherHandles, taskVars, PresentInv, CallsPresent, OpPresent, PlatformGrows
<1>3. QED
  BY <1>1, <1>2, ClientStillPresent DEF OtherAdds, OtherHandles, clientVars, taskVars, historyVars

LEMMA PresentStutters == PresentInv /\ UNCHANGED vars => PresentInv'
BY DEF PresentInv, CallsPresent, LocalPresent, HeadPresent, HeldPresent,
       vars, clientVars, taskVars, historyVars

LEMMA PresentStep == TypeInv /\ PresentInv /\ [Next]_vars => PresentInv'
BY PresentAnswers, PresentCalls, PresentResumes, PresentFails, PresentOthers, PresentStutters
   DEF Next, Step

LEMMA PresentAlways == Spec => []PresentInv
BY PresentInit, PresentStep, TypeCorrect, PTL DEF Spec

(* An add that reports a request as added or as present tells the truth,    *)
(* whichever calls it waited for and whatever the platform rejected.        *)
THEOREM NoFalseSuccess == Spec => []AddsTruthful
<1>1. PresentInv => AddsTruthful
  BY DEF PresentInv, CallsPresent, OpPresent, AddsTruthful
<1>2. QED
  BY <1>1, PresentAlways, PTL

-----------------------------------------------------------------------------
(* One write per request.  What a call is sending carries a marker of its   *)
(* own; what was confirmed once is cached or known as handled ever after.   *)

Sending(t) == IF pc[t] = "batch_add" THEN op[t].batch ELSE {}

SendsInv ==
  /\ added \subseteq cache \cup handled
  /\ \A t \in Tasks : Sending(t) \subseteq beingAdded /\ Sending(t) \cap added = {}
  /\ \A t, u \in Tasks : t # u => Sending(t) \cap Sending(u) = {}

(* A step that dispatches no batch and settles none.                        *)
LEMMA NothingSent ==
  ASSUME SendsInv, \A t \in Tasks : Sending(t)' \subseteq Sending(t),
         added \subseteq cache' \cup handled', UNCHANGED <<beingAdded, added>>
  PROVE  SendsInv'
<1>1. \A t \in Tasks : Sending(t)' \subseteq beingAdded' /\ Sending(t)' \cap added' = {}
  BY DEF SendsInv
<1>2. \A t, u \in Tasks : t # u => Sending(t)' \cap Sending(u)' = {}
  BY DEF SendsInv
<1>3. QED
  BY <1>1, <1>2 DEF SendsInv

LEMMA DispatchSends ==
  ASSUME TypeInv, SendsInv, NEW t \in Tasks, NEW b \in SUBSET Requests, Dispatch(t, b),
         cache \subseteq cache', handled \subseteq handled', UNCHANGED added
  PROVE  SendsInv'
<1> DEFINE known == b \cap (handled' \cup cache')
           waits == b \ (known \cup ToSend(b))
           record == [NewOp("add", ToSend(b), NoRequest) EXCEPT !.known = known, !.waits = waits]
<1>1. record.batch = ToSend(b)
  BY DEF NewOp
<1>2. /\ beingAdded' = beingAdded \cup ToSend(b)
      /\ \E at \in {"batch_add", "in_flight", "idle"} : Awaits(t, at, record)
  BY DEF Dispatch, Returns
<1> HIDE DEF record
<1>3. Sending(t)' \subseteq ToSend(b) /\ \A u \in Tasks : u # t => Sending(u)' = Sending(u)
  BY <1>1, <1>2 DEF Sending, Awaits, TypeInv, TypeOK
<1>4. ToSend(b) \cap beingAdded = {} /\ ToSend(b) \cap added = {}
  BY DEF ToSend, SendsInv
<1>5. \A u \in Tasks : Sending(u)' \subseteq beingAdded' /\ Sending(u)' \cap added' = {}
  BY <1>2, <1>3, <1>4 DEF SendsInv
<1>6. ASSUME NEW u \in Tasks, NEW v \in Tasks, u # v
      PROVE  Sending(u)' \cap Sending(v)' = {}
  <2>1. CASE u = t
    BY <1>3, <1>4, <1>6, <2>1 DEF SendsInv
  <2>2. CASE v = t
    BY <1>3, <1>4, <1>6, <2>2 DEF SendsInv
  <2>3. CASE u # t /\ v # t
    BY <1>3, <1>6, <2>3 DEF SendsInv
  <2>4. QED
    BY <2>1, <2>2, <2>3
<1>7. added' \subseteq cache' \cup handled'
  BY DEF SendsInv
<1>8. QED
  BY <1>5, <1>6, <1>7 DEF SendsInv

LEMMA SettleSends ==
  ASSUME TypeInv, SendsInv, NEW t \in Tasks, pc[t] = "batch_add",
         NEW at \in {"idle", "in_flight"}, NEW o, Fits(at, o),
         NEW committed \in SUBSET Requests, committed \subseteq op[t].batch,
         Settle(t, at, o, committed), added' = added \cup committed,
         committed \subseteq cache', cache \subseteq cache', UNCHANGED handled
  PROVE  SendsInv'
<1>1. /\ pc' = [pc EXCEPT ![t] = at] /\ beingAdded' = beingAdded \ op[t].batch
      /\ \A u \in Tasks \ {t} :
           op'[u] = [op[u] EXCEPT !.known = op'[u].known, !.waits = op'[u].waits]
  <2>1. pc' = [pc EXCEPT ![t] = at] /\ beingAdded' = beingAdded \ op[t].batch
    BY DEF Settle
  <2>2. QED
    BY <2>1, TypeInvParts, SettleTypes
<1>2. Sending(t)' = {} /\ Sending(t) = op[t].batch
  BY <1>1 DEF Sending, TypeInv, TypeOK
<1>3. ASSUME NEW u \in Tasks, u # t
      PROVE  Sending(u)' = Sending(u)
  <2> DEFINE known == op'[u].known
             waits == op'[u].waits
  <2>1. op'[u] = [op[u] EXCEPT !.known = known, !.waits = waits]
    BY <1>1, <1>3
  <2> HIDE DEF known, waits
  <2>2. op'[u].batch = op[u].batch
    BY <2>1 DEF TypeInv, TypeOK, OpRecord
  <2>3. QED
    BY <1>1, <1>3, <2>2 DEF Sending, TypeInv, TypeOK
<1>4. ASSUME NEW u \in Tasks
      PROVE  Sending(u)' \subseteq beingAdded' /\ Sending(u)' \cap added' = {}
  <2>1. CASE u = t
    BY <1>2, <2>1
  <2>2. CASE u # t
    <3>1. Sending(u)' = Sending(u) /\ Sending(u) \cap op[t].batch = {}
      BY <1>2, <1>3, <2>2 DEF SendsInv
    <3>2. Sending(u) \subseteq beingAdded /\ Sending(u) \cap added = {}
      BY DEF SendsInv
    <3>3. beingAdded' = beingAdded \ op[t].batch
      BY <1>1
    <3>4. Sending(u)' \subseteq beingAdded'
      BY <3>1, <3>2, <3>3
    <3>5. Sending(u)' \cap added' = {}
      BY <3>1, <3>2
    <3>6. QED
      BY <3>4, <3>5
  <2>3. QED
    BY <2>1, <2>2
<1>5. \A u, v \in Tasks : u # v => Sending(u)' \cap Sending(v)' = {}
  BY <1>2, <1>3 DEF SendsInv
<1>6. added' \subseteq cache' \cup handled'
  BY DEF SendsInv
<1>7. QED
  BY <1>4, <1>5, <1>6 DEF SendsInv

(* A task that goes on to an await other than the sending of a batch.       *)
LEMMA AwaitsSendsNothing ==
  ASSUME TypeInv, NEW t \in Tasks, NEW at, NEW o, at # "batch_add", Awaits(t, at, o)
  PROVE  \A u \in Tasks : Sending(u)' \subseteq Sending(u)
BY DEF Awaits, Sending, TypeInv, TypeOK

LEMMA PoppedSends ==
  ASSUME TypeInv, SendsInv, NEW t \in Tasks, NEW h, NEW progress, Popped(t, h, progress),
         UNCHANGED <<cache, handled, beingAdded, added>>
  PROVE  SendsInv'
<1>1. \E at \in {"idle", "get_request"} : \E o : Awaits(t, at, o)
  BY DEF Popped, Returns
<1>2. \A u \in Tasks : Sending(u)' \subseteq Sending(u)
  BY <1>1, AwaitsSendsNothing
<1>3. QED
  BY <1>2, NothingSent DEF SendsInv

LEMMA SendsInit == Init => SendsInv
BY DEF Init, SendsInv, Sending

LEMMA SendsAnswers ==
  ASSUME TypeInv, SendsInv, NEW t \in Tasks, Answer(t)
  PROVE  SendsInv'
<1>1. op[t] \in OpRecord
  BY DEF TypeInv, TypeOK
<1>2. UNCHANGED <<cache, handled, beingAdded, added, pc>>
  BY DEF Answer, AnswerRead, AnswerBatch, AnswerUpdate, clientVars, historyVars
<1>3. \E o : op' = [op EXCEPT ![t] = o] /\ o.batch = op[t].batch
  <2>1. /\ Reply(t).batch = op[t].batch
        /\ [Reply(t) EXCEPT !.seen = Nothing].batch = op[t].batch
        /\ \A rejected : [Reply(t) EXCEPT !.rejected = rejected].batch = op[t].batch
    BY <1>1 DEF Reply, OpRecord
  <2>2. CASE AnswerRead(t)
    BY <2>1, <2>2 DEF AnswerRead
  <2>3. CASE AnswerBatch(t)
    BY <2>1, <2>3 DEF AnswerBatch
  <2>4. CASE AnswerUpdate(t)
    BY <2>1, <2>4 DEF AnswerUpdate
  <2>5. QED
    BY <2>2, <2>3, <2>4 DEF Answer
<1>4. \A u \in Tasks : Sending(u)' \subseteq Sending(u)
  BY <1>2, <1>3 DEF Sending, TypeInv, TypeOK
<1>5. QED
  BY <1>2, <1>4, NothingSent DEF SendsInv

LEMMA SendsCalls ==
  ASSUME TypeInv, SendsInv, NEW t \in Tasks, Call(t)
  PROVE  SendsInv'
<1>1. CASE CallAdd(t)
  <2>1. PICK b \in SUBSET Requests :
          \/ Dispatch(t, b)
          \/ /\ Awaits(t, "list_requests", NewOp("add", b, NoRequest))
             /\ UNCHANGED beingAdded
    BY <1>1 DEF CallAdd
  <2>2. UNCHANGED <<cache, handled, added>>
    BY <1>1 DEF CallAdd, historyVars
  <2>3. CASE Dispatch(t, b)
    BY <2>2, <2>3, DispatchSends
  <2>4. CASE Awaits(t, "list_requests", NewOp("add", b, NoRequest)) /\ UNCHANGED beingAdded
    <3>1. \A u \in Tasks : Sending(u)' \subseteq Sending(u)
      BY <2>4, AwaitsSendsNothing
    <3>2. QED
      BY <2>2, <2>4, <3>1, NothingSent DEF SendsInv
  <2>5. QED
    BY <2>1, <2>3, <2>4
<1>2. CASE CallFetch(t) /\ ~(Len(head) <= 1)
  <2>1. Popped(t, head, inProgress)
    BY <1>2, PopOutcome DEF CallFetch, TypeInv, TypeOK
  <2>2. QED
    BY <1>2, <2>1, PoppedSends DEF CallFetch, historyVars
<1>3. ASSUME \/ CallFetch(t) /\ Len(head) <= 1
             \/ CallGet(t)
             \/ CallFinished(t)
             \/ CallMark(t)
             \/ CallReclaim(t)
      PROVE  SendsInv'
  <2>1. /\ \E at \in {"idle", "get_request", "list_head", "update_request"} : \E o : Awaits(t, at, o)
        /\ UNCHANGED <<beingAdded, added>>
    BY <1>3 DEF CallGet, CallFetch, CallFinished, Verdict, CallMark, CallReclaim, Returns,
                clientVars, historyVars
  <2>2. \A u \in Tasks : Sending(u)' \subseteq Sending(u)
    BY <2>1, AwaitsSendsNothing
  <2>3. added \subseteq cache' \cup handled'
    BY <1>3 DEF SendsInv, CallGet, CallFetch, CallFinished, CallMark, CallReclaim, clientVars
  <2>4. QED
    BY <2>1, <2>2, <2>3, NothingSent
<1>4. CASE CallFetch(t)
  BY <1>2, <1>3, <1>4
<1>5. CASE CallGet(t) \/ CallFinished(t) \/ CallMark(t) \/ CallReclaim(t)
  BY <1>3, <1>5
<1>6. QED
  BY <1>1, <1>4, <1>5 DEF Call

LEMMA SendsResumes ==
  ASSUME TypeInv, SendsInv, NEW t \in Tasks, Resume(t)
  PROVE  SendsInv'
<1>1. OpsOK /\ StateOK /\ op[t] \in OpRecord
  BY TypeInvParts DEF OpsOK
<1>2. CASE CachesListed(t)
  <2>1. op[t].batch \in SUBSET Requests
    BY <1>1 DEF OpRecord
  <2>2. QED
    BY <1>2, <2>1, DispatchSends DEF CachesListed, historyVars
<1>3. CASE BatchAnswered(t)
  <2>1. PICK record \in OpRecord :
          /\ record.call = "add"
          /\ Settle(t, IF record.waits = {} THEN "idle" ELSE "in_flight", record, Committed(t))
    BY <1>1, <1>3, BatchOutcome
  <2>2. Committed(t) \in SUBSET Requests /\ Committed(t) \subseteq op[t].batch
    BY <1>1 DEF Committed, OpRecord
  <2> DEFINE at == IF record.waits = {} THEN "idle" ELSE "in_flight"
  <2>3. at \in {"idle", "in_flight"} /\ Fits(at, record)
    BY <2>1 DEF Fits, Places, ApiCalls
  <2>4. QED
    BY <1>3, <2>1, <2>2, <2>3, SettleSends DEF BatchAnswered, Answered
<1>4. ASSUME NEW h \in Seq(Requests), NEW progress \in SUBSET Requests, PopFrom(t, h, progress),
             UNCHANGED <<cache, handled, beingAdded, added>>
      PROVE  SendsInv'
  BY <1>4, PopOutcome, PoppedSends
<1>5. CASE FetchHeadListed(t)
  <2>1. PICK h \in HeadWithNews(t) : PopFrom(t, h, inProgress)
    BY <1>5 DEF FetchHeadListed
  <2>2. QED
    BY <1>1, <1>4, <1>5, <2>1, ListedHead DEF FetchHeadListed, StateOK, historyVars
<1>6. CASE FetchedRequest(t) /\ op[t].seen[op[t].request] = "absent"
  <2>1. inProgress \ {op[t].request} \in SUBSET Requests
    BY <1>1 DEF StateOK
  <2>2. QED
    BY <1>1, <1>4, <1>6, <2>1 DEF FetchedRequest, StateOK, historyVars
<1>7. ASSUME \/ FetchedRequest(t) /\ op[t].seen[op[t].request] # "absent"
             \/ AddReturns(t)
             \/ FinishedHeadListed(t)
             \/ GotRequest(t)
             \/ Updated(t)
      PROVE  SendsInv'
  <2>1. (\E o : Awaits(t, "idle", o)) /\ UNCHANGED <<beingAdded, added>>
    BY <1>7 DEF AddReturns, FetchedRequest, FinishedHeadListed, Verdict, GotRequest, Updated,
                Returns, historyVars
  <2>2. \A u \in Tasks : Sending(u)' \subseteq Sending(u)
    BY <2>1, AwaitsSendsNothing
  <2>3. added \subseteq cache' \cup handled'
    BY <1>7 DEF SendsInv, AddReturns, FetchedRequest, FinishedHeadListed, GotRequest, Updated
  <2>4. QED
    BY <2>1, <2>2, <2>3, NothingSent
<1>8. CASE FetchedRequest(t)
  BY <1>6, <1>7, <1>8
<1>9. CASE AddReturns(t) \/ FinishedHeadListed(t) \/ GotRequest(t) \/ Updated(t)
  BY <1>7, <1>9
<1>10. QED
  BY <1>2, <1>3, <1>5, <1>8, <1>9 DEF Resume

LEMMA SendsFails ==
  ASSUME TypeInv, SendsInv, NEW t \in Tasks, Fail(t)
  PROVE  SendsInv'
<1>1. UNCHANGED <<cache, handled, added>>
  BY DEF Fail, historyVars
<1>2. CASE pc[t] = "batch_add"
  <2>1. Fits("idle", NoOp)
    BY NoOpType DEF Fits, Places
  <2>2. Settle(t, "idle", NoOp, {}) /\ added' = added \cup {}
    BY <1>1, <1>2 DEF Fail
  <2>3. QED
    BY <1>1, <1>2, <2>1, <2>2, SettleSends
<1>3. CASE pc[t] # "batch_add"
  <2>1. Awaits(t, "idle", NoOp) /\ UNCHANGED beingAdded
    BY <1>3 DEF Fail, Returns
  <2>2. \A u \in Tasks : Sending(u)' \subseteq Sending(u)
    BY <2>1, AwaitsSendsNothing
  <2>3. QED
    BY <1>1, <2>1, <2>2, NothingSent DEF SendsInv
<1>4. QED
  BY <1>2, <1>3

LEMMA SendsOthers ==
  SendsInv /\ (UNCHANGED vars \/ \E r \in Requests : OtherAdds(r) \/ OtherHandles(r)) => SendsInv'
BY DEF SendsInv, Sending, OtherAdds, OtherHandles, vars, clientVars, taskVars, historyVars

LEMMA SendsStep == TypeInv /\ SendsInv /\ [Next]_vars => SendsInv'
BY SendsAnswers, SendsCalls, SendsResumes, SendsFails, SendsOthers DEF Next, Step

(* No request is being sent by two calls, and none once the platform has    *)
(* confirmed it to this client, however its cache entry came and went.      *)
THEOREM OneWritePerRequest == Spec => []SendsOnce
<1>1. SendsInv => SendsOnce
  BY DEF SendsInv, Sending, SendsOnce
<1>2. QED
  BY <1>1, SendsInit, SendsStep, TypeCorrect, PTL DEF Spec

-----------------------------------------------------------------------------
(* One hand-out at a time.  A task claims the request it was handed and the *)
(* one it is looking up for a fetch; nobody else claims it, and it is in    *)
(* progress until it is marked as handled.                                  *)

LooksUp(t, r) == pc[t] = "get_request" /\ op[t].call = "fetch" /\ op[t].request = r

Claims(t, r) == holds[t].request = r \/ LooksUp(t, r)

Fetching(t) == pc[t] # "idle" /\ op[t].call = "fetch"

HandInv ==
  /\ done \subseteq handled
  /\ \A t, u \in Tasks, r \in Requests : t # u => ~(Claims(t, r) /\ Claims(u, r))
  /\ \A t \in Tasks, r \in Requests :
       /\ LooksUp(t, r) => r \in inProgress \ done
       /\ holds[t].request = r => IF holds[t].processing THEN r \in inProgress \ done ELSE r \in done
  /\ \A t \in Tasks : Fetching(t) => ~holds[t].processing

(* A step in which nobody fetches, marks or reclaims.                       *)
LEMMA NothingHanded ==
  ASSUME HandInv, handled \subseteq handled', UNCHANGED <<holds, done, inProgress>>,
         \A t \in Tasks, r \in Requests : LooksUp(t, r)' => LooksUp(t, r),
         \A t \in Tasks : Fetching(t)' => Fetching(t) \/ ~holds[t].processing
  PROVE  HandInv'
<1>1. \A t \in Tasks, r \in Requests : Claims(t, r)' => Claims(t, r)
  BY DEF Claims
<1>2. \A t, u \in Tasks, r \in Requests : t # u => ~(Claims(t, r)' /\ Claims(u, r)')
  BY <1>1 DEF HandInv
<1>3. \A t \in Tasks, r \in Requests :
        /\ LooksUp(t, r)' => r \in inProgress' \ done'
        /\ holds'[t].request = r => IF holds'[t].processing THEN r \in inProgress' \ done' ELSE r \in done'
  BY DEF HandInv
<1>4. \A t \in Tasks : Fetching(t)' => ~holds'[t].processing
  BY DEF HandInv
<1>5. done' \subseteq handled'
  BY DEF HandInv
<1>6. QED
  BY <1>2, <1>3, <1>4, <1>5 DEF HandInv

(* A task goes on to an await: what it looks up and fetches then.           *)
LEMMA AwaitsLooksUp ==
  ASSUME TypeInv, NEW t \in Tasks, NEW at, NEW o, Awaits(t, at, o)
  PROVE  /\ \A u \in Tasks, r \in Requests : u # t => LooksUp(u, r)' = LooksUp(u, r)
         /\ \A u \in Tasks : u # t => Fetching(u)' = Fetching(u)
         /\ \A r \in Requests : LooksUp(t, r)' <=> at = "get_request" /\ o.call = "fetch" /\ o.request = r
         /\ Fetching(t)' <=> at # "idle" /\ o.call = "fetch"
BY DEF Awaits, LooksUp, Fetching, TypeInv, TypeOK

LEMMA SettleLooksUp ==
  ASSUME TypeInv, NEW t \in Tasks, NEW at \in {"idle", "in_flight"}, NEW o, Fits(at, o),
         NEW committed \in SUBSET Requests, Settle(t, at, o, committed)
  PROVE  /\ \A u \in Tasks, r \in Requests : LooksUp(u, r)' => LooksUp(u, r)
         /\ \A u \in Tasks : Fetching(u)' => Fetching(u)
<1>1. /\ pc' = [pc EXCEPT ![t] = at] /\ op'[t] = o
      /\ \A u \in Tasks \ {t} :
           op'[u] = [op[u] EXCEPT !.known = op'[u].known, !.waits = op'[u].waits]
  BY TypeInvParts, SettleTypes
<1>2. ASSUME NEW u \in Tasks, u # t
      PROVE  /\ pc'[u] = pc[u]
             /\ op'[u].call = op[u].call /\ op'[u].request = op[u].request
  <2> DEFINE known == op'[u].known
             waits == op'[u].waits
  <2>1. op'[u] = [op[u] EXCEPT !.known = known, !.waits = waits]
    BY <1>1, <1>2
  <2> HIDE DEF known, waits
  <2>2. op[u] \in OpRecord /\ pc'[u] = pc[u]
    BY <1>1, <1>2 DEF TypeInv, TypeOK
  <2>3. QED
    BY <2>1, <2>2 DEF OpRecord
<1>3. pc'[t] = at /\ at # "get_request" /\ (at = "in_flight" => op'[t].call = "add")
  BY <1>1 DEF TypeInv, TypeOK, Fits
<1>4. QED
  BY <1>2, <1>3 DEF LooksUp, Fetching

LEMMA PoppedHands ==
  ASSUME TypeInv, HandInv, NEW t \in Tasks, NEW h, NEW progress \in SUBSET Requests,
         Popped(t, h, progress), ~holds[t].processing,
         progress # inProgress => \E r \in Requests : LooksUp(t, r) /\ progress = inProgress \ {r},
         UNCHANGED <<handled, done>>
  PROVE  HandInv'
<1>1. ASSUME NEW u \in Tasks, u # t, NEW r \in Requests, Claims(u, r)
      PROVE  r \in progress \cup done
  BY <1>1 DEF HandInv, Claims
<1>2. \A r \in Requests : holds[t].request = r => r \in done
  BY DEF HandInv
<1>3. CASE head' = <<>> /\ inProgress' = progress /\ Returns(t, NoOp) /\ UNCHANGED holds
  <2>1. /\ \A u \in Tasks, r \in Requests : u # t => LooksUp(u, r)' = LooksUp(u, r)
        /\ \A u \in Tasks : u # t => Fetching(u)' = Fetching(u)
        /\ \A r \in Requests : ~LooksUp(t, r)'
        /\ ~Fetching(t)'
    BY <1>3, AwaitsLooksUp DEF Returns
  <2>2. \A u \in Tasks, r \in Requests : Claims(u, r)' => Claims(u, r)
    BY <1>3, <2>1 DEF Claims
  <2>3. ASSUME NEW u \in Tasks, NEW r \in Requests
        PROVE  /\ LooksUp(u, r)' => r \in inProgress' \ done'
               /\ holds'[u].request = r =>
                    IF holds'[u].processing THEN r \in inProgress' \ done' ELSE r \in done'
    <3>1. CASE u = t
      BY <1>2, <1>3, <2>1, <3>1
    <3>2. CASE u # t
      BY <1>1, <1>3, <2>1, <3>2 DEF HandInv, Claims
    <3>3. QED
      BY <3>1, <3>2
  <2>4. \A u, v \in Tasks, r \in Requests : u # v => ~(Claims(u, r)' /\ Claims(v, r)')
    BY <2>2 DEF HandInv
  <2>5. \A u \in Tasks : Fetching(u)' => ~holds'[u].processing
    BY <1>3, <2>1 DEF HandInv
  <2>6. QED
    BY <2>3, <2>4, <2>5 DEF HandInv
<1>4. ASSUME NEW q \in Requests \ (progress \cup handled), inProgress' = progress \cup {q},
             \/ holds' = [holds EXCEPT ![t] = Held(q, FALSE, TRUE)] /\ Returns(t, NoOp)
             \/ Awaits(t, "get_request", NewOp("fetch", {}, q)) /\ UNCHANGED holds
      PROVE  HandInv'
  <2>1. q \notin done
    BY DEF HandInv
  <2>2. \A u \in Tasks : u # t => ~Claims(u, q)
    BY <1>1, <2>1
  <2>3. /\ \A u \in Tasks, r \in Requests : u # t => LooksUp(u, r)' = LooksUp(u, r)
        /\ \A u \in Tasks : u # t => Fetching(u)' = Fetching(u)
        /\ \A u \in Tasks : u # t => holds'[u] = holds[u]
    <3>1. \A u \in Tasks : u # t => holds'[u] = holds[u]
      <4>1. /\ DOMAIN holds = Tasks
            /\ \/ holds' = [holds EXCEPT ![t] = Held(q, FALSE, TRUE)]
               \/ holds' = holds
        BY <1>4 DEF TypeInv, TypeOK
      <4>2. QED
        BY <4>1
    <3>2. PICK at, o : Awaits(t, at, o)
      BY <1>4 DEF Returns
    <3>3. QED
      BY <3>1, <3>2, AwaitsLooksUp
  <2>4. CASE holds' = [holds EXCEPT ![t] = Held(q, FALSE, TRUE)] /\ Returns(t, NoOp)
    <3>1. /\ holds'[t].request = q /\ holds'[t].processing
          /\ ~Fetching(t)' /\ \A r \in Requests : ~LooksUp(t, r)'
      BY <2>4, AwaitsLooksUp DEF Returns, TypeInv, TypeOK, Held
    <3>2. ASSUME NEW u \in Tasks, NEW r \in Requests
          PROVE  /\ LooksUp(u, r)' => r \in inProgress' \ done'
                 /\ holds'[u].request = r =>
                      IF holds'[u].processing THEN r \in inProgress' \ done' ELSE r \in done'
      <4>1. CASE u = t
        BY <1>4, <2>1, <3>1, <4>1
      <4>2. CASE u # t
        BY <1>1, <1>4, <2>3, <4>2 DEF HandInv, Claims
      <4>3. QED
        BY <4>1, <4>2
    <3>3. \A r \in Requests : Claims(t, r)' => r = q
      BY <3>1 DEF Claims
    <3>4. \A u \in Tasks, r \in Requests : u # t => Claims(u, r)' = Claims(u, r)
      BY <2>3 DEF Claims
    <3>5. \A u, v \in Tasks, r \in Requests : u # v => ~(Claims(u, r)' /\ Claims(v, r)')
      BY <2>2, <3>3, <3>4 DEF HandInv
    <3>6. \A u \in Tasks : Fetching(u)' => ~holds'[u].processing
      BY <2>3, <3>1 DEF HandInv
    <3>7. QED
      BY <3>2, <3>5, <3>6 DEF HandInv
  <2>5. CASE Awaits(t, "get_request", NewOp("fetch", {}, q)) /\ UNCHANGED holds
    <3>1. \A r \in Requests : LooksUp(t, r)' <=> r = q
      BY <2>5, AwaitsLooksUp, NewOpType
    <3>2. ASSUME NEW u \in Tasks, NEW r \in Requests
          PROVE  /\ LooksUp(u, r)' => r \in inProgress' \ done'
                 /\ holds'[u].request = r =>
                      IF holds'[u].processing THEN r \in inProgress' \ done' ELSE r \in done'
      <4>1. CASE u = t
        BY <1>2, <1>4, <2>1, <2>5, <3>1, <4>1
      <4>2. CASE u # t
        BY <1>1, <1>4, <2>3, <4>2 DEF HandInv, Claims
      <4>3. QED
        BY <4>1, <4>2
    <3>3. \A r \in Requests : Claims(t, r)' => r = q \/ holds[t].request = r
      BY <2>5, <3>1 DEF Claims
    <3>4. \A u \in Tasks, r \in Requests : u # t => Claims(u, r)' = Claims(u, r)
      BY <2>3 DEF Claims
    <3>5. \A u, v \in Tasks, r \in Requests : u # v => ~(Claims(u, r)' /\ Claims(v, r)')
      BY <2>2, <3>3, <3>4 DEF HandInv, Claims
    <3>6. \A u \in Tasks : Fetching(u)' => ~holds'[u].processing
      BY <2>3, <2>5 DEF HandInv
    <3>7. QED
      BY <3>2, <3>5, <3>6 DEF HandInv
  <2>6. QED
    BY <1>4, <2>4, <2>5
<1>5. QED
  BY <1>3, <1>4 DEF Popped

LEMMA HandInit == Init => HandInv
<1> SUFFICES ASSUME Init PROVE HandInv
  OBVIOUS
<1>1. \A t \in Tasks, r \in Requests : ~Claims(t, r) /\ ~LooksUp(t, r) /\ holds[t].request # r
  BY DEF Init, Claims, LooksUp, HoldsNothing, Held
<1>2. \A t \in Tasks : ~Fetching(t)
  BY DEF Init, Fetching
<1>3. done \subseteq handled
  BY DEF Init
<1>4. QED
  BY <1>1, <1>2, <1>3 DEF HandInv

LEMMA HandAnswers ==
  ASSUME TypeInv, HandInv, NEW t \in Tasks, Answer(t)
  PROVE  HandInv'
<1>1. op[t] \in OpRecord
  BY DEF TypeInv, TypeOK
<1>2. UNCHANGED <<handled, inProgress, done, holds, pc>>
  BY DEF Answer, AnswerRead, AnswerBatch, AnswerUpdate, clientVars, historyVars
<1>3. \E o : op' = [op EXCEPT ![t] = o] /\ o.call = op[t].call /\ o.request = op[t].request
  <2> DEFINE Same(o) == o.call = op[t].call /\ o.request = op[t].request
  <2>1. /\ Same(Reply(t))
        /\ Same([Reply(t) EXCEPT !.seen = Nothing])
        /\ \A rejected : Same([Reply(t) EXCEPT !.rejected = rejected])
    BY <1>1 DEF Reply, OpRecord
  <2>2. CASE AnswerRead(t)
    BY <2>1, <2>2 DEF AnswerRead
  <2>3. CASE AnswerBatch(t)
    <3>1. PICK rejected : op' = [op EXCEPT ![t] = [Reply(t) EXCEPT !.rejected = rejected]]
      BY <2>3 DEF AnswerBatch
    <3>2. QED
      BY <2>1, <3>1
  <2>4. CASE AnswerUpdate(t)
    BY <2>1, <2>4 DEF AnswerUpdate
  <2>5. QED
    BY <2>2, <2>3, <2>4 DEF Answer
<1>4. /\ \A u \in Tasks, r \in Requests : LooksUp(u, r)' => LooksUp(u, r)
      /\ \A u \in Tasks : Fetching(u)' => Fetching(u)
  BY <1>2, <1>3 DEF LooksUp, Fetching, TypeInv, TypeOK
<1>5. QED
  BY <1>2, <1>4, NothingHanded

(* A task that goes on in a call that fetches nothing, or has not popped    *)
(* the head yet.                                                            *)
LEMMA AwaitsHandsNothing ==
  ASSUME TypeInv, HandInv, NEW t \in Tasks, NEW at, NEW o, Awaits(t, at, o),
         handled \subseteq handled', UNCHANGED <<holds, done, inProgress>>,
         o.call = "fetch" /\ at # "idle" => at # "get_request" /\ ~holds[t].processing
  PROVE  HandInv'
<1>1. /\ \A u \in Tasks, r \in Requests : LooksUp(u, r)' => LooksUp(u, r)
      /\ \A u \in Tasks : Fetching(u)' => Fetching(u) \/ ~holds[u].processing
  BY AwaitsLooksUp
<1>2. QED
  BY <1>1, NothingHanded

LEMMA DispatchHandsNothing ==
  ASSUME TypeInv, HandInv, NEW t \in Tasks, NEW b, Dispatch(t, b),
         handled \subseteq handled', UNCHANGED <<holds, done, inProgress>>
  PROVE  HandInv'
<1> DEFINE known == b \cap (handled' \cup cache')
           waits == b \ (known \cup ToSend(b))
           record == [NewOp("add", ToSend(b), NoRequest) EXCEPT !.known = known, !.waits = waits]
<1>1. record.call = "add"
  BY DEF NewOp
<1>2. PICK at \in {"batch_add", "in_flight", "idle"} : Awaits(t, at, record)
  BY DEF Dispatch, Returns
<1> HIDE DEF record
<1>3. record.call # "fetch"
  BY <1>1
<1>4. /\ \A u \in Tasks, r \in Requests : LooksUp(u, r)' => LooksUp(u, r)
      /\ \A u \in Tasks : Fetching(u)' => Fetching(u) \/ ~holds[u].processing
  BY <1>2, <1>3, AwaitsLooksUp
<1>5. QED
  BY <1>4, NothingHanded

(* A task marks or reclaims its request, which then is nobody's any more.   *)
LEMMA MarkedGivesUp ==
  ASSUME TypeInv, HandInv, NEW t \in Tasks, CallMark(t) \/ CallReclaim(t)
  PROVE  HandInv'
<1>1. PICK r \in Requests : holds[t].request = r
  <2>1. holds[t] # HoldsNothing
    BY DEF CallMark, CallReclaim, HoldsNothing, Held
  <2>2. QED
    BY <2>1 DEF TypeInv, TypeOK
<1>2. done \subseteq handled /\ holds \in [Tasks -> [request : Requests, stamped : BOOLEAN,
                                                   processing : BOOLEAN] \cup {HoldsNothing}]
  BY DEF HandInv, TypeInv, TypeOK
<1>3. /\ \E o : Awaits(t, "update_request", o) /\ o.call # "fetch"
      /\ inProgress' = inProgress \ {r}
      /\ done \subseteq done' \cup {r} /\ done' \subseteq done \cup {r}
      /\ done' \subseteq handled'
  <2>1. NewOp("mark", {}, r).call # "fetch" /\ NewOp("reclaim", {}, r).call # "fetch"
    BY DEF NewOp
  <2>2. QED
    BY <1>1, <1>2, <2>1 DEF CallMark, CallReclaim
<1>4. /\ \E h : holds' = [holds EXCEPT ![t] = h]
      /\ ~holds'[t].processing
      /\ \A q \in Requests : holds'[t].request = q => q = r /\ r \in done'
  <2>1. CASE holds' = [holds EXCEPT ![t] = HoldsNothing]
    BY <1>2, <2>1 DEF HoldsNothing, Held
  <2>2. CASE CallMark(t) /\ holds' = [holds EXCEPT ![t] = Held(r, TRUE, FALSE)]
    <3>1. holds'[t] = Held(r, TRUE, FALSE)
      BY <1>2, <2>2
    <3>2. r \in done'
      BY <1>1, <2>2 DEF CallMark
    <3>3. ~holds'[t].processing /\ holds'[t].request = r
      BY <3>1 DEF Held
    <3>4. QED
      BY <2>2, <3>2, <3>3
  <2>3. QED
    BY <1>1, <2>1, <2>2 DEF CallMark, CallReclaim
<1>5. /\ \A u \in Tasks, q \in Requests : u # t => LooksUp(u, q)' = LooksUp(u, q)
      /\ \A u \in Tasks : u # t => Fetching(u)' = Fetching(u)
      /\ \A q \in Requests : ~LooksUp(t, q)'
      /\ ~Fetching(t)'
  BY <1>3, AwaitsLooksUp
<1>6. \A u \in Tasks : u # t => holds'[u] = holds[u]
  BY <1>2, <1>4
<1>7. \A u \in Tasks, q \in Requests : Claims(u, q)' => Claims(u, q)
  BY <1>1, <1>4, <1>5, <1>6 DEF Claims
<1>8. \A u \in Tasks : u # t => ~Claims(u, r)
  BY <1>1 DEF HandInv, Claims
<1>9. ASSUME NEW u \in Tasks, NEW q \in Requests
      PROVE  /\ LooksUp(u, q)' => q \in inProgress' \ done'
             /\ holds'[u].request = q =>
                  IF holds'[u].processing THEN q \in inProgress' \ done' ELSE q \in done'
  <2>1. CASE u = t
    BY <1>4, <1>5, <2>1
  <2>2. CASE u # t
    <3>1. Claims(u, q) => q # r
      BY <1>8, <2>2
    <3>2. LooksUp(u, q)' = LooksUp(u, q) /\ holds'[u] = holds[u]
      BY <1>5, <1>6, <2>2
    <3>3. QED
      BY <1>3, <3>1, <3>2 DEF HandInv, Claims
  <2>3. QED
    BY <2>1, <2>2
<1>10. \A u, v \in Tasks, q \in Requests : u # v => ~(Claims(u, q)' /\ Claims(v, q)')
  BY <1>7 DEF HandInv
<1>11. \A u \in Tasks : Fetching(u)' => ~holds'[u].processing
  BY <1>4, <1>5, <1>6 DEF HandInv
<1>12. QED
  BY <1>3, <1>9, <1>10, <1>11 DEF HandInv

LEMMA HandCalls ==
  ASSUME TypeInv, HandInv, NEW t \in Tasks, Call(t)
  PROVE  HandInv'
<1>1. CASE CallAdd(t)
  <2>1. UNCHANGED <<handled, holds, done, inProgress>>
    BY <1>1 DEF CallAdd, historyVars
  <2>2. PICK b : \/ Dispatch(t, b)
                 \/ Awaits(t, "list_requests", NewOp("add", b, NoRequest))
    BY <1>1 DEF CallAdd
  <2>3. NewOp("add", b, NoRequest).call # "fetch"
    BY DEF NewOp
  <2>4. CASE Dispatch(t, b)
    BY <2>1, <2>4, DispatchHandsNothing
  <2>5. CASE Awaits(t, "list_requests", NewOp("add", b, NoRequest))
    BY <2>1, <2>3, <2>5, AwaitsHandsNothing
  <2>6. QED
    BY <2>2, <2>4, <2>5
<1>2. CASE CallGet(t)
  <2>1. UNCHANGED <<handled, holds, done, inProgress>>
    BY <1>2 DEF CallGet, clientVars, historyVars
  <2>2. \A r : NewOp("get", {}, r).call # "fetch" /\ NoOp.call # "fetch"
    BY DEF NewOp, NoOp
  <2>3. QED
    BY <1>2, <2>1, <2>2, AwaitsHandsNothing DEF CallGet, Returns
<1>3. CASE CallFetch(t) /\ Len(head) <= 1
  BY <1>3, AwaitsHandsNothing DEF CallFetch, historyVars
<1>4. CASE CallFetch(t) /\ ~(Len(head) <= 1)
  <2>1. Popped(t, head, inProgress)
    BY <1>4, PopOutcome DEF CallFetch, TypeInv, TypeOK
  <2>2. QED
    BY <1>4, <2>1, PoppedHands DEF CallFetch, historyVars, TypeInv, TypeOK
<1>5. CASE CallFinished(t)
  <2>1. UNCHANGED <<handled, holds, done, inProgress>>
    BY <1>5 DEF CallFinished, clientVars, historyVars
  <2>2. /\ NewOp("finished", {}, NoRequest).call # "fetch"
        /\ [NewOp("finished", {}, NoRequest) EXCEPT !.finished = Finished].call # "fetch"
    BY DEF NewOp
  <2>3. \E at, o : Awaits(t, at, o) /\ o.call # "fetch"
    BY <1>5, <2>2 DEF CallFinished, Verdict, Returns
  <2>4. QED
    BY <2>1, <2>3, AwaitsHandsNothing
<1>6. CASE CallFetch(t)
  BY <1>3, <1>4, <1>6
<1>7. QED
  BY <1>1, <1>2, <1>5, <1>6, MarkedGivesUp DEF Call

LEMMA HandResumes ==
  ASSUME TypeInv, HandInv, NEW t \in Tasks, Resume(t)
  PROVE  HandInv'
<1>1. OpsOK /\ StateOK /\ op[t] \in OpRecord
  BY TypeInvParts DEF OpsOK
<1>2. FetchHeadListed(t) \/ FetchedRequest(t) => ~holds[t].processing
  BY DEF HandInv, Fetching, Answered, FetchHeadListed, FetchedRequest
<1>3. CASE CachesListed(t)
  BY <1>3, DispatchHandsNothing DEF CachesListed, historyVars
<1>4. CASE BatchAnswered(t)
  <2>1. PICK record \in OpRecord :
          /\ record.call = "add"
          /\ Settle(t, IF record.waits = {} THEN "idle" ELSE "in_flight", record, Committed(t))
    BY <1>1, <1>4, BatchOutcome
  <2>2. Committed(t) \in SUBSET Requests
    BY <1>1 DEF Committed, OpRecord
  <2> DEFINE at == IF record.waits = {} THEN "idle" ELSE "in_flight"
  <2>3. at \in {"idle", "in_flight"} /\ Fits(at, record)
    BY <2>1 DEF Fits, Places, ApiCalls
  <2>4. /\ \A u \in Tasks, r \in Requests : LooksUp(u, r)' => LooksUp(u, r)
        /\ \A u \in Tasks : Fetching(u)' => Fetching(u)
    BY <2>1, <2>2, <2>3, SettleLooksUp
  <2>5. QED
    BY <1>4, <2>4, NothingHanded DEF BatchAnswered
<1>5. CASE FetchHeadListed(t)
  <2>1. PICK h \in HeadWithNews(t) : PopFrom(t, h, inProgress)
    BY <1>5 DEF FetchHeadListed
  <2>2. Popped(t, h, inProgress)
    BY <1>1, <2>1, ListedHead, PopOutcome DEF StateOK
  <2>3. QED
    BY <1>1, <1>2, <1>5, <2>2, PoppedHands DEF FetchHeadListed, StateOK, historyVars
<1>6. CASE FetchedRequest(t)
  <2> DEFINE r == op[t].request
  <2>1. r \in Requests /\ LooksUp(t, r)
    BY <1>1, <1>6 DEF FetchedRequest, Answered, OpsOK, CallInv, LooksUp
  <2>2. CASE op[t].seen[r] = "absent"
    <3>1. Popped(t, head, inProgress \ {r})
      BY <1>1, <1>6, <2>2, PopOutcome DEF FetchedRequest, StateOK
    <3>2. inProgress \ {r} \in SUBSET Requests /\ ~holds[t].processing
      BY <1>1, <1>2, <1>6 DEF FetchedRequest, StateOK
    <3>3. UNCHANGED <<handled, done>>
      BY <1>6 DEF FetchedRequest, historyVars
    <3>4. QED
      BY <2>1, <3>1, <3>2, <3>3, PoppedHands
  <2>3. CASE op[t].seen[r] # "absent"
    <3>1. PICK b \in BOOLEAN : holds' = [holds EXCEPT ![t] = Held(r, b, TRUE)]
      BY <1>6, <2>3 DEF FetchedRequest
    <3>2. /\ \A u \in Tasks : u # t => holds'[u] = holds[u]
          /\ holds'[t].request = r /\ holds'[t].processing
      BY <1>1, <3>1 DEF StateOK, Held
    <3>3. UNCHANGED <<handled, inProgress, done>> /\ Awaits(t, "idle", NoOp)
      BY <1>6, <2>3 DEF FetchedRequest, historyVars, Returns
    <3>4. /\ \A u \in Tasks, q \in Requests : u # t => LooksUp(u, q)' = LooksUp(u, q)
          /\ \A u \in Tasks : u # t => Fetching(u)' = Fetching(u)
          /\ \A q \in Requests : ~LooksUp(t, q)'
          /\ ~Fetching(t)'
      BY <3>3, AwaitsLooksUp
    <3>5. \A u \in Tasks, q \in Requests : Claims(u, q)' => Claims(u, q)
      BY <2>1, <3>2, <3>4 DEF Claims
    <3>6. ASSUME NEW u \in Tasks, NEW q \in Requests
          PROVE  /\ LooksUp(u, q)' => q \in inProgress' \ done'
                 /\ holds'[u].request = q =>
                      IF holds'[u].processing THEN q \in inProgress' \ done' ELSE q \in done'
      <4>1. CASE u = t
        BY <2>1, <3>2, <3>3, <3>4, <4>1 DEF HandInv
      <4>2. CASE u # t
        BY <3>2, <3>3, <3>4, <4>2 DEF HandInv
      <4>3. QED
        BY <4>1, <4>2
    <3>7. \A u, v \in Tasks, q \in Requests : u # v => ~(Claims(u, q)' /\ Claims(v, q)')
      BY <3>5 DEF HandInv
    <3>8. \A u \in Tasks : Fetching(u)' => ~holds'[u].processing
      BY <3>2, <3>4 DEF HandInv
    <3>9. done' \subseteq handled'
      BY <3>3 DEF HandInv
    <3>10. QED
      BY <3>6, <3>7, <3>8, <3>9 DEF HandInv
  <2>4. QED
    BY <2>2, <2>3
<1>7. ASSUME \/ AddReturns(t)
             \/ FinishedHeadListed(t)
             \/ GotRequest(t)
             \/ Updated(t)
      PROVE  HandInv'
  <2>1. \E o : Awaits(t, "idle", o)
    BY <1>7 DEF AddReturns, FinishedHeadListed, Verdict, GotRequest, Updated, Returns
  <2>2. handled \subseteq handled' /\ UNCHANGED <<holds, done, inProgress>>
    BY <1>7 DEF AddReturns, FinishedHeadListed, GotRequest, Updated, historyVars
  <2>3. QED
    BY <2>1, <2>2, AwaitsHandsNothing
<1>8. CASE AddReturns(t) \/ FinishedHeadListed(t) \/ GotRequest(t) \/ Updated(t)
  BY <1>7, <1>8
<1>9. QED
  BY <1>3, <1>4, <1>5, <1>6, <1>8 DEF Resume

LEMMA HandFails ==
  ASSUME TypeInv, HandInv, NEW t \in Tasks, Fail(t)
  PROVE  HandInv'
<1>1. UNCHANGED <<handled, holds, done, inProgress>>
  BY DEF Fail, historyVars
<1>2. CASE pc[t] = "batch_add"
  <2>1. Fits("idle", NoOp) /\ Settle(t, "idle", NoOp, {})
    BY <1>2, NoOpType DEF Fail, Fits, Places
  <2>2. /\ \A u \in Tasks, r \in Requests : LooksUp(u, r)' => LooksUp(u, r)
        /\ \A u \in Tasks : Fetching(u)' => Fetching(u)
    BY <2>1, SettleLooksUp
  <2>3. QED
    BY <1>1, <2>2, NothingHanded
<1>3. CASE pc[t] # "batch_add"
  BY <1>1, <1>3, AwaitsHandsNothing DEF Fail, Returns
<1>4. QED
  BY <1>2, <1>3

LEMMA HandOthers ==
  HandInv /\ (UNCHANGED vars \/ \E r \in Requests : OtherAdds(r) \/ OtherHandles(r)) => HandInv'
BY DEF HandInv, Claims, LooksUp, Fetching, OtherAdds, OtherHandles,
       vars, clientVars, taskVars, historyVars

LEMMA HandStep == TypeInv /\ HandInv /\ [Next]_vars => HandInv'
BY HandAnswers, HandCalls, HandResumes, HandFails, HandOthers DEF Next, Step

LEMMA HandAlways == Spec => []HandInv
BY HandInit, HandStep, TypeCorrect, PTL DEF Spec

(* No request is in two tasks' hands, and none that was marked as handled   *)
(* and not reclaimed since is in anybody's, however calls interleave.       *)
THEOREM HandsOutOnce == Spec => []HandedOutOnce
<1>1. HandInv => HandedOutOnce
  BY DEF HandInv, Claims, HandedOutOnce, Holding
<1>2. QED
  BY <1>1, HandAlways, PTL

-----------------------------------------------------------------------------
(* The client is a work queue to its tasks.                                 *)

Queued == {r \in Requests : platform[r] # "absent"}
Holder == [t \in Tasks |-> IF holds[t].processing THEN holds[t].request ELSE NoRequest]

Inv == TypeInv /\ PresentInv /\ HandInv

LEMMA Enqueues ==
  ASSUME PlatformGrows, UNCHANGED <<holds, done>>
  PROVE  Work!Enqueue
<1>1. Queued \subseteq Queued' /\ Queued' \subseteq Requests
  BY DEF Queued, PlatformGrows
<1>2. QED
  BY <1>1 DEF Work!Enqueue, Queued

LEMMA HandsOver ==
  ASSUME Inv, NEW t \in Tasks, ~holds[t].processing,
         NEW r \in Requests, platform[r] # "absent", r \notin done,
         \A u \in Tasks : u # t => ~Claims(u, r),
         NEW b \in BOOLEAN, holds' = [holds EXCEPT ![t] = Held(r, b, TRUE)],
         UNCHANGED <<platform, done>>
  PROVE  Work!Hand(t, r)
<1>1. holds'[t].processing /\ holds'[t].request = r /\ \A u \in Tasks : u # t => holds'[u] = holds[u]
  BY DEF Inv, TypeInv, TypeOK, Held
<1>2. Holder[t] = NoRequest
  BY DEF Holder
<1>3. Holder' = [Holder EXCEPT ![t] = r]
  <2>1. ASSUME NEW u \in Tasks
        PROVE  Holder'[u] = IF u = t THEN r ELSE Holder[u]
    <3>1. Holder'[u] = IF holds'[u].processing THEN holds'[u].request ELSE NoRequest
      BY DEF Holder
    <3>2. Holder[u] = IF holds[u].processing THEN holds[u].request ELSE NoRequest
      BY DEF Holder
    <3> HIDE DEF Holder
    <3>3. QED
      BY <1>1, <3>1, <3>2
  <2>2. Holder' = [u \in Tasks |-> Holder'[u]] /\ Holder = [u \in Tasks |-> Holder[u]]
    BY DEF Holder
  <2> HIDE DEF Holder
  <2>3. QED
    BY <2>1, <2>2
<1>4. \A u \in Tasks : Holder[u] # r
  BY <1>2 DEF Holder, Claims
<1>5. r \in Queued \ done /\ UNCHANGED <<Queued, done>>
  BY DEF Queued
<1>6. QED
  BY <1>2, <1>3, <1>4, <1>5 DEF Work!Hand, Work!Free, Queued, Holder

LEMMA PoppedRefines ==
  ASSUME Inv, NEW t \in Tasks, NEW h, NEW progress, Popped(t, h, progress), ~holds[t].processing,
         \A i \in DOMAIN h : platform[h[i]] # "absent",
         progress # inProgress => \E r \in Requests : LooksUp(t, r) /\ progress = inProgress \ {r},
         UNCHANGED <<platform, done>>
  PROVE  Work!Next
<1>1. CASE UNCHANGED holds
  BY <1>1, Enqueues DEF PlatformGrows, Work!Next
<1>2. CASE holds' # holds
  <2>1. PICK j \in DOMAIN h :
          /\ h[j] \in Requests \ (progress \cup handled)
          /\ holds' = [holds EXCEPT ![t] = Held(h[j], FALSE, TRUE)]
    BY <1>2 DEF Popped
  <2>2. h[j] \notin done
    BY <2>1 DEF Inv, HandInv
  <2>3. ASSUME NEW u \in Tasks, u # t
        PROVE  ~Claims(u, h[j])
    BY <2>1, <2>2, <2>3 DEF Inv, HandInv, Claims
  <2>4. Work!Hand(t, h[j])
    BY <2>1, <2>2, <2>3, HandsOver
  <2>5. QED
    BY <2>1, <2>4 DEF Work!Next
<1>3. QED
  BY <1>1, <1>2

LEMMA MarkRefines ==
  ASSUME Inv, NEW t \in Tasks, CallMark(t)
  PROVE  Work!Next
<1> DEFINE r == holds[t].request
<1>1. /\ holds[t].processing /\ done' = done \cup {r} /\ UNCHANGED platform
      /\ holds' = [holds EXCEPT ![t] = IF ReclaimsHandled THEN Held(r, TRUE, FALSE) ELSE HoldsNothing]
  BY DEF CallMark
<1>2. r # NoRequest /\ ~holds'[t].processing /\ \A u \in Tasks : u # t => holds'[u] = holds[u]
  <2>1. holds[t] # HoldsNothing /\ DOMAIN holds = Tasks
    BY <1>1 DEF HoldsNothing, Held, Inv, TypeInv, TypeOK
  <2>2. r \in Requests
    BY <2>1 DEF Inv, TypeInv, TypeOK
  <2>3. QED
    BY <1>1, <2>1, <2>2 DEF Held, HoldsNothing
<1>3. Holder[t] = r /\ Holder' = [Holder EXCEPT ![t] = NoRequest]
  <2>1. ASSUME NEW u \in Tasks
        PROVE  Holder'[u] = IF u = t THEN NoRequest ELSE Holder[u]
    <3>1. Holder'[u] = IF holds'[u].processing THEN holds'[u].request ELSE NoRequest
      BY DEF Holder
    <3>2. Holder[u] = IF holds[u].processing THEN holds[u].request ELSE NoRequest
      BY DEF Holder
    <3>3. QED
      BY <1>2, <3>1, <3>2
  <2>2. Holder' = [u \in Tasks |-> Holder'[u]] /\ Holder = [u \in Tasks |-> Holder[u]]
    BY DEF Holder
  <2>3. Holder[t] = r
    BY <1>1 DEF Holder
  <2>4. QED
    BY <2>1, <2>2, <2>3
<1>4. Work!Finish(t)
  BY <1>1, <1>2, <1>3 DEF Work!Finish, Holder
<1>5. QED
  BY <1>4 DEF Work!Next

LEMMA ReclaimRefines ==
  ASSUME Inv, NEW t \in Tasks, CallReclaim(t)
  PROVE  Work!Next
<1> DEFINE r == holds[t].request
<1>1. r \in Requests /\ DOMAIN holds = Tasks
  BY DEF CallReclaim, Inv, TypeInv, TypeOK
<1>2. done' = done \ {r} /\ holds' = [holds EXCEPT ![t] = HoldsNothing] /\ UNCHANGED platform
  BY DEF CallReclaim
<1>3. ~holds'[t].processing /\ \A u \in Tasks : u # t => holds'[u] = holds[u]
  BY <1>1, <1>2 DEF HoldsNothing, Held
<1>4. Holder' = [u \in Tasks |-> IF u \in {t} THEN NoRequest ELSE Holder[u]]
  BY <1>3 DEF Holder
<1>5. CASE holds[t].processing
  <2>1. r \notin done
    BY <1>1, <1>5 DEF Inv, HandInv
  <2>2. Work!Release({t})
    BY <1>2, <1>4, <2>1 DEF Work!Release, Holder
  <2>3. QED
    BY <2>2 DEF Work!Next
<1>6. CASE ~holds[t].processing
  <2>1. \A u \in Tasks : Holder[u] # r
    <3>1. \A u \in Tasks : u # t => ~Claims(u, r)
      BY <1>1 DEF Inv, HandInv, Claims
    <3>2. QED
      BY <1>1, <1>6, <3>1 DEF Holder, Claims
  <2>2. Holder' = Holder
    BY <1>3, <1>6 DEF Holder
  <2>3. r \in Queued
    BY <1>1 DEF Inv, PresentInv, HeldPresent, Queued
  <2>4. Work!HearOf(r)
    BY <1>2, <2>1, <2>2, <2>3 DEF Work!HearOf, Work!Free, Holder, Queued
  <2>5. QED
    BY <1>1, <2>4 DEF Work!Next
<1>7. QED
  BY <1>5, <1>6

LEMMA FetchRefines ==
  ASSUME Inv, NEW t \in Tasks, CallFetch(t) \/ FetchHeadListed(t) \/ FetchedRequest(t)
  PROVE  Work!Next
<1>1. OpsOK /\ StateOK /\ op[t] \in OpRecord /\ OpPresent(platform, pc[t], op[t])
  BY TypeInvParts DEF Inv, OpsOK, PresentInv, CallsPresent
<1>2. UNCHANGED <<platform, done>> /\ ~holds[t].processing
  BY DEF CallFetch, FetchHeadListed, FetchedRequest, historyVars, Inv, HandInv, Fetching, Answered
<1>3. CASE CallFetch(t)
  <2>1. CASE Len(head) <= 1
    BY <1>2, <1>3, <2>1, Enqueues DEF CallFetch, PlatformGrows, Work!Next
  <2>2. CASE ~(Len(head) <= 1)
    <3>1. Popped(t, head, inProgress)
      BY <1>1, <1>3, <2>2, PopOutcome DEF CallFetch, StateOK
    <3>2. QED
      BY <1>2, <3>1, PoppedRefines DEF Inv, PresentInv, HeadPresent
  <2>3. QED
    BY <2>1, <2>2
<1>4. CASE FetchHeadListed(t)
  <2>1. PICK h \in HeadWithNews(t) : PopFrom(t, h, inProgress)
    BY <1>4 DEF FetchHeadListed
  <2>2. /\ h \in Seq(Requests)
        /\ \A i \in DOMAIN h : \/ \E j \in DOMAIN head : h[i] = head[j]
                               \/ op[t].seen[h[i]] = "pending"
    BY <1>1, ListedHead DEF StateOK
  <2>3. ASSUME NEW i \in DOMAIN h PROVE h[i] \in Requests
    BY <2>2, ElementOfSeq, LenProperties
  <2>4. \A i \in DOMAIN h : platform[h[i]] # "absent"
    BY <1>1, <2>2, <2>3 DEF Inv, PresentInv, HeadPresent, OpPresent
  <2>5. Popped(t, h, inProgress)
    BY <2>1, <2>2, PopOutcome
  <2>6. QED
    BY <1>2, <2>4, <2>5, PoppedRefines
<1>5. CASE FetchedRequest(t)
  <2> DEFINE r == op[t].request
  <2>1. r \in Requests /\ LooksUp(t, r) /\ platform[r] # "absent"
    BY <1>1, <1>5 DEF FetchedRequest, Answered, OpsOK, CallInv, LooksUp, OpPresent
  <2>2. CASE op[t].seen[r] = "absent"
    <3>1. Popped(t, head, inProgress \ {r})
      BY <1>1, <1>5, <2>2, PopOutcome DEF FetchedRequest, StateOK
    <3>2. QED
      BY <1>2, <2>1, <3>1, PoppedRefines DEF Inv, PresentInv, HeadPresent
  <2>3. CASE op[t].seen[r] # "absent"
    <3>1. PICK q \in Requests : /\ LooksUp(t, q) /\ platform[q] # "absent"
                               /\ \E b \in BOOLEAN : holds' = [holds EXCEPT ![t] = Held(q, b, TRUE)]
      BY <1>5, <2>1, <2>3 DEF FetchedRequest
    <3>2. PICK b \in BOOLEAN : holds' = [holds EXCEPT ![t] = Held(q, b, TRUE)]
      BY <3>1
    <3>3. q \notin done /\ \A u \in Tasks : u # t => ~Claims(u, q)
      BY <3>1 DEF Inv, HandInv, Claims
    <3>4. Work!Hand(t, q)
      BY <1>2, <3>1, <3>2, <3>3, HandsOver
    <3>5. QED
      BY <3>4 DEF Work!Next
  <2>4. QED
    BY <2>2, <2>3
<1>6. QED
  BY <1>3, <1>4, <1>5

LEMMA OtherwiseEnqueues ==
  ASSUME Inv, Next, UNCHANGED <<holds, done>>
  PROVE  Work!Next
<1>1. ASSUME NEW t \in Tasks, Answer(t)
      PROVE  PlatformGrows
  BY <1>1 DEF Answer, AnswerRead, AnswerBatch, AnswerUpdate, PlatformGrows, Inv, TypeInv, TypeOK
<1>2. ASSUME NEW r \in Requests, OtherAdds(r) \/ OtherHandles(r)
      PROVE  PlatformGrows
  BY <1>2 DEF OtherAdds, OtherHandles, PlatformGrows, Inv, TypeInv, TypeOK
<1>3. ASSUME NEW t \in Tasks, Call(t) \/ Resume(t) \/ Fail(t)
      PROVE  UNCHANGED platform
  BY <1>3 DEF Call, Resume, CallAdd, CallGet, CallFetch, CallFinished, CallMark, CallReclaim,
              CachesListed, BatchAnswered, AddReturns, FetchHeadListed, FetchedRequest,
              FinishedHeadListed, GotRequest, Updated, Fail
<1>4. PlatformGrows
  BY <1>1, <1>2, <1>3 DEF Next, Step, PlatformGrows
<1>5. QED
  BY <1>4, Enqueues DEF Work!Next

LEMMA StepRefines == Inv /\ [Next]_vars => [Work!Next]_(Work!vars)
<1>1. ASSUME Inv, NEW t \in Tasks, Step(t)
      PROVE  Work!Next
  <2>1. CASE CallFetch(t) \/ FetchHeadListed(t) \/ FetchedRequest(t)
    BY <1>1, <2>1, FetchRefines
  <2>2. CASE CallMark(t)
    BY <1>1, <2>2, MarkRefines
  <2>3. CASE CallReclaim(t)
    BY <1>1, <2>3, ReclaimRefines
  <2>4. ASSUME \/ CallAdd(t)
               \/ CallGet(t)
               \/ CallFinished(t)
               \/ Answer(t)
               \/ Fail(t)
               \/ CachesListed(t)
               \/ BatchAnswered(t)
               \/ AddReturns(t)
               \/ FinishedHeadListed(t)
               \/ GotRequest(t)
               \/ Updated(t)
        PROVE  UNCHANGED <<holds, done>>
    BY <2>4 DEF CallAdd, CallGet, CallFinished, Answer, AnswerRead, AnswerBatch, AnswerUpdate, Fail,
                CachesListed, BatchAnswered, AddReturns, FinishedHeadListed, GotRequest, Updated,
                historyVars
  <2>5. Next
    BY <1>1 DEF Next
  <2>6. QED
    BY <1>1, <2>1, <2>2, <2>3, <2>4, <2>5, OtherwiseEnqueues DEF Step, Call, Resume
<1>2. ASSUME Inv, NEW r \in Requests, OtherAdds(r) \/ OtherHandles(r)
      PROVE  Work!Next
  <2>1. UNCHANGED <<holds, done>> /\ Next
    BY <1>2 DEF OtherAdds, OtherHandles, taskVars, historyVars, Next
  <2>2. QED
    BY <1>2, <2>1, OtherwiseEnqueues
<1>3. ASSUME UNCHANGED vars
      PROVE  UNCHANGED Work!vars
  BY <1>3 DEF vars, taskVars, historyVars, Work!vars
<1>4. QED
  BY <1>1, <1>2, <1>3 DEF Next

LEMMA InitRefines == Init => Work!Init
<1> SUFFICES ASSUME Init PROVE Work!Init
  OBVIOUS
<1>1. Holder = [t \in Tasks |-> NoRequest]
  BY DEF Init, Holder, HoldsNothing, Held
<1>2. Queued \subseteq Requests /\ done \subseteq Queued
  BY DEF Init, Queued
<1>3. QED
  BY <1>1, <1>2 DEF Work!Init, Queued, Holder

(* Every behaviour of the client, its tasks and the platform is one of the  *)
(* abstract work queue: what the tasks see is what WorkQueue promises.      *)
THEOREM Implements == Spec => ImplementsWorkQueue
<1>1. Spec => []Inv
  BY TypeCorrect, PresentAlways, HandAlways, PTL DEF Inv
<1>2. QED
  BY <1>1, InitRefines, StepRefines, PTL DEF Spec, ImplementsWorkQueue, Work!Spec

-----------------------------------------------------------------------------
(* The counters.  While no call failed and no other client touched the      *)
(* queue, metadata.total is the number of requests on the platform but for  *)
(* those a call under way has added and not counted yet.                    *)

Alone == failures = 0 /\ OthersAdd = {} /\ OthersHandle = {}

OpOwes(at, o) ==
  IF at = "batch_add" /\ o.answered THEN {r \in o.batch \ o.rejected : o.seen[r] = "absent"}
  ELSE IF at = "in_flight" THEN o.new ELSE {}

Owes(t) == OpOwes(pc[t], op[t])

Owed == {r \in Requests : \E t \in Tasks : r \in Owes(t)}

TotalInv ==
  /\ \A t \in Tasks : pc[t] = "update_request" => platform[op[t].request] # "absent"
  /\ \A t \in Tasks : Owes(t) \subseteq Queued
  /\ \A t, u \in Tasks : t # u => Owes(t) \cap Owes(u) = {}
  /\ metadata.total = Cardinality(Queued \ Owed)

LEMMA DisjointsAdd ==
  ASSUME NEW S \in SUBSET Requests, NEW T \in SUBSET Requests, S \cap T = {}
  PROVE  Cardinality(S \cup T) = Cardinality(S) + Cardinality(T)
<1>1. /\ IsFiniteSet(S) /\ IsFiniteSet(T)
      /\ Cardinality(S) \in Nat /\ Cardinality(T) \in Nat /\ Cardinality(S \cap T) = 0
  BY SubsetsAreCounted, FS_EmptySet
<1>2. Cardinality(S \cup T) = Cardinality(S) + Cardinality(T) - Cardinality(S \cap T)
  BY <1>1, FS_Union
<1>3. QED
  BY <1>1, <1>2

(* What one task owes changes, what the others owe does not.                *)
LEMMA OwedOf ==
  ASSUME NEW t \in Tasks, \A u \in Tasks \ {t} : Owes(u)' = Owes(u), TotalInv
  PROVE  /\ Owed \ Owes(t) \subseteq Owed'
         /\ Owed' \subseteq (Owed \ Owes(t)) \cup Owes(t)'
         /\ Owes(t) \cap Requests \subseteq Owed /\ Owes(t)' \cap Requests \subseteq Owed'
<1> HIDE DEF Owes
<1>1. \A u \in Tasks \ {t} : Owes(u) \cap Owes(t) = {}
  BY DEF TotalInv
<1>2. QED
  BY <1>1 DEF Owed

(* A step by which t comes to owe nothing and counts what it owed.          *)
LEMMA PaysAll ==
  ASSUME TotalInv, NEW t \in Tasks, \A u \in Tasks \ {t} : Owes(u)' = Owes(u),
         Owes(t) \subseteq Requests, Owes(t)' = {}, Queued' = Queued,
         metadata'.total = metadata.total + Cardinality(Owes(t)),
         \A u \in Tasks : pc'[u] = "update_request" => platform'[op'[u].request] # "absent"
  PROVE  TotalInv'
<1> HIDE DEF Owes
<1>1. Owed' = Owed \ Owes(t) /\ Owes(t) \subseteq Owed /\ Owes(t) \subseteq Queued
  BY OwedOf DEF TotalInv
<1>2. Queued' \ Owed' = (Queued \ Owed) \cup Owes(t) /\ (Queued \ Owed) \cap Owes(t) = {}
  BY <1>1
<1>3. Queued \ Owed \in SUBSET Requests
  BY DEF Queued
<1>4. Cardinality(Queued' \ Owed') = metadata'.total
  BY <1>2, <1>3, DisjointsAdd DEF TotalInv
<1>5. \A u \in Tasks : Owes(u)' \subseteq Queued'
  BY DEF TotalInv
<1>6. \A u, v \in Tasks : u # v => Owes(u)' \cap Owes(v)' = {}
  BY DEF TotalInv
<1>7. QED
  BY <1>4, <1>5, <1>6 DEF TotalInv

(* A step that leaves alone what is owed.                                   *)
LEMMA OwesTheSame ==
  ASSUME TotalInv, \A u \in Tasks : Owes(u)' = Owes(u), Queued' = Queued,
         metadata'.total = metadata.total,
         \A u \in Tasks : pc'[u] = "update_request" => platform'[op'[u].request] # "absent"
  PROVE  TotalInv'
<1> HIDE DEF Owes
<1>1. Owed' = Owed
  BY DEF Owed
<1>2. Queued' \ Owed' = Queued \ Owed
  BY <1>1
<1>3. metadata'.total = Cardinality(Queued' \ Owed')
  BY <1>2 DEF TotalInv
<1>4. QED
  BY <1>3 DEF TotalInv

(* A task that owes nothing goes to an await where it owes nothing.         *)
OwesNothing(at, o) ==
  /\ at = "batch_add" => o.answered = FALSE
  /\ at = "in_flight" => o.new = {}
  /\ at = "update_request" => o.request \in Queued

GoesOn(t) == \E at, o : Awaits(t, at, o) /\ OwesNothing(at, o)

LEMMA AwaitsOwesNothing ==
  ASSUME TypeInv, TotalInv, NEW t \in Tasks, GoesOn(t),
         pc[t] # "in_flight", ~Answered(t, "batch_add"),
         Queued' = Queued, metadata'.total = metadata.total
  PROVE  TotalInv'
<1>0. PICK at, o : Awaits(t, at, o) /\ OwesNothing(at, o)
  BY DEF GoesOn
<1>1. /\ pc'[t] = at /\ op'[t] = o
      /\ \A u \in Tasks \ {t} : pc'[u] = pc[u] /\ op'[u] = op[u]
  BY <1>0 DEF Awaits, TypeInv, TypeOK
<1>2. \A u \in Tasks \ {t} : Owes(u)' = Owes(u)
  BY <1>1 DEF Owes
<1>3. Owes(t) = {} /\ Owes(t)' = {}
  BY <1>0, <1>1 DEF Owes, OpOwes, Answered, OwesNothing
<1>4. ASSUME NEW u \in Tasks, pc'[u] = "update_request"
      PROVE  platform'[op'[u].request] # "absent"
  <2>1. op'[u].request \in Queued
    <3>1. CASE u = t
      BY <1>0, <1>1, <1>4, <3>1 DEF OwesNothing
    <3>2. CASE u # t
      BY <1>1, <1>4, <3>2 DEF TotalInv, Queued, TypeInv, CallInv
    <3>3. QED
      BY <3>1, <3>2
  <2>2. QED
    BY <2>1 DEF Queued
<1>5. \A u \in Tasks : Owes(u)' = Owes(u)
  BY <1>2, <1>3
<1>6. QED
  BY <1>4, <1>5, OwesTheSame

LEMMA DispatchGoesOn ==
  ASSUME NEW t \in Tasks, NEW b \in SUBSET Requests, Dispatch(t, b)
  PROVE  GoesOn(t)
<1> DEFINE known == b \cap (handled' \cup cache')
           waits == b \ (known \cup ToSend(b))
           record == [NewOp("add", ToSend(b), NoRequest) EXCEPT !.known = known, !.waits = waits]
<1>1. \E at \in {"batch_add", "in_flight", "idle"} : Awaits(t, at, record)
  BY DEF Dispatch, Returns
<1>2. record.answered = FALSE /\ record.new = {}
  BY DEF NewOp
<1> HIDE DEF record
<1>3. QED
  BY <1>1, <1>2 DEF GoesOn, OwesNothing

LEMMA PoppedGoesOn ==
  ASSUME NEW t \in Tasks, NEW h, NEW progress, Popped(t, h, progress)
  PROVE  GoesOn(t)
<1>1. \E at \in {"idle", "get_request"} : \E o : Awaits(t, at, o)
  BY DEF Popped, Returns
<1>2. QED
  BY <1>1 DEF GoesOn, OwesNothing

LEMMA TotalCalls ==
  ASSUME TypeInv, PresentInv, TotalInv, NEW t \in Tasks, Call(t)
  PROVE  TotalInv'
<1>1. Queued' = Queued /\ metadata'.total = metadata.total /\ pc[t] = "idle"
  <2>1. UNCHANGED platform /\ pc[t] = "idle"
    BY DEF Call, CallAdd, CallGet, CallFetch, CallFinished, CallMark, CallReclaim, Calls, Idle
  <2>2. metadata'.total = metadata.total
    <3>1. CASE CallMark(t)
      <4>1. metadata' = metadata \/ metadata' = [metadata EXCEPT !.handled = @ + 1]
        BY <3>1 DEF CallMark
      <4>2. QED
        BY <4>1 DEF TypeInv, TypeOK
    <3>2. CASE ~CallMark(t)
      <4>1. metadata' = metadata
        BY <3>2 DEF Call, CallAdd, CallGet, CallFetch, CallFinished, CallReclaim, clientVars
      <4>2. QED
        BY <4>1
    <3>3. QED
      BY <3>1, <3>2
  <2>3. QED
    BY <2>1, <2>2 DEF Queued
<1>2. CASE CallAdd(t)
  <2>1. PICK b \in SUBSET Requests :
          Dispatch(t, b) \/ Awaits(t, "list_requests", NewOp("add", b, NoRequest))
    BY <1>2 DEF CallAdd
  <2>2. GoesOn(t)
    <3>1. OwesNothing("list_requests", NewOp("add", b, NoRequest))
      BY DEF OwesNothing
    <3>2. QED
      BY <2>1, <3>1, DispatchGoesOn DEF GoesOn
  <2>3. QED
    BY <1>1, <2>2, AwaitsOwesNothing DEF Answered
<1>3. CASE CallGet(t) \/ CallFinished(t) \/ (CallFetch(t) /\ Len(head) <= 1)
  <2>1. \E at \in {"idle", "get_request", "list_head"} : \E o : Awaits(t, at, o)
    BY <1>3 DEF CallGet, CallFinished, CallFetch, Verdict, Returns
  <2>2. GoesOn(t)
    BY <2>1 DEF GoesOn, OwesNothing
  <2>3. QED
    BY <1>1, <2>2, AwaitsOwesNothing DEF Answered
<1>4. CASE CallFetch(t) /\ ~(Len(head) <= 1)
  <2>1. Popped(t, head, inProgress)
    BY <1>4, PopOutcome DEF CallFetch, TypeInv, TypeOK
  <2>2. QED
    BY <1>1, <2>1, PoppedGoesOn, AwaitsOwesNothing DEF Answered
<1>5. CASE CallMark(t) \/ CallReclaim(t)
  <2>1. holds[t].request \in Requests
    <3>1. holds[t] # HoldsNothing
      BY <1>5 DEF CallMark, CallReclaim, HoldsNothing, Held
    <3>2. QED
      BY <3>1 DEF TypeInv, TypeOK
  <2>2. holds[t].request \in Queued
    BY <2>1 DEF PresentInv, HeldPresent, Queued
  <2>3. \E call : Awaits(t, "update_request", NewOp(call, {}, holds[t].request))
    BY <1>5 DEF CallMark, CallReclaim
  <2>4. \A call : OwesNothing("update_request", NewOp(call, {}, holds[t].request))
    BY <2>2 DEF OwesNothing, NewOp
  <2>5. GoesOn(t)
    BY <2>3, <2>4 DEF GoesOn
  <2>6. QED
    BY <1>1, <2>5, AwaitsOwesNothing DEF Answered
<1>6. QED
  BY <1>2, <1>3, <1>4, <1>5 DEF Call

LEMMA TotalAnswers ==
  ASSUME TypeInv, TotalInv, NEW t \in Tasks, Answer(t)
  PROVE  TotalInv'
<1>1. /\ op[t] \in OpRecord /\ platform \in [Requests -> Status]
      /\ pc = [u \in Tasks |-> pc[u]] /\ DOMAIN op = Tasks
  BY DEF TypeInv, TypeOK
<1>2. CASE AnswerRead(t) \/ AnswerUpdate(t)
  <2>1. PICK o : op' = [op EXCEPT ![t] = o] /\ o.request = op[t].request
    <3>1. /\ Reply(t).request = op[t].request
          /\ [Reply(t) EXCEPT !.seen = Nothing].request = op[t].request
      BY <1>1 DEF Reply, OpRecord
    <3>2. \/ op' = [op EXCEPT ![t] = Reply(t)]
          \/ op' = [op EXCEPT ![t] = [Reply(t) EXCEPT !.seen = Nothing]]
      BY <1>2 DEF AnswerRead, AnswerUpdate
    <3>3. QED
      BY <3>1, <3>2
  <2>2. /\ pc[t] \in {"list_requests", "list_head", "get_request", "update_request"}
        /\ pc' = pc /\ metadata' = metadata
    BY <1>2 DEF AnswerRead, AnswerUpdate, clientVars
  <2>3. pc[t] = "update_request" => op[t].request \in Requests /\ platform[op[t].request] # "absent"
    BY DEF TypeInv, CallInv, TotalInv
  <2>4. Queued' = Queued
    <3>1. CASE AnswerRead(t)
      BY <3>1 DEF AnswerRead, Queued
    <3>2. CASE AnswerUpdate(t)
      <4>1. \A r \in Requests : platform'[r] # "absent" <=> platform[r] # "absent"
        BY <1>1, <2>3, <3>2 DEF AnswerUpdate
      <4>2. QED
        BY <4>1 DEF Queued
    <3>3. QED
      BY <1>2, <3>1, <3>2
  <2>5. Awaits(t, pc[t], o) /\ OwesNothing(pc[t], o)
    BY <1>1, <2>1, <2>2, <2>3 DEF Awaits, OwesNothing, Queued
  <2>6. GoesOn(t)
    BY <2>5 DEF GoesOn
  <2>7. QED
    BY <2>2, <2>4, <2>6, AwaitsOwesNothing DEF Answered
<1>3. CASE AnswerBatch(t)
  <2>1. PICK rejected \in SUBSET op[t].batch :
          /\ op' = [op EXCEPT ![t] = [Reply(t) EXCEPT !.rejected = rejected]]
          /\ platform' = [r \in Requests |->
               IF r \in op[t].batch \ rejected /\ platform[r] = "absent"
               THEN "pending" ELSE platform[r]]
    BY <1>3 DEF AnswerBatch
  <2> DEFINE new == {r \in op[t].batch \ rejected : platform[r] = "absent"}
  <2>2. pc[t] = "batch_add" /\ ~op[t].answered /\ pc' = pc /\ metadata' = metadata
    BY <1>3 DEF AnswerBatch, clientVars
  <2>3. /\ op'[t].answered /\ op'[t].batch = op[t].batch /\ op'[t].seen = platform
        /\ op'[t].rejected = rejected
        /\ \A u \in Tasks \ {t} : op'[u] = op[u]
    BY <1>1, <2>1 DEF Reply, OpRecord
  <2>4. Owes(t) = {} /\ Owes(t)' = new
    BY <2>2, <2>3 DEF Owes, OpOwes
  <2>5. \A u \in Tasks \ {t} : Owes(u)' = Owes(u)
    BY <2>2, <2>3 DEF Owes
  <2>6. new \subseteq Requests /\ new \cap Queued = {} /\ Queued' = Queued \cup new
    BY <1>1, <2>1 DEF OpRecord, Queued
  <2>7. Owed' = Owed \cup new
    BY <2>4, <2>5, <2>6, OwedOf
  <2>8. Queued' \ Owed' = Queued \ Owed
    BY <2>6, <2>7
  <2>9. \A u \in Tasks : pc'[u] = "update_request" => platform'[op'[u].request] # "absent"
    <3>1. ASSUME NEW u \in Tasks, pc'[u] = "update_request"
          PROVE  op'[u] = op[u] /\ op[u].request \in Queued
      BY <2>2, <2>3, <3>1 DEF TypeInv, CallInv, TotalInv, Queued
    <3>2. QED
      BY <2>6, <3>1 DEF Queued
  <2>10. \A u \in Tasks : Owes(u)' \subseteq Queued'
    BY <2>4, <2>5, <2>6 DEF TotalInv
  <2>11. \A u, v \in Tasks : u # v => Owes(u)' \cap Owes(v)' = {}
    BY <2>4, <2>5, <2>6 DEF TotalInv
  <2>12. QED
    BY <2>2, <2>8, <2>9, <2>10, <2>11 DEF TotalInv
<1>4. QED
  BY <1>2, <1>3 DEF Answer

(* What the answer to a batch leaves of each task's call.                   *)
SameCall(u) ==
  /\ pc'[u] = pc[u]
  /\ op'[u].answered = op[u].answered /\ op'[u].batch = op[u].batch
  /\ op'[u].rejected = op[u].rejected /\ op'[u].seen = op[u].seen
  /\ op'[u].new = op[u].new /\ op'[u].request = op[u].request
  /\ op'[u].call = op[u].call

LEMMA BatchSettled ==
  ASSUME TypeInv, NEW t \in Tasks, BatchAnswered(t)
  PROVE  /\ \A u \in Tasks \ {t} : SameCall(u)
         /\ op'[t].new = {r \in op[t].batch \ op[t].rejected : op[t].seen[r] = "absent"}
         /\ op'[t].new \subseteq Requests
         /\ \/ pc'[t] = "in_flight" /\ metadata' = metadata
            \/ /\ pc'[t] = "idle"
               /\ metadata' = [metadata EXCEPT !.total = @ + Cardinality(op'[t].new)]
<1> DEFINE record == [op[t] EXCEPT !.batch = {},
                 !.new = {r \in Committed(t) : op[t].seen[r] = "absent"},
                 !.known = @ \cup {r \in Committed(t) : op[t].seen[r] # "absent"}]
           at == IF record.waits = {} THEN "idle" ELSE "in_flight"
<1>1. op[t] \in OpRecord /\ op[t].call = "add"
  BY DEF TypeInv, TypeOK, CallInv, BatchAnswered, Answered
<1>2. Committed(t) \subseteq Requests
  BY <1>1 DEF Committed, OpRecord
<1>3. record \in OpRecord
  BY <1>1, <1>2 DEF OpRecord
<1>4. record.call = "add" /\ record.new = {r \in Committed(t) : op[t].seen[r] = "absent"}
  BY <1>1 DEF OpRecord
<1>5. /\ Settle(t, at, record, Committed(t))
      /\ metadata' = IF record.waits = {}
                     THEN [metadata EXCEPT !.total = @ + CountsAsNew(record)] ELSE metadata
  BY DEF BatchAnswered
<1> HIDE DEF record
<1>6. PICK o \in OpRecord, stop \in {"idle", "in_flight"} :
        /\ Settle(t, stop, o, Committed(t))
        /\ o.call = "add" /\ o.new = {r \in Committed(t) : op[t].seen[r] = "absent"}
        /\ metadata' = IF stop = "idle"
                       THEN [metadata EXCEPT !.total = @ + CountsAsNew(o)] ELSE metadata
  BY <1>3, <1>4, <1>5
<1>7. Fits(stop, o)
  BY <1>6 DEF Fits, Places, ApiCalls
<1>8. /\ pc' = [pc EXCEPT ![t] = stop] /\ op'[t] = o
      /\ \A u \in Tasks \ {t} :
           op'[u] = [op[u] EXCEPT !.known = op'[u].known, !.waits = op'[u].waits]
  <2>1. OpsOK
    BY TypeInvParts
  <2>2. Committed(t) \in SUBSET Requests
    BY <1>2
  <2>3. Settle(t, stop, o, Committed(t))
    BY <1>6
  <2>4. QED
    BY <1>7, <2>1, <2>2, <2>3, SettleTypes
<1>9. pc'[t] = stop /\ \A u \in Tasks \ {t} : pc'[u] = pc[u]
  <2>1. pc' = [pc EXCEPT ![t] = stop]
    BY <1>8
  <2>2. QED
    BY <2>1 DEF TypeInv, TypeOK
<1>10. ASSUME NEW u \in Tasks \ {t}
       PROVE  SameCall(u)
  <2>1. PICK known, waits : op'[u] = [op[u] EXCEPT !.known = known, !.waits = waits]
    BY <1>8
  <2>2. op[u] \in OpRecord
    BY DEF TypeInv, TypeOK
  <2>3. QED
    BY <1>9, <2>1, <2>2 DEF SameCall, OpRecord
<1>11. op'[t].new \subseteq Requests /\ CountsAsNew(o) = Cardinality(op'[t].new)
  BY <1>8 DEF OpRecord, CountsAsNew
<1>12. op'[t].new = {r \in op[t].batch \ op[t].rejected : op[t].seen[r] = "absent"}
  BY <1>6, <1>8 DEF Committed
<1>13. QED
  BY <1>6, <1>9, <1>10, <1>11, <1>12

LEMMA TotalBatch ==
  ASSUME TypeInv, TotalInv, NEW t \in Tasks, BatchAnswered(t)
  PROVE  TotalInv'
<1>1. /\ \A u \in Tasks \ {t} : SameCall(u)
      /\ op'[t].new = {r \in op[t].batch \ op[t].rejected : op[t].seen[r] = "absent"}
      /\ op'[t].new \subseteq Requests
      /\ \/ pc'[t] = "in_flight" /\ metadata' = metadata
         \/ /\ pc'[t] = "idle"
            /\ metadata' = [metadata EXCEPT !.total = @ + Cardinality(op'[t].new)]
  BY BatchSettled
<1>2. op'[t].new = Owes(t) /\ Owes(t) \subseteq Requests
  BY <1>1 DEF BatchAnswered, Answered, Owes, OpOwes
<1>3. ASSUME NEW u \in Tasks \ {t}
      PROVE  Owes(u)' = Owes(u)
  <2>1. /\ pc'[u] = pc[u]
        /\ op'[u].answered = op[u].answered /\ op'[u].batch = op[u].batch
        /\ op'[u].rejected = op[u].rejected /\ op'[u].seen = op[u].seen
        /\ op'[u].new = op[u].new
    BY <1>1 DEF SameCall
  <2>2. QED
    BY <2>1 DEF Owes, OpOwes
<1>4. UNCHANGED <<platform, Queued>>
  BY DEF BatchAnswered, Queued
<1>5. \A u \in Tasks : pc'[u] = "update_request" => platform'[op'[u].request] # "absent"
  BY <1>1, <1>4 DEF SameCall, TotalInv
<1>6. CASE /\ pc'[t] = "idle"
           /\ metadata' = [metadata EXCEPT !.total = @ + Cardinality(op'[t].new)]
  <2>1. metadata'.total = metadata.total + Cardinality(Owes(t))
    BY <1>2, <1>6 DEF TypeInv, TypeOK
  <2>2. Owes(t)' = {}
    BY <1>6 DEF Owes, OpOwes
  <2>3. QED
    BY <1>2, <1>3, <1>4, <1>5, <2>1, <2>2, PaysAll
<1>7. CASE pc'[t] = "in_flight" /\ metadata' = metadata
  <2>1. Owes(t)' = Owes(t)
    BY <1>2, <1>7 DEF Owes, OpOwes
  <2>2. \A u \in Tasks : Owes(u)' = Owes(u)
    BY <1>3, <2>1
  <2>3. QED
    BY <1>4, <1>5, <1>7, <2>2, OwesTheSame
<1>8. QED
  BY <1>1, <1>6, <1>7

LEMMA TotalResumes ==
  ASSUME TypeInv, TotalInv, NEW t \in Tasks, Resume(t)
  PROVE  TotalInv'
<1>1. op[t] \in OpRecord /\ DOMAIN pc = Tasks /\ DOMAIN op = Tasks
      /\ metadata \in [total : Nat, handled : Int] /\ head \in Seq(Requests)
  BY DEF TypeInv, TypeOK
<1>2. CASE AddReturns(t)
  <2>1. /\ pc[t] = "in_flight" /\ pc'[t] = "idle" /\ op'[t] = op[t]
        /\ \A u \in Tasks \ {t} : pc'[u] = pc[u] /\ op'[u] = op[u]
    BY <1>1, <1>2 DEF AddReturns, Returns, Awaits
  <2>2. Owes(t) = op[t].new /\ Owes(t)' = {} /\ Owes(t) \subseteq Requests
    BY <1>1, <2>1 DEF Owes, OpOwes, OpRecord
  <2>3. \A u \in Tasks \ {t} : Owes(u)' = Owes(u)
    BY <2>1 DEF Owes
  <2>4. /\ metadata'.total = metadata.total + Cardinality(Owes(t))
        /\ Queued' = Queued /\ platform' = platform
    BY <1>1, <1>2, <2>2 DEF AddReturns, CountsAsNew, Queued
  <2>5. \A u \in Tasks : pc'[u] = "update_request" => platform'[op'[u].request] # "absent"
    BY <2>1, <2>4 DEF TotalInv
  <2>6. QED
    BY <2>2, <2>3, <2>4, <2>5, PaysAll
<1>3. ASSUME ~BatchAnswered(t), ~AddReturns(t)
      PROVE  TotalInv'
  <2>1. /\ Queued' = Queued /\ metadata'.total = metadata.total
        /\ pc[t] \notin {"in_flight", "batch_add"}
    BY <1>1, <1>3 DEF Resume, CachesListed, FetchHeadListed, FetchedRequest, FinishedHeadListed,
                      GotRequest, Updated, Answered, Queued
  <2>2. CASE CachesListed(t)
    <3>1. op[t].batch \in SUBSET Requests
      BY <1>1 DEF OpRecord
    <3>2. QED
      BY <2>1, <2>2, <3>1, DispatchGoesOn, AwaitsOwesNothing DEF CachesListed, Answered
  <2>3. CASE FetchHeadListed(t)
    <3>1. PICK h \in HeadWithNews(t) : PopFrom(t, h, inProgress)
      BY <2>3 DEF FetchHeadListed
    <3>2. Popped(t, h, inProgress)
      BY <1>1, <3>1, ListedHead, PopOutcome
    <3>3. QED
      BY <2>1, <3>2, PoppedGoesOn, AwaitsOwesNothing DEF Answered
  <2>4. CASE FetchedRequest(t) /\ op[t].seen[op[t].request] = "absent"
    <3>1. Popped(t, head, inProgress \ {op[t].request})
      BY <1>1, <2>4, PopOutcome DEF FetchedRequest
    <3>2. QED
      BY <2>1, <3>1, PoppedGoesOn, AwaitsOwesNothing DEF Answered
  <2>5. CASE \/ FetchedRequest(t) /\ op[t].seen[op[t].request] # "absent"
             \/ FinishedHeadListed(t)
             \/ GotRequest(t)
             \/ Updated(t)
    <3>1. \E o : Awaits(t, "idle", o)
      BY <2>5 DEF FetchedRequest, FinishedHeadListed, Verdict, GotRequest, Updated, Returns
    <3>2. GoesOn(t)
      BY <3>1 DEF GoesOn, OwesNothing
    <3>3. QED
      BY <2>1, <3>2, AwaitsOwesNothing DEF Answered
  <2>6. QED
    BY <1>3, <2>2, <2>3, <2>4, <2>5 DEF Resume
<1>4. QED
  BY <1>2, <1>3, TotalBatch

LEMMA TotalInit == Init => TotalInv
<1> SUFFICES ASSUME Init PROVE TotalInv
  OBVIOUS
<1>1. \A t \in Tasks : Owes(t) = {} /\ pc[t] = "idle"
  BY DEF Init, Owes, OpOwes
<1>2. Owed = {}
  BY <1>1 DEF Owed
<1>3. {r \in Requests : platform[r] \in {"pending", "handled"}} = Queued
  BY DEF Init, Queued
<1>4. metadata.total = Cardinality(Queued \ Owed)
  BY <1>2, <1>3 DEF Init, Count
<1>5. QED
  BY <1>1, <1>4 DEF TotalInv

LEMMA StaysAlone ==
  ASSUME TypeInv, Alone', [Next]_vars
  PROVE  /\ Alone /\ failures' = failures
         /\ (\E t \in Tasks : Call(t) \/ Answer(t) \/ Resume(t)) \/ UNCHANGED vars
<1>1. failures \in Nat /\ failures' = 0
  BY DEF TypeInv, TypeOK, Alone
<1>2. ASSUME NEW t \in Tasks, Call(t)
      PROVE  failures' = failures
  BY <1>2 DEF Call, CallAdd, CallGet, CallFetch, CallFinished, CallMark, CallReclaim
<1>3. ASSUME NEW t \in Tasks, Resume(t)
      PROVE  failures' = failures
  BY <1>3 DEF Resume, CachesListed, BatchAnswered, AddReturns, FetchHeadListed, FetchedRequest,
              FinishedHeadListed, GotRequest, Updated
<1>4. ASSUME NEW t \in Tasks, Answer(t)
      PROVE  failures' = failures
  <2>1. failures' = failures \/ failures' = failures + 1
    BY <1>4 DEF Answer, AnswerRead, AnswerBatch, AnswerUpdate
  <2>2. QED
    BY <1>1, <2>1
<1>5. ASSUME NEW t \in Tasks
      PROVE  ~Fail(t)
  BY <1>1 DEF Fail
<1>6. \A r \in Requests : ~OtherAdds(r) /\ ~OtherHandles(r)
  BY DEF Alone, OtherAdds, OtherHandles
<1>7. UNCHANGED vars => failures' = failures
  BY DEF vars
<1>8. (\E t \in Tasks : Call(t) \/ Answer(t) \/ Resume(t)) \/ UNCHANGED vars
  BY <1>5, <1>6 DEF Next, Step
<1>9. QED
  BY <1>1, <1>2, <1>3, <1>4, <1>7, <1>8 DEF Alone

LEMMA TotalStep ==
  TypeInv /\ PresentInv /\ (Alone => TotalInv) /\ [Next]_vars => (Alone' => TotalInv')
<1> SUFFICES ASSUME TypeInv, PresentInv, Alone => TotalInv, [Next]_vars, Alone'
             PROVE  TotalInv'
  OBVIOUS
<1>1. TotalInv /\ ((\E t \in Tasks : Call(t) \/ Answer(t) \/ Resume(t)) \/ UNCHANGED vars)
  BY StaysAlone
<1>2. CASE UNCHANGED vars
  BY <1>1, <1>2 DEF TotalInv, Owed, Owes, Queued, vars, clientVars, taskVars
<1>3. QED
  BY <1>1, <1>2, TotalCalls, TotalAnswers, TotalResumes

(* If tasks do not reclaim what they have marked, metadata.handled is the   *)
(* number of handled requests on the platform, together with those whose    *)
(* mark has not reached it and those a reclaim has reopened without having  *)
(* counted that yet.                                                        *)
OpCharges(at, o, r) ==
  /\ at = "update_request" /\ o.request = r
  /\ \/ o.call = "mark" /\ ~o.answered
     \/ o.call = "reclaim" /\ o.answered /\ o.seen[r] = "handled"

Charges(t, r) == OpCharges(pc[t], op[t], r)

Counted == {r \in Requests : platform[r] = "handled" \/ \E t \in Tasks : Charges(t, r)}

ChargeInv ==
  /\ \A t \in Tasks, r \in Requests :
       /\ LooksUp(t, r) /\ op[t].answered => op[t].seen[r] # "handled"
       /\ Charges(t, r) => r \in done /\ platform[r] # "handled"
       /\ \A u \in Tasks \ {t} : ~(Charges(t, r) /\ Charges(u, r))
  /\ metadata.handled = Cardinality(Counted)

(* What was handled before this client's tasks came across it is nowhere in *)
(* the client: it is never handed out, sent or updated.                     *)
Old(r) == platform[r] = "handled" /\ r \notin done

OpAvoids(at, o, r) ==
  /\ ~(at = "get_request" /\ o.call = "fetch" /\ o.request = r)
  /\ at = "update_request" => o.request # r
  /\ at = "batch_add" => r \notin o.batch
  /\ at \in {"list_requests", "list_head"} /\ o.answered => o.seen[r] = "handled"
  /\ at = "get_request" /\ o.answered => o.seen[r] # "pending"

LeftAlone(r) ==
  /\ \A i \in DOMAIN head : head[i] # r
  /\ r \notin cache /\ (initialized => r \in handled)
  /\ \A t \in Tasks : holds[t].request # r /\ OpAvoids(pc[t], op[t], r)

OldInv == \A r \in Requests : Old(r) => LeftAlone(r)

Unstamped == \A t \in Tasks : holds[t] # HoldsNothing => holds[t].processing /\ ~holds[t].stamped

HandledInv == ChargeInv /\ OldInv /\ Unstamped

LEMMA OneMore ==
  ASSUME NEW S \in SUBSET Requests, NEW r \in Requests, r \notin S
  PROVE  Cardinality(S \cup {r}) = Cardinality(S) + 1
BY SubsetsAreCounted, FS_AddElement

LEMMA OneLess ==
  ASSUME NEW S \in SUBSET Requests, NEW r \in S
  PROVE  Cardinality(S \ {r}) = Cardinality(S) - 1
BY SubsetsAreCounted, FS_RemoveElement

(* A step that leaves alone what counts.                                    *)
LEMMA ChargesTheSame ==
  ASSUME ChargeInv, \A t \in Tasks, r \in Requests : Charges(t, r)' <=> Charges(t, r),
         \A r \in Requests : platform'[r] = "handled" <=> platform[r] = "handled",
         done \subseteq done', metadata'.handled = metadata.handled,
         \A t \in Tasks, r \in Requests :
           LooksUp(t, r)' /\ op'[t].answered => op'[t].seen[r] # "handled"
  PROVE  ChargeInv'
<1> HIDE DEF Charges
<1>1. Counted' = Counted
  BY DEF Counted
<1>2. QED
  BY <1>1 DEF ChargeInv

LEMMA PlainAwaits ==
  ASSUME TypeInv, ChargeInv, NEW t \in Tasks, NEW at, NEW o, Awaits(t, at, o),
         pc[t] # "update_request", at # "update_request", at = "get_request" => o.answered = FALSE,
         UNCHANGED <<platform, done>>, metadata'.handled = metadata.handled
  PROVE  ChargeInv'
<1>1. /\ pc'[t] = at /\ op'[t] = o
      /\ \A u \in Tasks \ {t} : pc'[u] = pc[u] /\ op'[u] = op[u]
  BY DEF Awaits, TypeInv, TypeOK
<1>2. \A u \in Tasks, r \in Requests : Charges(u, r)' <=> Charges(u, r)
  BY <1>1 DEF Charges, OpCharges
<1>3. \A u \in Tasks, r \in Requests :
        LooksUp(u, r)' /\ op'[u].answered => op'[u].seen[r] # "handled"
  BY <1>1 DEF LooksUp, ChargeInv
<1>4. QED
  BY <1>2, <1>3, ChargesTheSame

(* What a task learns from the outcome of another's batch is no charge.     *)
LEMMA ChargesSettle ==
  ASSUME TypeInv, ChargeInv, NEW t \in Tasks, BatchAnswered(t)
  PROVE  ChargeInv'
<1>1. /\ \A u \in Tasks \ {t} : SameCall(u)
      /\ pc'[t] \in {"idle", "in_flight"}
      /\ \/ metadata' = metadata
         \/ metadata' = [metadata EXCEPT !.total = @ + Cardinality(op'[t].new)]
  BY BatchSettled
<1>2. \A u \in Tasks, r \in Requests : Charges(u, r)' <=> Charges(u, r)
  BY <1>1 DEF SameCall, Charges, OpCharges, BatchAnswered, Answered
<1>3. \A u \in Tasks, r \in Requests :
        LooksUp(u, r)' /\ op'[u].answered => op'[u].seen[r] # "handled"
  BY <1>1 DEF SameCall, LooksUp, ChargeInv
<1>4. metadata'.handled = metadata.handled /\ UNCHANGED <<platform, done>>
  BY <1>1 DEF BatchAnswered, TypeInv, TypeOK
<1>5. QED
  BY <1>2, <1>3, <1>4, ChargesTheSame

LEMMA SettleAvoids ==
  ASSUME TypeInv, NEW t \in Tasks, BatchAnswered(t)
  PROVE  \A u \in Tasks, r \in Requests :
           OpAvoids(pc[u], op[u], r) => OpAvoids(pc'[u], op'[u], r)
<1>1. (\A u \in Tasks \ {t} : SameCall(u)) /\ pc'[t] \in {"idle", "in_flight"}
  BY BatchSettled
<1>2. QED
  BY <1>1 DEF SameCall, OpAvoids

LEMMA ChargeInit == Init => HandledInv
<1> SUFFICES ASSUME Init PROVE HandledInv
  OBVIOUS
<1>1. \A t \in Tasks : pc[t] = "idle" /\ holds[t] = HoldsNothing /\ holds[t].request = NoRequest
  BY DEF Init, HoldsNothing, Held
<1>2. \A t \in Tasks, r \in Requests : ~Charges(t, r) /\ ~LooksUp(t, r) /\ OpAvoids(pc[t], op[t], r)
  BY <1>1 DEF Charges, OpCharges, LooksUp, OpAvoids
<1>3. Counted = {r \in Requests : platform[r] \in {"handled"}}
  BY <1>2 DEF Counted
<1>4. ChargeInv
  BY <1>2, <1>3 DEF Init, Count, ChargeInv
<1>5. OldInv
  BY <1>1, <1>2 DEF Init, OldInv, LeftAlone
<1>6. QED
  BY <1>1, <1>4, <1>5 DEF HandledInv, Unstamped

(* The request a task marks or reclaims is neither old nor counted yet.     *)
LEMMA HeldIsOpen ==
  ASSUME HandInv, HandledInv, NEW t \in Tasks, holds[t] # HoldsNothing, holds[t].request \in Requests
  PROVE  /\ holds[t].request \notin done /\ ~Old(holds[t].request)
         /\ holds[t].request \notin Counted /\ ~holds[t].stamped
<1>1. holds[t].processing /\ ~holds[t].stamped
  BY DEF HandledInv, Unstamped
<1>2. holds[t].request \notin done
  BY <1>1 DEF HandInv
<1>3. ~Old(holds[t].request)
  BY DEF HandledInv, OldInv, LeftAlone
<1>4. QED
  BY <1>1, <1>2, <1>3 DEF HandledInv, ChargeInv, Counted, Old

LEMMA MarkCharges ==
  ASSUME TypeInv, HandInv, HandledInv, NEW t \in Tasks, CallMark(t)
  PROVE  ChargeInv'
<1> DEFINE r == holds[t].request
           o == NewOp("mark", {}, r)
<1>1. holds[t] # HoldsNothing /\ r \in Requests
  BY DEF CallMark, HoldsNothing, Held, TypeInv, TypeOK
<1>2. r \notin done /\ r \notin Counted /\ ~holds[t].stamped
  BY <1>1, HeldIsOpen
<1>3. /\ pc[t] = "idle" /\ pc'[t] = "update_request" /\ op'[t] = o
      /\ \A u \in Tasks \ {t} : pc'[u] = pc[u] /\ op'[u] = op[u]
  BY DEF CallMark, Idle, Awaits, TypeInv, TypeOK
<1>4. o.request = r /\ o.call = "mark" /\ o.answered = FALSE
  BY DEF NewOp
<1> HIDE DEF o
<1>5. \A q \in Requests : Charges(t, q)' <=> q = r
  BY <1>3, <1>4 DEF Charges, OpCharges
<1>6. /\ \A q \in Requests : ~Charges(t, q)
      /\ \A u \in Tasks \ {t}, q \in Requests : Charges(u, q)' <=> Charges(u, q)
  BY <1>3 DEF Charges, OpCharges
<1> DEFINE m == holds[t].request
<1>7. /\ UNCHANGED platform /\ done' = done \cup {r}
      /\ metadata'.handled = metadata.handled + 1
  BY <1>2 DEF CallMark, TypeInv, TypeOK
<1> HIDE DEF r
<1>8. Counted' = Counted \cup {r}
  BY <1>1, <1>5, <1>6, <1>7 DEF Counted
<1>9. metadata'.handled = Cardinality(Counted')
  <2>1. Counted \in SUBSET Requests
    BY DEF Counted
  <2>2. QED
    BY <1>1, <1>2, <1>7, <1>8, <2>1, OneMore DEF r, HandledInv, ChargeInv
<1>10. \A u \in Tasks : ~Charges(u, r) /\ platform[r] # "handled"
  BY <1>1, <1>2 DEF r, Counted
<1>11. \A u \in Tasks, q \in Requests :
         LooksUp(u, q)' /\ op'[u].answered => op'[u].seen[q] # "handled"
  BY <1>3 DEF LooksUp, HandledInv, ChargeInv
<1>12. ASSUME NEW u \in Tasks, NEW q \in Requests
       PROVE  /\ Charges(u, q)' => q \in done' /\ platform'[q] # "handled"
              /\ \A v \in Tasks \ {u} : ~(Charges(u, q)' /\ Charges(v, q)')
  BY <1>5, <1>6, <1>7, <1>10 DEF HandledInv, ChargeInv
<1>13. QED
  BY <1>9, <1>11, <1>12 DEF ChargeInv

LEMMA ReclaimCharges ==
  ASSUME TypeInv, HandInv, HandledInv, NEW t \in Tasks, CallReclaim(t)
  PROVE  ChargeInv' /\ done' = done
<1> DEFINE r == holds[t].request
           o == NewOp("reclaim", {}, r)
<1>1. holds[t] # HoldsNothing /\ r \in Requests
  BY DEF CallReclaim, TypeInv, TypeOK
<1>2. r \notin done
  BY <1>1, HeldIsOpen
<1>3. /\ pc[t] = "idle" /\ pc'[t] = "update_request" /\ op'[t] = o
      /\ \A u \in Tasks \ {t} : pc'[u] = pc[u] /\ op'[u] = op[u]
  BY DEF CallReclaim, Calls, Idle, Awaits, TypeInv, TypeOK
<1>4. o.request = r /\ o.call = "reclaim" /\ o.answered = FALSE
  BY DEF NewOp
<1> HIDE DEF o
<1>5. \A u \in Tasks, q \in Requests : Charges(u, q)' <=> Charges(u, q)
  BY <1>3, <1>4 DEF Charges, OpCharges
<1>6. UNCHANGED <<platform, metadata>> /\ done' = done
  BY <1>2 DEF CallReclaim
<1>7. \A u \in Tasks, q \in Requests :
        LooksUp(u, q)' /\ op'[u].answered => op'[u].seen[q] # "handled"
  BY <1>3 DEF LooksUp, HandledInv, ChargeInv
<1>8. QED
  BY <1>5, <1>6, <1>7, ChargesTheSame DEF HandledInv

(* The answer to a reclaim takes back what was counted for a mark.          *)
LEMMA UpdatedCharges ==
  ASSUME TypeInv, HandledInv, NEW t \in Tasks, Updated(t)
  PROVE  ChargeInv'
<1> DEFINE r == op[t].request
<1>1. /\ pc[t] = "update_request" /\ op[t].answered /\ r \in Requests
      /\ op[t].call \in {"mark", "reclaim"}
  BY DEF Updated, Answered, TypeInv, CallInv
<1>2. /\ pc'[t] = "idle"
      /\ \A u \in Tasks \ {t} : pc'[u] = pc[u] /\ op'[u] = op[u]
      /\ UNCHANGED <<platform, done>>
  BY DEF Updated, Returns, Awaits, TypeInv, TypeOK, historyVars
<1>3. /\ \A q \in Requests : ~Charges(t, q)'
      /\ \A u \in Tasks \ {t}, q \in Requests : Charges(u, q)' <=> Charges(u, q)
  BY <1>2 DEF Charges, OpCharges
<1>4. \A u \in Tasks, q \in Requests :
        LooksUp(u, q)' /\ op'[u].answered => op'[u].seen[q] # "handled"
  BY <1>2 DEF LooksUp, HandledInv, ChargeInv
<1>5. \A q \in Requests : Charges(t, q) => q = r
  BY DEF Charges, OpCharges
<1>6. Charges(t, r) <=> op[t].call = "reclaim" /\ op[t].seen[r] = "handled"
  BY <1>1 DEF Charges, OpCharges
<1>7. metadata'.handled = IF Charges(t, r) THEN metadata.handled - 1 ELSE metadata.handled
  BY <1>6 DEF Updated, TypeInv, TypeOK
<1> HIDE DEF r
<1>8. CASE ~Charges(t, r)
  <2>1. \A u \in Tasks, q \in Requests : Charges(u, q)' <=> Charges(u, q)
    BY <1>3, <1>5, <1>8
  <2>2. QED
    BY <1>2, <1>4, <1>7, <1>8, <2>1, ChargesTheSame DEF HandledInv
<1>9. CASE Charges(t, r)
  <2>1. /\ platform[r] # "handled" /\ \A u \in Tasks \ {t} : ~Charges(u, r)
    BY <1>1, <1>9 DEF HandledInv, ChargeInv, r
  <2>2. Counted' = Counted \ {r}
    BY <1>2, <1>3, <1>5, <2>1 DEF Counted
  <2>3. r \in Counted /\ Counted \in SUBSET Requests
    BY <1>1, <1>9 DEF Counted, r
  <2>4. metadata'.handled = Cardinality(Counted')
    BY <1>7, <1>9, <2>2, <2>3, OneLess DEF HandledInv, ChargeInv
  <2>5. ASSUME NEW u \in Tasks, NEW q \in Requests
        PROVE  /\ Charges(u, q)' => q \in done' /\ platform'[q] # "handled"
               /\ \A v \in Tasks \ {u} : ~(Charges(u, q)' /\ Charges(v, q)')
    BY <1>2, <1>3 DEF HandledInv, ChargeInv
  <2>6. QED
    BY <1>4, <2>4, <2>5 DEF ChargeInv
<1>10. QED
  BY <1>8, <1>9

LEMMA AnswerCharges ==
  ASSUME TypeInv, HandInv, HandledInv, NEW t \in Tasks, Answer(t), failures' = failures
  PROVE  ChargeInv'
<1>1. /\ op[t] \in OpRecord /\ platform \in [Requests -> Status] /\ DOMAIN op = Tasks
      /\ failures \in Nat
  BY DEF TypeInv, TypeOK
<1>2. Reply(t).answered /\ Reply(t).seen = platform /\ Reply(t).call = op[t].call
      /\ Reply(t).request = op[t].request
  BY <1>1 DEF Reply, OpRecord
<1>3. UNCHANGED <<pc, done, metadata>>
  BY DEF Answer, AnswerRead, AnswerBatch, AnswerUpdate, clientVars, historyVars
<1>4. CASE AnswerRead(t) \/ AnswerBatch(t)
  <2>1. op'[t].seen = platform /\ \A u \in Tasks \ {t} : op'[u] = op[u]
    <3>1. CASE AnswerRead(t)
      <4>1. op' = [op EXCEPT ![t] = Reply(t)]
        BY <1>1, <3>1 DEF AnswerRead
      <4>2. QED
        BY <1>1, <1>2, <4>1
    <3>2. CASE AnswerBatch(t)
      <4>1. PICK rejected : op' = [op EXCEPT ![t] = [Reply(t) EXCEPT !.rejected = rejected]]
        BY <3>2 DEF AnswerBatch
      <4>2. [Reply(t) EXCEPT !.rejected = rejected].seen = platform
        BY <1>1 DEF Reply, OpRecord
      <4>3. QED
        BY <1>1, <4>1, <4>2
    <3>3. QED
      BY <1>4, <3>1, <3>2
  <2>2. pc[t] # "update_request"
    BY <1>4 DEF AnswerRead, AnswerBatch
  <2>3. \A u \in Tasks, r \in Requests : Charges(u, r)' <=> Charges(u, r)
    BY <1>3, <2>1, <2>2 DEF Charges, OpCharges
  <2>4. \A r \in Requests : platform'[r] = "handled" <=> platform[r] = "handled"
    BY <1>4 DEF AnswerRead, AnswerBatch
  <2>5. ASSUME NEW u \in Tasks, NEW r \in Requests, LooksUp(u, r)', op'[u].answered
        PROVE  op'[u].seen[r] # "handled"
    <3>1. CASE u # t
      BY <1>3, <2>1, <2>5, <3>1 DEF LooksUp, HandledInv, ChargeInv
    <3>2. CASE u = t
      <4>1. LooksUp(t, r)
        <5>1. AnswerRead(t)
          BY <1>3, <1>4, <2>5, <3>2 DEF LooksUp, AnswerBatch
        <5>2. op' = [op EXCEPT ![t] = Reply(t)]
          BY <1>1, <5>1 DEF AnswerRead
        <5>3. QED
          BY <1>1, <1>2, <1>3, <2>5, <3>2, <5>2 DEF LooksUp
      <4>2. r \notin done
        BY <4>1 DEF HandInv
      <4>3. ~Old(r)
        BY <4>1 DEF HandledInv, OldInv, LeftAlone, OpAvoids, LooksUp
      <4>4. QED
        BY <2>1, <3>2, <4>2, <4>3 DEF Old
    <3>3. QED
      BY <3>1, <3>2
  <2>6. QED
    BY <1>3, <2>3, <2>4, <2>5, ChargesTheSame DEF HandledInv
<1>5. CASE AnswerUpdate(t)
  <2>0. PICK r \in Requests : r = op[t].request
    BY <1>5 DEF AnswerUpdate, TypeInv, CallInv
  <2>1. /\ pc[t] = "update_request" /\ ~op[t].answered /\ r \in Requests
        /\ op[t].call \in {"mark", "reclaim"} /\ r = op[t].request
    BY <1>5, <2>0 DEF AnswerUpdate, TypeInv, CallInv
  <2>2. /\ op'[t] = Reply(t) /\ \A u \in Tasks \ {t} : op'[u] = op[u]
        /\ platform' = [platform EXCEPT ![r] = IF op[t].call = "mark" THEN "handled" ELSE "pending"]
    BY <1>1, <1>5, <2>1 DEF AnswerUpdate
  <2>3. \A u \in Tasks, q \in Requests :
          LooksUp(u, q)' /\ op'[u].answered => op'[u].seen[q] # "handled"
    BY <1>3, <2>1, <2>2 DEF LooksUp, HandledInv, ChargeInv
  <2>4. \A u \in Tasks \ {t}, q \in Requests : Charges(u, q)' <=> Charges(u, q)
    BY <1>3, <2>2 DEF Charges, OpCharges
  <2>5. /\ \A q \in Requests : Charges(t, q) <=> q = r /\ op[t].call = "mark"
        /\ \A q \in Requests :
             Charges(t, q)' <=> q = r /\ op[t].call = "reclaim" /\ platform[r] = "handled"
    BY <1>2, <1>3, <2>1, <2>2 DEF Charges, OpCharges
  <2>6. ~Old(r)
    BY <2>1 DEF HandledInv, OldInv, LeftAlone, OpAvoids
  <2>7. \A q \in Requests : q # r => platform'[q] = platform[q]
    BY <1>1, <2>2
  <2>8. platform'[r] = IF op[t].call = "mark" THEN "handled" ELSE "pending"
    BY <1>1, <2>1, <2>2
  <2>9. Counted' = Counted
    <3>1. \A u \in Tasks \ {t} : platform[r] = "handled" \/ Charges(t, r) => ~Charges(u, r)
      BY <2>1 DEF HandledInv, ChargeInv
    <3>2. CASE op[t].call = "mark"
      BY <2>1, <2>4, <2>5, <2>7, <2>8, <3>1, <3>2 DEF Counted
    <3>3. CASE op[t].call = "reclaim"
      BY <2>1, <2>4, <2>5, <2>7, <2>8, <3>1, <3>3 DEF Counted
    <3>4. QED
      BY <2>1, <3>2, <3>3
  <2>10. ASSUME NEW u \in Tasks, NEW q \in Requests
         PROVE  /\ Charges(u, q)' => q \in done' /\ platform'[q] # "handled"
                /\ \A v \in Tasks \ {u} : ~(Charges(u, q)' /\ Charges(v, q)')
    <3>1. CASE q # r
      BY <1>3, <2>4, <2>5, <2>7, <3>1 DEF HandledInv, ChargeInv
    <3>2. CASE q = r /\ op[t].call = "mark"
      <4>1. \A v \in Tasks : ~Charges(v, r)'
        BY <2>1, <2>4, <2>5, <3>2 DEF HandledInv, ChargeInv
      <4>2. QED
        BY <3>2, <4>1
    <3>3. CASE q = r /\ op[t].call = "reclaim"
      <4>1. platform'[r] # "handled"
        BY <2>8, <3>3
      <4>2. \A v \in Tasks : Charges(v, r)' => r \in done
        BY <2>1, <2>4, <2>5, <2>6, <3>3 DEF HandledInv, ChargeInv, Old
      <4>3. Charges(t, r)' => \A v \in Tasks \ {t} : ~Charges(v, r)'
        BY <2>1, <2>4, <2>5, <3>3 DEF HandledInv, ChargeInv
      <4>4. \A v, w \in Tasks \ {t} : v # w => ~(Charges(v, r)' /\ Charges(w, r)')
        BY <2>1, <2>4, <3>3 DEF HandledInv, ChargeInv
      <4>5. QED
        BY <1>3, <3>3, <4>1, <4>2, <4>3, <4>4
    <3>4. QED
      BY <2>1, <3>1, <3>2, <3>3
  <2>11. metadata'.handled = Cardinality(Counted')
    BY <1>3, <2>9 DEF HandledInv, ChargeInv
  <2>12. QED
    BY <2>3, <2>10, <2>11 DEF ChargeInv
<1>6. QED
  BY <1>4, <1>5 DEF Answer

(* The other steps, of which none is the answer to an update.               *)
LEMMA ChargeOtherwise ==
  ASSUME TypeInv, ChargeInv, NEW t \in Tasks,
         \/ CallAdd(t) \/ CallGet(t) \/ CallFetch(t) \/ CallFinished(t)
         \/ CachesListed(t) \/ AddReturns(t) \/ FetchHeadListed(t) \/ FetchedRequest(t)
         \/ FinishedHeadListed(t) \/ GotRequest(t)
  PROVE  ChargeInv'
<1> DEFINE Plain == \E at, o : /\ Awaits(t, at, o) /\ at # "update_request"
                               /\ at = "get_request" => o.answered = FALSE
<1>1. /\ UNCHANGED <<platform, done>> /\ pc[t] # "update_request"
      /\ metadata'.handled = metadata.handled
  <2>1. UNCHANGED <<platform, done>> /\ pc[t] # "update_request"
    BY DEF CallAdd, CallGet, CallFetch, CallFinished, CachesListed, AddReturns, FetchHeadListed,
           FetchedRequest, FinishedHeadListed, GotRequest, Calls, Idle, Answered, historyVars
  <2>2. \/ metadata' = metadata
        \/ metadata' = [metadata EXCEPT !.total = @ + CountsAsNew(op[t])]
    BY DEF CallAdd, CallGet, CallFetch, CallFinished, CachesListed, AddReturns, FetchHeadListed,
           FetchedRequest, FinishedHeadListed, GotRequest, clientVars
  <2>3. QED
    BY <2>1, <2>2 DEF TypeInv, TypeOK
<1>2. ASSUME Plain
      PROVE  ChargeInv'
  BY <1>1, <1>2, PlainAwaits
<1>3. ASSUME NEW b, Dispatch(t, b)
      PROVE  Plain
  <2>1. \E at \in {"batch_add", "in_flight", "idle"} : \E o : Awaits(t, at, o)
    BY <1>3 DEF Dispatch, Returns
  <2>2. QED
    BY <2>1
<1>4. ASSUME NEW h, NEW progress, Popped(t, h, progress)
      PROVE  Plain
  <2>1. \/ \E o : Awaits(t, "idle", o)
        \/ \E q : Awaits(t, "get_request", NewOp("fetch", {}, q))
    BY <1>4 DEF Popped, Returns
  <2>2. \A q : NewOp("fetch", {}, q).answered = FALSE
    BY DEF NewOp
  <2>3. QED
    BY <2>1, <2>2
<1>5. head \in Seq(Requests)
  BY DEF TypeInv, TypeOK
<1>6. CASE CallAdd(t) \/ CachesListed(t)
  <2>1. \/ \E b : Dispatch(t, b)
        \/ \E o : Awaits(t, "list_requests", o)
    BY <1>6 DEF CallAdd, CachesListed
  <2>2. Plain
    <3>1. CASE \E b : Dispatch(t, b)
      BY <1>3, <3>1
    <3>2. CASE \E o : Awaits(t, "list_requests", o)
      BY <3>2
    <3>3. QED
      BY <2>1, <3>1, <3>2
  <2>3. QED
    BY <1>2, <2>2
<1>7. CASE \/ CallFetch(t) /\ ~(Len(head) <= 1)
           \/ FetchHeadListed(t)
           \/ FetchedRequest(t) /\ op[t].seen[op[t].request] = "absent"
  <2>1. \E h \in Seq(Requests) : \E progress : PopFrom(t, h, progress)
    BY <1>5, <1>7, ListedHead DEF CallFetch, FetchHeadListed, FetchedRequest
  <2>2. \E h, progress : Popped(t, h, progress)
    BY <2>1, PopOutcome
  <2>3. QED
    BY <1>2, <1>4, <2>2
<1>8. CASE \/ CallFetch(t) /\ Len(head) <= 1
           \/ CallFinished(t) \/ AddReturns(t) \/ FinishedHeadListed(t) \/ GotRequest(t)
           \/ FetchedRequest(t) /\ op[t].seen[op[t].request] # "absent"
  <2>1. \E at \in {"idle", "list_head"} : \E o : Awaits(t, at, o)
    BY <1>8 DEF CallFetch, CallFinished, AddReturns, FinishedHeadListed, GotRequest,
                FetchedRequest, Verdict, Returns
  <2>2. QED
    BY <1>2, <2>1
<1>9. CASE CallGet(t)
  <2>1. \/ \E o : Awaits(t, "idle", o)
        \/ \E q : Awaits(t, "get_request", NewOp("get", {}, q))
    BY <1>9 DEF CallGet, Returns
  <2>2. \A q : NewOp("get", {}, q).answered = FALSE
    BY DEF NewOp
  <2>3. Plain
    BY <2>1, <2>2
  <2>4. QED
    BY <1>2, <2>3
<1>10. QED
  BY <1>6, <1>7, <1>8, <1>9

(* Nobody reclaims what it has marked, and a mark on its way is done here.  *)
Occupied == \A t \in Tasks : holds[t] # HoldsNothing => holds[t].processing

MarksDone ==
  \A t \in Tasks : pc[t] = "update_request" /\ op[t].call = "mark" /\ ~op[t].answered =>
    op[t].request \in done

LEMMA OldShrinks ==
  ASSUME TypeInv, HandInv, Occupied, MarksDone, NEW t \in Tasks, Call(t) \/ Answer(t) \/ Resume(t),
         NEW r \in Requests, Old(r)'
  PROVE  Old(r)
<1>1. platform \in [Requests -> Status]
  BY DEF TypeInv, TypeOK
<1>2. CASE AnswerUpdate(t)
  <2>1. /\ pc[t] = "update_request" /\ ~op[t].answered /\ done' = done
        /\ platform' = [platform EXCEPT ![op[t].request] =
                          IF op[t].call = "mark" THEN "handled" ELSE "pending"]
    BY <1>2 DEF AnswerUpdate, historyVars
  <2>2. op[t].request = r /\ op[t].call = "mark" => r \in done
    BY <2>1 DEF MarksDone
  <2>3. op[t].request # r \/ platform'[r] # "handled"
    BY <1>1, <2>1, <2>2 DEF Old
  <2>4. platform[r] = "handled"
    BY <1>1, <2>1, <2>3 DEF Old
  <2>5. QED
    BY <2>1, <2>4 DEF Old
<1>3. CASE CallReclaim(t)
  <2>1. holds[t].request \in Requests /\ holds[t].request \notin done
    BY <1>3 DEF CallReclaim, Occupied, HandInv, TypeInv, TypeOK
  <2>2. QED
    BY <1>3, <2>1 DEF CallReclaim, Old
<1>4. CASE Answer(t) /\ ~AnswerUpdate(t)
  BY <1>1, <1>4 DEF Answer, AnswerRead, AnswerBatch, historyVars, Old
<1>5. CASE Call(t) /\ ~CallReclaim(t)
  BY <1>5 DEF Call, CallAdd, CallGet, CallFetch, CallFinished, CallMark, historyVars, Old
<1>6. CASE Resume(t)
  BY <1>6 DEF Resume, CachesListed, BatchAnswered, AddReturns, FetchHeadListed, FetchedRequest,
              FinishedHeadListed, GotRequest, Updated, historyVars, Old
<1>7. QED
  BY <1>2, <1>3, <1>4, <1>5, <1>6

LEMMA AwaitsAvoids ==
  ASSUME TypeInv, NEW r \in Requests, LeftAlone(r), NEW t \in Tasks, NEW at, NEW o,
         Awaits(t, at, o), OpAvoids(at, o, r), \A i \in DOMAIN head' : head'[i] # r,
         r \notin cache', initialized' => r \in handled',
         \A u \in Tasks : holds'[u].request # r
  PROVE  LeftAlone(r)'
<1>1. /\ pc'[t] = at /\ op'[t] = o
      /\ \A u \in Tasks \ {t} : pc'[u] = pc[u] /\ op'[u] = op[u]
  BY DEF Awaits, TypeInv, TypeOK
<1>2. ASSUME NEW u \in Tasks
      PROVE  OpAvoids(pc'[u], op'[u], r)
  BY <1>1 DEF LeftAlone
<1>3. QED
  BY <1>2 DEF LeftAlone

LEMMA NewOpAvoids ==
  ASSUME NEW r \in Requests, NEW at, NEW call, NEW b, NEW q, q # r, at = "batch_add" => r \notin b
  PROVE  OpAvoids(at, NewOp(call, b, q), r)
BY DEF OpAvoids, NewOp

LEMMA IdleAvoids ==
  ASSUME NEW r \in Requests, NEW at \in {"idle", "in_flight"}, NEW o
  PROVE  OpAvoids(at, o, r)
BY DEF OpAvoids

LEMMA DispatchAvoids ==
  ASSUME NEW r \in Requests, NEW t \in Tasks, NEW b, Dispatch(t, b), r \in handled'
  PROVE  \E at, o : Awaits(t, at, o) /\ OpAvoids(at, o, r)
<1> DEFINE known == b \cap (handled' \cup cache')
           waits == b \ (known \cup ToSend(b))
           record == [NewOp("add", ToSend(b), NoRequest) EXCEPT !.known = known, !.waits = waits]
<1>1. \E at \in {"batch_add", "in_flight", "idle"} : Awaits(t, at, record)
  BY DEF Dispatch, Returns
<1>2. r \notin record.batch
  BY DEF NewOp, ToSend
<1> HIDE DEF record
<1>3. \A at \in {"batch_add", "in_flight", "idle"} : OpAvoids(at, record, r)
  BY <1>2 DEF OpAvoids
<1>4. QED
  BY <1>1, <1>3

LEMMA PoppedAvoids ==
  ASSUME TypeInv, NEW r \in Requests, LeftAlone(r), NEW t \in Tasks, NEW h, NEW progress,
         Popped(t, h, progress), \A i \in DOMAIN h : h[i] # r,
         UNCHANGED <<initialized, cache, handled>>
  PROVE  LeftAlone(r)'
<1>1. r \notin cache' /\ (initialized' => r \in handled')
  BY DEF LeftAlone
<1>2. \A i \in DOMAIN head' : head'[i] # r
  <2>1. CASE head' = <<>>
    BY <2>1
  <2>2. CASE head' # <<>>
    <3>1. \A i \in DOMAIN head' : \E k \in DOMAIN h : head'[i] = h[k]
      BY <2>2 DEF Popped
    <3>2. QED
      BY <3>1
  <2>3. QED
    BY <2>1, <2>2
<1>3. \A u \in Tasks : holds'[u].request # r
  <2>1. \/ holds' = holds
        \/ \E j \in DOMAIN h : holds' = [holds EXCEPT ![t] = Held(h[j], FALSE, TRUE)]
    BY DEF Popped
  <2>2. \A u \in Tasks : holds[u].request # r
    BY DEF LeftAlone
  <2>3. DOMAIN holds = Tasks
    BY DEF TypeInv, TypeOK
  <2>4. QED
    BY <2>1, <2>2, <2>3 DEF Held
<1>4. \/ Awaits(t, "idle", NoOp)
      \/ \E j \in DOMAIN h : Awaits(t, "get_request", NewOp("fetch", {}, h[j]))
  BY DEF Popped, Returns
<1>5. \A j \in DOMAIN h : OpAvoids("get_request", NewOp("fetch", {}, h[j]), r)
  BY NewOpAvoids
<1>6. \E at, o : Awaits(t, at, o) /\ OpAvoids(at, o, r)
  BY <1>4, <1>5, IdleAvoids
<1>7. QED
  BY <1>1, <1>2, <1>3, <1>6, AwaitsAvoids

LEMMA OldAnswers ==
  ASSUME TypeInv, NEW r \in Requests, Old(r), LeftAlone(r), NEW t \in Tasks, Answer(t)
  PROVE  LeftAlone(r)'
<1>1. /\ op[t] \in OpRecord /\ pc = [u \in Tasks |-> pc[u]]
  BY DEF TypeInv, TypeOK
<1>2. UNCHANGED <<pc, head, cache, handled, initialized, holds>>
  BY DEF Answer, AnswerRead, AnswerBatch, AnswerUpdate, clientVars
<1>3. PICK o : /\ op' = [op EXCEPT ![t] = o]
               /\ o.seen = platform \/ (pc[t] = "get_request" /\ o.seen = Nothing)
               /\ o.batch = op[t].batch /\ o.call = op[t].call /\ o.request = op[t].request
  <2>1. /\ Reply(t).seen = platform /\ Reply(t).batch = op[t].batch
        /\ Reply(t).call = op[t].call /\ Reply(t).request = op[t].request
    BY <1>1 DEF Reply, OpRecord
  <2>2. CASE AnswerRead(t) \/ AnswerUpdate(t)
    <3>1. CASE op' = [op EXCEPT ![t] = Reply(t)]
      BY <2>1, <3>1
    <3>2. CASE pc[t] = "get_request" /\ op' = [op EXCEPT ![t] = [Reply(t) EXCEPT !.seen = Nothing]]
      <4> DEFINE o == [Reply(t) EXCEPT !.seen = Nothing]
      <4>1. /\ o.seen = Nothing /\ o.batch = op[t].batch
            /\ o.call = op[t].call /\ o.request = op[t].request
        BY <1>1 DEF Reply, OpRecord
      <4>2. op' = [op EXCEPT ![t] = o] /\ pc[t] = "get_request"
        BY <3>2
      <4> HIDE DEF o
      <4>3. QED
        BY <4>1, <4>2
    <3>3. QED
      BY <2>2, <3>1, <3>2 DEF AnswerRead, AnswerUpdate
  <2>3. CASE AnswerBatch(t)
    <3>1. PICK rejected : op' = [op EXCEPT ![t] = [Reply(t) EXCEPT !.rejected = rejected]]
      BY <2>3 DEF AnswerBatch
    <3>2. LET o == [Reply(t) EXCEPT !.rejected = rejected]
          IN  /\ o.seen = platform /\ o.batch = op[t].batch
              /\ o.call = op[t].call /\ o.request = op[t].request
      BY <1>1 DEF Reply, OpRecord
    <3>3. QED
      BY <3>1, <3>2
  <2>4. QED
    BY <2>2, <2>3 DEF Answer
<1>4. OpAvoids(pc[t], op[t], r) /\ platform[r] = "handled"
  BY DEF LeftAlone, Old
<1>5. OpAvoids(pc[t], o, r)
  BY <1>3, <1>4 DEF OpAvoids, Nothing
<1>6. Awaits(t, pc[t], o)
  BY <1>1, <1>2, <1>3 DEF Awaits
<1>7. \A u \in Tasks : holds'[u].request # r
  BY <1>2 DEF LeftAlone
<1>8. \A i \in DOMAIN head' : head'[i] # r
  BY <1>2 DEF LeftAlone
<1>9. r \notin cache' /\ (initialized' => r \in handled')
  BY <1>2 DEF LeftAlone
<1>10. QED
  BY <1>5, <1>6, <1>7, <1>8, <1>9, AwaitsAvoids

LEMMA OldCalls ==
  ASSUME TypeInv, NEW r \in Requests, Old(r), LeftAlone(r), NEW t \in Tasks, Call(t)
  PROVE  LeftAlone(r)'
<1>1. /\ \A i \in DOMAIN head : head[i] # r
      /\ r \notin cache /\ (initialized => r \in handled)
      /\ \A u \in Tasks : holds[u].request # r
  BY DEF LeftAlone
<1>2. head \in Seq(Requests) /\ DOMAIN holds = Tasks /\ NoRequest # r
  BY DEF TypeInv, TypeOK
<1>3. ASSUME NEW at, NEW o, Awaits(t, at, o), OpAvoids(at, o, r),
             UNCHANGED <<head, cache, handled, initialized, holds>>
      PROVE  LeftAlone(r)'
  BY <1>1, <1>3, AwaitsAvoids
<1>4. CASE CallAdd(t)
  <2>1. \E at, o : Awaits(t, at, o) /\ OpAvoids(at, o, r)
    <3>1. CASE initialized
      <4>1. PICK b : Dispatch(t, b)
        BY <1>4, <3>1 DEF CallAdd
      <4>2. r \in handled'
        BY <1>1, <1>4, <3>1 DEF CallAdd
      <4>3. QED
        BY <4>1, <4>2, DispatchAvoids
    <3>2. CASE ~initialized
      <4>1. PICK b : Awaits(t, "list_requests", NewOp("add", b, NoRequest))
        BY <1>4, <3>2 DEF CallAdd
      <4>2. OpAvoids("list_requests", NewOp("add", b, NoRequest), r)
        BY <1>2, NewOpAvoids
      <4>3. QED
        BY <4>1, <4>2
    <3>3. QED
      BY <3>1, <3>2
  <2>2. UNCHANGED <<head, cache, handled, initialized, holds>>
    BY <1>4 DEF CallAdd
  <2>3. QED
    BY <1>3, <2>1, <2>2
<1>5. CASE CallGet(t) \/ CallFinished(t) \/ (CallFetch(t) /\ Len(head) <= 1)
  <2>1. /\ NewOp("fetch", {}, NoRequest).call = "fetch"
        /\ \A q : NewOp("get", {}, q).call = "get" /\ ~NewOp("get", {}, q).answered
        /\ \A call : ~NewOp(call, {}, NoRequest).answered
    BY DEF NewOp
  <2>2. /\ \A q : OpAvoids("get_request", NewOp("get", {}, q), r)
        /\ \A call : OpAvoids("list_head", NewOp(call, {}, NoRequest), r)
    BY <2>1 DEF OpAvoids
  <2>3. \/ \E o : Awaits(t, "idle", o)
        \/ \E q : Awaits(t, "get_request", NewOp("get", {}, q))
        \/ \E call : Awaits(t, "list_head", NewOp(call, {}, NoRequest))
    BY <1>5 DEF CallGet, CallFinished, CallFetch, Verdict, Returns
  <2>4. \E at, o : Awaits(t, at, o) /\ OpAvoids(at, o, r)
    BY <2>2, <2>3, IdleAvoids
  <2>5. UNCHANGED <<head, cache, handled, initialized, holds>>
    BY <1>5 DEF CallGet, CallFinished, CallFetch, clientVars
  <2>6. QED
    BY <1>3, <2>4, <2>5
<1>6. CASE CallFetch(t) /\ ~(Len(head) <= 1)
  <2>1. Popped(t, head, inProgress)
    BY <1>2, <1>6, PopOutcome DEF CallFetch
  <2>2. UNCHANGED <<initialized, cache, handled>>
    BY <1>6 DEF CallFetch
  <2>3. QED
    BY <1>1, <2>1, <2>2, PoppedAvoids
<1>7. CASE CallMark(t)
  <2>1. /\ Awaits(t, "update_request", NewOp("mark", {}, holds[t].request))
        /\ cache' = cache \ {holds[t].request} /\ handled' = handled \cup {holds[t].request}
        /\ UNCHANGED <<head, initialized>>
        /\ holds' = [holds EXCEPT ![t] = IF ReclaimsHandled THEN Held(holds[t].request, TRUE, FALSE)
                                         ELSE HoldsNothing]
    BY <1>7 DEF CallMark
  <2>2. OpAvoids("update_request", NewOp("mark", {}, holds[t].request), r)
    BY <1>1, NewOpAvoids
  <2>3. \A u \in Tasks : holds'[u].request # r
    BY <1>1, <1>2, <2>1 DEF Held, HoldsNothing
  <2>4. QED
    BY <1>1, <2>1, <2>2, <2>3, AwaitsAvoids
<1>8. CASE CallReclaim(t)
  <2> DEFINE q == holds[t].request
  <2>1. /\ Awaits(t, "update_request", NewOp("reclaim", {}, q))
        /\ cache' = cache \cup {q} /\ handled' = handled \ {q}
        /\ UNCHANGED initialized
        /\ holds' = [holds EXCEPT ![t] = HoldsNothing]
        /\ holds[t] # HoldsNothing
    BY <1>8 DEF CallReclaim
  <2>2. q # r /\ OpAvoids("update_request", NewOp("reclaim", {}, q), r)
    BY <1>1, NewOpAvoids
  <2>3. \A u \in Tasks : holds'[u].request # r
    BY <1>1, <1>2, <2>1 DEF Held, HoldsNothing
  <2>4. \A i \in DOMAIN head' : head'[i] # r
    <3>1. q \in Requests
      BY <2>1 DEF TypeInv, TypeOK
    <3>2. <<q>> \in Seq(Requests) /\ \A i \in DOMAIN <<q>> : <<q>>[i] = q
      BY <3>1
    <3>3. \A i \in DOMAIN (<<q>> \o head) : (<<q>> \o head)[i] # r
      BY <1>1, <1>2, <2>2, <3>2, ConcatKeeps
    <3>4. head' \in {head, <<q>> \o head}
      BY <1>8 DEF CallReclaim
    <3>5. QED
      BY <1>1, <3>3, <3>4
  <2>5. QED
    BY <1>1, <2>1, <2>2, <2>3, <2>4, AwaitsAvoids
<1>9. QED
  BY <1>4, <1>5, <1>6, <1>7, <1>8 DEF Call

LEMMA OldResumes ==
  ASSUME TypeInv, NEW r \in Requests, Old(r), LeftAlone(r), NEW t \in Tasks, Resume(t)
  PROVE  LeftAlone(r)'
<1>1. /\ \A i \in DOMAIN head : head[i] # r
      /\ r \notin cache /\ (initialized => r \in handled)
      /\ \A u \in Tasks : holds[u].request # r
      /\ \A u \in Tasks : OpAvoids(pc[u], op[u], r)
  BY DEF LeftAlone
<1>2. head \in Seq(Requests) /\ DOMAIN holds = Tasks /\ op[t] \in OpRecord /\ OpsOK
  BY DEF TypeInv, TypeOK, OpsOK, Places
<1>3. ASSUME NEW h \in HeadWithNews(t), Answered(t, "list_head")
      PROVE  h \in Seq(Requests) /\ \A i \in DOMAIN h : h[i] # r
  <2>1. op[t].seen[r] = "handled"
    BY <1>1, <1>3 DEF OpAvoids, Answered
  <2>2. QED
    BY <1>1, <1>2, <2>1, ListedHead
<1>4. CASE CachesListed(t)
  <2>1. op[t].seen[r] = "handled"
    BY <1>1, <1>4 DEF CachesListed, Answered, OpAvoids
  <2>2. r \in handled' /\ r \notin cache'
    BY <1>1, <1>4, <2>1 DEF CachesListed
  <2>3. \E at, o : Awaits(t, at, o) /\ OpAvoids(at, o, r)
    BY <1>4, <2>2, DispatchAvoids DEF CachesListed
  <2>4. UNCHANGED <<head, holds>>
    BY <1>4 DEF CachesListed
  <2>5. QED
    BY <1>1, <2>2, <2>3, <2>4, AwaitsAvoids
<1>5. CASE BatchAnswered(t)
  <2>1. r \notin Committed(t)
    BY <1>1, <1>5 DEF BatchAnswered, Answered, OpAvoids, Committed
  <2>2. \A i \in DOMAIN head' : head'[i] # r
    BY <1>1, <1>2, <1>5, <2>1, BatchHead
  <2>3. r \notin cache' /\ (initialized' => r \in handled') /\ holds' = holds
    BY <1>1, <1>5, <2>1 DEF BatchAnswered
  <2>4. \A u \in Tasks : OpAvoids(pc'[u], op'[u], r)
    BY <1>1, <1>5, SettleAvoids
  <2>5. QED
    BY <1>1, <2>2, <2>3, <2>4 DEF LeftAlone
<1>6. CASE AddReturns(t) \/ FinishedHeadListed(t) \/ GotRequest(t) \/ Updated(t)
  <2>1. \E o : Awaits(t, "idle", o)
    BY <1>6 DEF AddReturns, FinishedHeadListed, GotRequest, Updated, Verdict, Returns
  <2>2. \E at, o : Awaits(t, at, o) /\ OpAvoids(at, o, r)
    BY <2>1, IdleAvoids
  <2>3. \A i \in DOMAIN head' : head'[i] # r
    <3>1. CASE FinishedHeadListed(t)
      BY <1>3, <3>1 DEF FinishedHeadListed
    <3>2. CASE AddReturns(t) \/ GotRequest(t) \/ Updated(t)
      BY <1>1, <3>2 DEF AddReturns, GotRequest, Updated
    <3>3. QED
      BY <1>6, <3>1, <3>2
  <2>4. r \notin cache' /\ (initialized' => r \in handled')
    <3>1. CASE GotRequest(t)
      <4>1. op[t].seen[r] # "pending"
        BY <1>1, <3>1 DEF GotRequest, Answered, OpAvoids
      <4>2. cache' \subseteq cache \cup {q \in Requests : op[t].seen[q] = "pending"}
        <5>1. op[t].request \in Requests
          BY <1>2, <3>1 DEF GotRequest, Answered, OpsOK, CallInv
        <5>2. QED
          BY <3>1, <5>1 DEF GotRequest
      <4>3. handled \subseteq handled' /\ initialized' = initialized
        BY <3>1 DEF GotRequest
      <4>4. QED
        BY <1>1, <4>1, <4>2, <4>3
    <3>2. CASE AddReturns(t) \/ FinishedHeadListed(t) \/ Updated(t)
      BY <1>1, <3>2 DEF AddReturns, FinishedHeadListed, Updated
    <3>3. QED
      BY <1>6, <3>1, <3>2
  <2>5. holds' = holds
    BY <1>6 DEF AddReturns, FinishedHeadListed, GotRequest, Updated
  <2>6. QED
    BY <1>1, <2>2, <2>3, <2>4, <2>5, AwaitsAvoids
<1>7. ASSUME NEW h \in Seq(Requests), NEW progress, PopFrom(t, h, progress),
             \A i \in DOMAIN h : h[i] # r, UNCHANGED <<initialized, cache, handled>>
      PROVE  LeftAlone(r)'
  BY <1>7, PopOutcome, PoppedAvoids
<1>8. CASE FetchHeadListed(t)
  <2>1. PICK h \in HeadWithNews(t) : PopFrom(t, h, inProgress)
    BY <1>8 DEF FetchHeadListed
  <2>2. h \in Seq(Requests) /\ \A i \in DOMAIN h : h[i] # r
    BY <1>3, <1>8 DEF FetchHeadListed
  <2>3. UNCHANGED <<initialized, cache, handled>>
    BY <1>8 DEF FetchHeadListed
  <2>4. QED
    BY <1>7, <2>1, <2>2, <2>3
<1>9. CASE FetchedRequest(t)
  <2>1. UNCHANGED <<initialized, cache, handled>>
    BY <1>9 DEF FetchedRequest
  <2>2. CASE op[t].seen[op[t].request] = "absent"
    <3>1. PopFrom(t, head, inProgress \ {op[t].request})
      BY <1>9, <2>2 DEF FetchedRequest
    <3>2. QED
      BY <1>1, <1>2, <1>7, <2>1, <3>1
  <2>3. CASE op[t].seen[op[t].request] # "absent"
    <3>1. /\ Awaits(t, "idle", NoOp) /\ head' = head
          /\ \E b \in BOOLEAN : holds' = [holds EXCEPT ![t] = Held(op[t].request, b, TRUE)]
      BY <1>9, <2>3 DEF FetchedRequest, Returns
    <3>2. op[t].request # r
      BY <1>1, <1>9 DEF FetchedRequest, Answered, OpAvoids
    <3>3. \A u \in Tasks : holds'[u].request # r
      BY <1>1, <1>2, <3>1, <3>2 DEF Held
    <3>4. QED
      BY <1>1, <2>1, <3>1, <3>3, IdleAvoids, AwaitsAvoids
  <2>4. QED
    BY <2>2, <2>3
<1>10. QED
  BY <1>4, <1>5, <1>6, <1>8, <1>9 DEF Resume

(* What a task is handed is not stamped: the platform had not reported it   *)
(* as handled.                                                              *)
LEMMA StaysUnstamped ==
  ASSUME TypeInv, HandledInv, ~ReclaimsHandled, NEW t \in Tasks,
         Call(t) \/ Answer(t) \/ Resume(t)
  PROVE  Unstamped'
<1>1. head \in Seq(Requests) /\ DOMAIN holds = Tasks
  BY DEF TypeInv, TypeOK
<1>2. ASSUME \/ UNCHANGED holds
             \/ holds' = [holds EXCEPT ![t] = HoldsNothing]
             \/ \E q : holds' = [holds EXCEPT ![t] = Held(q, FALSE, TRUE)]
      PROVE  Unstamped'
  BY <1>1, <1>2 DEF HandledInv, Unstamped, Held
<1>3. CASE \/ CallFetch(t) /\ ~(Len(head) <= 1)
           \/ FetchHeadListed(t)
           \/ FetchedRequest(t) /\ op[t].seen[op[t].request] = "absent"
  <2>1. \E h \in Seq(Requests) : \E progress : PopFrom(t, h, progress)
    BY <1>1, <1>3, ListedHead DEF CallFetch, FetchHeadListed, FetchedRequest
  <2>2. \E h, progress : Popped(t, h, progress)
    BY <2>1, PopOutcome
  <2>3. QED
    BY <1>2, <2>2 DEF Popped
<1>4. CASE FetchedRequest(t) /\ op[t].seen[op[t].request] # "absent"
  <2>1. op[t].request \in Requests /\ LooksUp(t, op[t].request) /\ op[t].answered
    BY <1>4 DEF FetchedRequest, Answered, LooksUp, TypeInv, CallInv
  <2>2. op[t].seen[op[t].request] # "handled"
    BY <2>1 DEF HandledInv, ChargeInv
  <2>3. holds' = [holds EXCEPT ![t] = Held(op[t].request, FALSE, TRUE)]
    BY <1>4, <2>2 DEF FetchedRequest
  <2>4. QED
    BY <1>2, <2>3
<1>5. CASE CallMark(t) \/ CallReclaim(t)
  BY <1>2, <1>5 DEF CallMark, CallReclaim
<1>6. CASE \/ CallFetch(t) /\ Len(head) <= 1
           \/ CallAdd(t) \/ CallGet(t) \/ CallFinished(t) \/ Answer(t)
           \/ CachesListed(t) \/ BatchAnswered(t) \/ AddReturns(t)
           \/ FinishedHeadListed(t) \/ GotRequest(t) \/ Updated(t)
  <2>1. UNCHANGED holds
    BY <1>6 DEF CallFetch, CallAdd, CallGet, CallFinished, Answer, AnswerRead, AnswerBatch,
                AnswerUpdate, CachesListed, BatchAnswered, AddReturns, FinishedHeadListed,
                GotRequest, Updated
  <2>2. QED
    BY <1>2, <2>1
<1>7. QED
  BY <1>3, <1>4, <1>5, <1>6 DEF Call, Resume

LEMMA HandledStep ==
  TypeInv /\ HandInv /\ (Alone /\ ~ReclaimsHandled => HandledInv) /\ [Next]_vars
    => (Alone' /\ ~ReclaimsHandled => HandledInv')
<1> SUFFICES ASSUME TypeInv, HandInv, Alone /\ ~ReclaimsHandled => HandledInv, [Next]_vars,
                    Alone', ~ReclaimsHandled
             PROVE  HandledInv'
  OBVIOUS
<1>1. /\ HandledInv /\ failures' = failures
      /\ (\E t \in Tasks : Call(t) \/ Answer(t) \/ Resume(t)) \/ UNCHANGED vars
  BY StaysAlone
<1>2. CASE UNCHANGED vars
  <2>1. ChargeInv'
    BY <1>1, <1>2 DEF HandledInv, ChargeInv, Counted, Charges, LooksUp, vars, clientVars, taskVars,
                      historyVars
  <2>2. OldInv' /\ Unstamped'
    BY <1>1, <1>2 DEF HandledInv, OldInv, Old, LeftAlone, Unstamped, vars, clientVars, taskVars,
                      historyVars
  <2>3. QED
    BY <2>1, <2>2 DEF HandledInv
<1>3. ASSUME NEW t \in Tasks, Call(t) \/ Answer(t) \/ Resume(t)
      PROVE  HandledInv'
  <2>1. ChargeInv'
    <3>1. CASE Answer(t)
      BY <1>1, <3>1, AnswerCharges
    <3>2. CASE CallMark(t) \/ CallReclaim(t) \/ Updated(t)
      BY <1>1, <3>2, MarkCharges, ReclaimCharges, UpdatedCharges
    <3>3. CASE BatchAnswered(t)
      BY <1>1, <3>3, ChargesSettle DEF HandledInv
    <3>4. CASE \/ CallAdd(t) \/ CallGet(t) \/ CallFetch(t) \/ CallFinished(t)
               \/ CachesListed(t) \/ AddReturns(t) \/ FetchHeadListed(t) \/ FetchedRequest(t)
               \/ FinishedHeadListed(t) \/ GotRequest(t)
      BY <1>1, <3>4, ChargeOtherwise DEF HandledInv
    <3>5. QED
      BY <1>3, <3>1, <3>2, <3>3, <3>4 DEF Call, Resume
  <2>2. ASSUME NEW r \in Requests, Old(r)'
        PROVE  LeftAlone(r)'
    <3>1. Old(r) /\ LeftAlone(r)
      <4>1. Occupied /\ MarksDone
        <5>1. \A u \in Tasks : pc[u] = "update_request" => op[u].request \in Requests
          BY DEF TypeInv, CallInv
        <5>2. QED
          BY <1>1, <5>1 DEF HandledInv, Unstamped, ChargeInv, Charges, OpCharges, Occupied, MarksDone
      <4>2. QED
        BY <1>1, <1>3, <2>2, <4>1, OldShrinks DEF HandledInv, OldInv
    <3>2. QED
      BY <1>1, <1>3, <3>1, OldAnswers, OldCalls, OldResumes
  <2>3. OldInv'
    BY <2>2 DEF OldInv
  <2>4. Unstamped'
    BY <1>1, <1>3, StaysUnstamped
  <2>5. QED
    BY <2>1, <2>3, <2>4 DEF HandledInv
<1>4. QED
  BY <1>1, <1>2, <1>3

(* With no failed call and no other client, whenever no call is under way   *)
(* the local counters are those of the platform, whatever tasks added the   *)
(* same requests at once, and marks and reclaims were under way together.   *)
THEOREM CountersAgree == Spec => []CountsMatchPlatform
<1> DEFINE CountsInv == /\ Alone => TotalInv
                        /\ Alone /\ ~ReclaimsHandled => HandledInv
<1>1. Init => CountsInv
  BY TotalInit, ChargeInit
<1>2. TypeInv /\ PresentInv /\ HandInv /\ CountsInv /\ [Next]_vars => CountsInv'
  BY TotalStep, HandledStep
<1>3. TypeInv /\ CountsInv => CountsMatchPlatform
  <2> SUFFICES ASSUME TypeInv, CountsInv, Alone, \A t \in Tasks : Idle(t)
               PROVE  /\ metadata.total = Count(platform, {"pending", "handled"})
                      /\ ~ReclaimsHandled => metadata.handled = Count(platform, {"handled"})
    BY DEF CountsMatchPlatform, Alone
  <2>1. \A t \in Tasks : Owes(t) = {} /\ \A r \in Requests : ~Charges(t, r)
    BY DEF Idle, Owes, OpOwes, Charges, OpCharges
  <2>2. {r \in Requests : platform[r] \in {"pending", "handled"}} = Queued \ Owed
    BY <2>1 DEF TypeInv, TypeOK, Queued, Owed
  <2>3. {r \in Requests : platform[r] \in {"handled"}} = Counted
    BY <2>1 DEF Counted
  <2>4. metadata.total = Count(platform, {"pending", "handled"})
    BY <2>2 DEF TotalInv, Count
  <2>5. ASSUME ~ReclaimsHandled
        PROVE  metadata.handled = Count(platform, {"handled"})
    BY <2>3, <2>5 DEF HandledInv, ChargeInv, Count
  <2>6. QED
    BY <2>4, <2>5
<1> HIDE DEF CountsInv
<1>4. QED
  BY <1>1, <1>2, <1>3, TypeCorrect, PresentAlways, HandAlways, PTL DEF Spec

-----------------------------------------------------------------------------
(* What is_finished covers.  A request among the handled ones is handled on *)
(* the platform or was marked here, also by the answers on their way; it    *)
(* stays so because nobody reopens it.                                      *)

Settled(r) == r \in done \/ platform[r] = "handled"

(* What an answer says of handled requests is settled.                     *)
OpSettled(at, o) ==
  at \in {"list_requests", "get_request"} /\ o.answered =>
    \A r \in Requests : o.seen[r] = "handled" => Settled(r)

CoverInv ==
  /\ OldInv /\ Occupied /\ MarksDone
  /\ \A r \in handled : Settled(r)
  /\ \A t \in Tasks : OpSettled(pc[t], op[t])

LEMMA CoverInit == Init => CoverInv
<1> SUFFICES ASSUME Init PROVE CoverInv
  OBVIOUS
<1>1. \A t \in Tasks : pc[t] = "idle" /\ holds[t] = HoldsNothing
  BY DEF Init
<1>2. OldInv
  BY ChargeInit DEF HandledInv
<1>3. QED
  BY <1>1, <1>2 DEF CoverInv, Occupied, MarksDone, OpSettled, Init

LEMMA SettlesLeave ==
  ASSUME TypeInv, NEW t \in Tasks, NEW at \in Places, NEW o \in OpRecord,
         NEW committed \in SUBSET Requests, Fits(at, o), Settle(t, at, o, committed)
  PROVE  \A u \in Tasks \ {t} : SameCall(u)
<1>1. /\ pc' = [pc EXCEPT ![t] = at]
      /\ \A u \in Tasks \ {t} :
           op'[u] = [op[u] EXCEPT !.known = op'[u].known, !.waits = op'[u].waits]
  BY TypeInvParts, SettleTypes
<1>2. ASSUME NEW u \in Tasks \ {t}
      PROVE  SameCall(u)
  <2>1. PICK known, waits : op'[u] = [op[u] EXCEPT !.known = known, !.waits = waits]
    BY <1>1
  <2>2. op[u] \in OpRecord /\ pc'[u] = pc[u]
    BY <1>1 DEF TypeInv, TypeOK
  <2>3. QED
    BY <2>1, <2>2 DEF SameCall, OpRecord
<1>3. QED
  BY <1>2

(* A step of t leaves what other tasks wait for alone, and t itself waits   *)
(* for an answer that is yet to come.                                       *)
Asks(t) ==
  /\ \A u \in Tasks \ {t} : SameCall(u)
  /\ pc'[t] \in {"list_requests", "get_request"} => ~op'[t].answered
  /\ pc'[t] = "update_request" /\ op'[t].call = "mark" => op'[t].request \in done'

LEMMA AwaitsAsks ==
  ASSUME TypeInv, NEW t \in Tasks, NEW at, NEW o, Awaits(t, at, o),
         at \in {"list_requests", "get_request"} => ~o.answered,
         at = "update_request" /\ o.call = "mark" => o.request \in done'
  PROVE  Asks(t)
<1>1. /\ pc'[t] = at /\ op'[t] = o
      /\ \A u \in Tasks \ {t} : pc'[u] = pc[u] /\ op'[u] = op[u]
  BY DEF Awaits, TypeInv, TypeOK
<1>2. QED
  BY <1>1 DEF Asks, SameCall

LEMMA CallAsks ==
  ASSUME TypeInv, NEW t \in Tasks, Call(t)
  PROVE  Asks(t)
<1>1. \A call, b, q : LET o == NewOp(call, b, q)
                      IN  ~o.answered /\ o.call = call /\ o.request = q
  BY DEF NewOp
<1>2. head \in Seq(Requests)
  BY DEF TypeInv, TypeOK
<1>3. CASE CallAdd(t)
  <2>1. CASE \E b : Awaits(t, "list_requests", NewOp("add", b, NoRequest))
    BY <1>1, <2>1, AwaitsAsks
  <2>2. CASE \E b : Dispatch(t, b)
    <3>1. \E at \in {"batch_add", "in_flight", "idle"} : \E o : Awaits(t, at, o)
      BY <2>2 DEF Dispatch, Returns
    <3>2. QED
      BY <3>1, AwaitsAsks
  <2>3. QED
    BY <1>3, <2>1, <2>2 DEF CallAdd
<1>4. CASE CallFetch(t) /\ ~(Len(head) <= 1)
  <2>1. Popped(t, head, inProgress)
    BY <1>2, <1>4, PopOutcome DEF CallFetch
  <2>2. \/ \E o : Awaits(t, "idle", o)
        \/ \E q : Awaits(t, "get_request", NewOp("fetch", {}, q))
    BY <2>1 DEF Popped, Returns
  <2>3. QED
    BY <1>1, <2>2, AwaitsAsks
<1>5. CASE CallGet(t) \/ CallFinished(t) \/ (CallFetch(t) /\ Len(head) <= 1)
  <2>1. \/ \E o : Awaits(t, "idle", o)
        \/ \E q : Awaits(t, "get_request", NewOp("get", {}, q))
        \/ \E call : Awaits(t, "list_head", NewOp(call, {}, NoRequest))
    BY <1>5 DEF CallGet, CallFinished, CallFetch, Verdict, Returns
  <2>2. QED
    BY <1>1, <2>1, AwaitsAsks
<1>6. CASE CallMark(t)
  <2>1. /\ Awaits(t, "update_request", NewOp("mark", {}, holds[t].request))
        /\ holds[t].request \in done'
    BY <1>6 DEF CallMark
  <2>2. QED
    BY <1>1, <2>1, AwaitsAsks
<1>7. CASE CallReclaim(t)
  <2>1. Awaits(t, "update_request", NewOp("reclaim", {}, holds[t].request))
    BY <1>7 DEF CallReclaim
  <2>2. QED
    BY <1>1, <2>1, AwaitsAsks
<1>8. QED
  BY <1>3, <1>4, <1>5, <1>6, <1>7 DEF Call

LEMMA ResumeAsks ==
  ASSUME TypeInv, NEW t \in Tasks, Resume(t) \/ Fail(t)
  PROVE  Asks(t)
<1>1. \A q : ~NewOp("fetch", {}, q).answered
  BY DEF NewOp
<1>2. head \in Seq(Requests) /\ op[t] \in OpRecord
  BY DEF TypeInv, TypeOK
<1>3. ASSUME \E at \in {"batch_add", "in_flight", "idle"} : \E o : Awaits(t, at, o)
      PROVE  Asks(t)
  BY <1>3, AwaitsAsks
<1>4. CASE CachesListed(t)
  <2>1. \E at \in {"batch_add", "in_flight", "idle"} : \E o : Awaits(t, at, o)
    BY <1>4 DEF CachesListed, Dispatch, Returns
  <2>2. QED
    BY <1>3, <2>1
<1>5. CASE BatchAnswered(t)
  BY <1>5, BatchSettled DEF Asks
<1>6. CASE AddReturns(t) \/ FinishedHeadListed(t) \/ GotRequest(t) \/ Updated(t)
  <2>1. \E o : Awaits(t, "idle", o)
    BY <1>6 DEF AddReturns, FinishedHeadListed, GotRequest, Updated, Verdict, Returns
  <2>2. QED
    BY <1>3, <2>1
<1>7. ASSUME NEW h \in Seq(Requests), NEW progress, PopFrom(t, h, progress)
      PROVE  Asks(t)
  <2>1. Popped(t, h, progress)
    BY <1>7, PopOutcome
  <2>2. \/ \E o : Awaits(t, "idle", o)
        \/ \E q : Awaits(t, "get_request", NewOp("fetch", {}, q))
    BY <2>1 DEF Popped, Returns
  <2>3. QED
    BY <1>1, <2>2, AwaitsAsks
<1>8. CASE FetchHeadListed(t)
  BY <1>2, <1>7, <1>8, ListedHead DEF FetchHeadListed
<1>9. CASE FetchedRequest(t)
  BY <1>2, <1>3, <1>7, <1>9 DEF FetchedRequest, Returns
<1>10. CASE Fail(t) /\ pc[t] = "batch_add"
  <2>1. Fits("idle", NoOp) /\ NoOp \in OpRecord /\ "idle" \in Places
    BY NoOpType DEF Fits, Places
  <2>2. Settle(t, "idle", NoOp, {}) /\ pc'[t] = "idle"
    BY <1>10 DEF Fail, Settle, TypeInv, TypeOK
  <2>3. QED
    BY <2>1, <2>2, SettlesLeave DEF Asks
<1>11. CASE Fail(t) /\ pc[t] # "batch_add"
  BY <1>3, <1>11 DEF Fail, Returns
<1>12. QED
  BY <1>4, <1>5, <1>6, <1>8, <1>9, <1>10, <1>11 DEF Resume
(* What was done stays so, and what is handled and not done is nobody's to  *)
(* reopen.                                                                  *)
LEMMA SettledStays ==
  ASSUME TypeInv, HandInv, OldInv, Occupied, NEW t \in Tasks, Step(t)
  PROVE  done \subseteq done' /\ \A r \in Requests : Settled(r) => Settled(r)'
<1>1. done \subseteq done'
  <2>1. CASE CallReclaim(t)
    <3>1. holds[t].request \in Requests /\ holds[t].request \notin done
      BY <2>1 DEF CallReclaim, Occupied, HandInv, TypeInv, TypeOK
    <3>2. QED
      BY <2>1, <3>1 DEF CallReclaim
  <2>2. CASE Call(t) /\ ~CallReclaim(t)
    BY <2>2 DEF Call, CallAdd, CallGet, CallFetch, CallFinished, CallMark, historyVars
  <2>3. CASE Answer(t) \/ Resume(t) \/ Fail(t)
    BY <2>3 DEF Answer, AnswerRead, AnswerBatch, AnswerUpdate, Resume, CachesListed, BatchAnswered,
                AddReturns, FetchHeadListed, FetchedRequest, FinishedHeadListed, GotRequest,
                Updated, Fail, historyVars
  <2>4. QED
    BY <2>1, <2>2, <2>3 DEF Step
<1>2. ASSUME NEW r \in Requests, platform[r] = "handled", r \notin done
      PROVE  platform'[r] = "handled"
  <2>1. platform \in [Requests -> Status]
    BY DEF TypeInv, TypeOK
  <2>2. pc[t] = "update_request" => op[t].request # r
    BY <1>2 DEF OldInv, Old, LeftAlone, OpAvoids
  <2>3. CASE AnswerUpdate(t)
    BY <1>2, <2>1, <2>2, <2>3 DEF AnswerUpdate
  <2>4. CASE AnswerBatch(t)
    BY <1>2, <2>1, <2>4 DEF AnswerBatch
  <2>5. CASE Call(t) \/ AnswerRead(t) \/ Resume(t) \/ Fail(t)
    <3>1. UNCHANGED platform
      BY <2>5 DEF Call, CallAdd, CallGet, CallFetch, CallFinished, CallMark, CallReclaim,
                  AnswerRead, Resume, CachesListed, BatchAnswered, AddReturns, FetchHeadListed,
                  FetchedRequest, FinishedHeadListed, GotRequest, Updated, Fail
    <3>2. QED
      BY <1>2, <3>1
  <2>6. QED
    BY <2>3, <2>4, <2>5 DEF Step, Answer
<1>3. QED
  BY <1>1, <1>2 DEF Settled

LEMMA HandledSettled ==
  ASSUME TypeInv, HandInv, CoverInv, NEW t \in Tasks, Step(t)
  PROVE  \A r \in handled' : Settled(r)'
<1>1. /\ done \subseteq done' /\ \A r \in Requests : Settled(r) => Settled(r)'
      /\ \A r \in handled : Settled(r)
      /\ handled \subseteq Requests
  BY SettledStays DEF CoverInv, TypeInv, TypeOK
<1>2. CASE CallMark(t)
  BY <1>1, <1>2 DEF CallMark, Settled
<1>3. CASE CachesListed(t)
  <2>1. \A r \in Requests : op[t].seen[r] = "handled" => Settled(r)
    BY <1>3 DEF CachesListed, Answered, CoverInv, OpSettled
  <2>2. QED
    BY <1>1, <1>3, <2>1 DEF CachesListed
<1>4. CASE GotRequest(t)
  <2>1. op[t].request \in Requests
    BY <1>4 DEF GotRequest, Answered, TypeInv, CallInv
  <2>2. op[t].seen[op[t].request] = "handled" => Settled(op[t].request)
    BY <1>4, <2>1 DEF GotRequest, Answered, CoverInv, OpSettled
  <2>3. handled' \subseteq handled \cup {r \in {op[t].request} : op[t].seen[r] = "handled"}
    BY <1>4 DEF GotRequest
  <2>4. QED
    BY <1>1, <2>1, <2>2, <2>3
<1>5. CASE /\ Call(t) \/ Answer(t) \/ Resume(t) \/ Fail(t)
           /\ ~CallMark(t) /\ ~CachesListed(t) /\ ~GotRequest(t)
  <2>1. handled' \subseteq handled
    BY <1>5 DEF Call, CallAdd, CallGet, CallFetch, CallFinished, CallReclaim, Answer, AnswerRead,
                AnswerBatch, AnswerUpdate, Resume, BatchAnswered, AddReturns, FetchHeadListed,
                FetchedRequest, FinishedHeadListed, Updated, Fail, clientVars
  <2>2. QED
    BY <1>1, <2>1
<1>6. QED
  BY <1>2, <1>3, <1>4, <1>5 DEF Step

(* What an answer says is so when it is given, and stays so.                *)
LEMMA AnswersSettled ==
  ASSUME TypeInv, HandInv, CoverInv, NEW t \in Tasks, Step(t)
  PROVE  MarksDone' /\ \A u \in Tasks : OpSettled(pc[u], op[u])'
<1>1. /\ done \subseteq done' /\ \A r \in Requests : Settled(r) => Settled(r)'
  BY SettledStays DEF CoverInv
<1>2. ASSUME NEW u \in Tasks, SameCall(u)
      PROVE  /\ OpSettled(pc[u], op[u])'
             /\ pc'[u] = "update_request" /\ op'[u].call = "mark" /\ ~op'[u].answered =>
                  op'[u].request \in done'
  BY <1>1, <1>2 DEF SameCall, CoverInv, OpSettled, MarksDone
<1>3. CASE Asks(t)
  BY <1>2, <1>3 DEF Asks, OpSettled, MarksDone
<1>4. CASE Answer(t)
  <2>1. op[t] \in OpRecord /\ DOMAIN op = Tasks /\ platform \in [Requests -> Status]
    BY DEF TypeInv, TypeOK
  <2>2. UNCHANGED pc /\ \A u \in Tasks \ {t} : op'[u] = op[u]
    BY <1>4, <2>1 DEF Answer, AnswerRead, AnswerBatch, AnswerUpdate
  <2>3. \A u \in Tasks \ {t} : SameCall(u)
    BY <2>2 DEF SameCall
  <2>4. /\ op'[t].answered
        /\ pc[t] \in {"list_requests", "get_request"} => op'[t].seen \in {platform, Nothing}
    <3>1. Reply(t).answered /\ Reply(t).seen = platform
      BY <2>1 DEF Reply, OpRecord
    <3>2. CASE AnswerRead(t)
      <4>1. [Reply(t) EXCEPT !.seen = Nothing].answered
            /\ [Reply(t) EXCEPT !.seen = Nothing].seen = Nothing
        BY <2>1 DEF Reply, OpRecord
      <4>2. op'[t] \in {Reply(t), [Reply(t) EXCEPT !.seen = Nothing]}
        BY <2>1, <3>2 DEF AnswerRead
      <4>3. QED
        BY <3>1, <4>1, <4>2
    <3>3. CASE AnswerBatch(t)
      <4>1. PICK rejected : op' = [op EXCEPT ![t] = [Reply(t) EXCEPT !.rejected = rejected]]
        BY <3>3 DEF AnswerBatch
      <4>2. [Reply(t) EXCEPT !.rejected = rejected].answered
        BY <2>1 DEF Reply, OpRecord
      <4>3. QED
        BY <2>1, <3>3, <4>1, <4>2 DEF AnswerBatch
    <3>4. CASE AnswerUpdate(t)
      BY <2>1, <3>1, <3>4 DEF AnswerUpdate
    <3>5. QED
      BY <1>4, <3>2, <3>3, <3>4 DEF Answer
  <2>5. OpSettled(pc[t], op[t])'
    <3>1. ASSUME pc[t] \in {"list_requests", "get_request"}, NEW r \in Requests,
                 op'[t].seen[r] = "handled"
          PROVE  Settled(r)'
      <4>1. platform[r] = "handled"
        BY <2>4, <3>1 DEF Nothing
      <4>2. QED
        BY <1>1, <4>1 DEF Settled
    <3>2. QED
      BY <2>2, <3>1 DEF OpSettled
  <2>6. QED
    BY <1>2, <2>2, <2>3, <2>4, <2>5 DEF MarksDone
<1>5. QED
  BY <1>3, <1>4, CallAsks, ResumeAsks DEF Step

LEMMA StaysOccupied ==
  ASSUME TypeInv, Occupied, ~ReclaimsHandled, NEW t \in Tasks, Step(t)
  PROVE  Occupied'
<1>1. head \in Seq(Requests) /\ DOMAIN holds = Tasks
  BY DEF TypeInv, TypeOK
<1>2. ASSUME \/ UNCHANGED holds
             \/ holds' = [holds EXCEPT ![t] = HoldsNothing]
             \/ \E q, b : holds' = [holds EXCEPT ![t] = Held(q, b, TRUE)]
      PROVE  Occupied'
  BY <1>1, <1>2 DEF Occupied, Held
<1>3. CASE \/ CallFetch(t) /\ ~(Len(head) <= 1)
           \/ FetchHeadListed(t)
           \/ FetchedRequest(t) /\ op[t].seen[op[t].request] = "absent"
  <2>1. \E h \in Seq(Requests) : \E progress : PopFrom(t, h, progress)
    BY <1>1, <1>3, ListedHead DEF CallFetch, FetchHeadListed, FetchedRequest
  <2>2. \E h, progress : Popped(t, h, progress)
    BY <2>1, PopOutcome
  <2>3. QED
    BY <1>2, <2>2 DEF Popped
<1>4. CASE FetchedRequest(t) /\ op[t].seen[op[t].request] # "absent"
  <2> DEFINE q == op[t].request
             stamped == op[t].seen[op[t].request] = "handled"
  <2>1. holds' = [holds EXCEPT ![t] = Held(q, stamped, TRUE)]
    BY <1>4 DEF FetchedRequest
  <2> HIDE DEF q, stamped
  <2>2. QED
    BY <1>2, <2>1
<1>5. CASE CallMark(t) \/ CallReclaim(t)
  BY <1>2, <1>5 DEF CallMark, CallReclaim
<1>6. CASE \/ CallFetch(t) /\ Len(head) <= 1
           \/ CallAdd(t) \/ CallGet(t) \/ CallFinished(t) \/ Answer(t) \/ Fail(t)
           \/ CachesListed(t) \/ BatchAnswered(t) \/ AddReturns(t)
           \/ FinishedHeadListed(t) \/ GotRequest(t) \/ Updated(t)
  <2>1. UNCHANGED holds
    BY <1>6 DEF CallFetch, CallAdd, CallGet, CallFinished, Answer, AnswerRead, AnswerBatch,
                AnswerUpdate, Fail, CachesListed, BatchAnswered, AddReturns, FinishedHeadListed,
                GotRequest, Updated
  <2>2. QED
    BY <1>2, <2>1
<1>7. QED
  BY <1>3, <1>4, <1>5, <1>6 DEF Step, Call, Resume

(* Also a call that fails leaves old requests alone.                        *)
LEMMA OldFails ==
  ASSUME TypeInv, NEW r \in Requests, LeftAlone(r), NEW t \in Tasks, Fail(t)
  PROVE  LeftAlone(r)' /\ (Old(r)' => Old(r))
<1>1. UNCHANGED <<platform, initialized, cache, head, handled, holds, done>>
  BY DEF Fail, historyVars
<1>2. pc'[t] = "idle" /\ \A u \in Tasks \ {t} : SameCall(u)
  <2>1. CASE pc[t] = "batch_add"
    <3>1. Fits("idle", NoOp) /\ NoOp \in OpRecord /\ "idle" \in Places
      BY NoOpType DEF Fits, Places
    <3>2. Settle(t, "idle", NoOp, {}) /\ pc'[t] = "idle"
      BY <2>1 DEF Fail, Settle, TypeInv, TypeOK
    <3>3. QED
      BY <3>1, <3>2, SettlesLeave
  <2>2. CASE pc[t] # "batch_add"
    BY <2>2 DEF Fail, Returns, Awaits, SameCall, TypeInv, TypeOK
  <2>3. QED
    BY <2>1, <2>2
<1>3. \A u \in Tasks : OpAvoids(pc'[u], op'[u], r)
  BY <1>2 DEF SameCall, OpAvoids, LeftAlone
<1>4. QED
  BY <1>1, <1>3 DEF LeftAlone, Old

LEMMA CoverSteps ==
  ASSUME TypeInv, HandInv, CoverInv, ~ReclaimsHandled, NEW t \in Tasks, Step(t)
  PROVE  CoverInv'
<1>1. OldInv'
  <2> SUFFICES ASSUME NEW r \in Requests, Old(r)'
               PROVE  LeftAlone(r)'
    BY DEF OldInv
  <2>1. CASE Fail(t)
    <3>1. Old(r)
      BY <2>1 DEF Fail, historyVars, Old
    <3>2. QED
      BY <2>1, <3>1, OldFails DEF CoverInv, OldInv
  <2>2. CASE Call(t) \/ Answer(t) \/ Resume(t)
    <3>1. Old(r) /\ LeftAlone(r)
      BY <2>2, OldShrinks DEF CoverInv, OldInv
    <3>2. QED
      BY <2>2, <3>1, OldAnswers, OldCalls, OldResumes
  <2>3. QED
    BY <2>1, <2>2 DEF Step
<1>2. Occupied'
  BY StaysOccupied DEF CoverInv
<1>3. QED
  BY <1>1, <1>2, HandledSettled, AnswersSettled DEF CoverInv

LEMMA CoverStep ==
  ASSUME OthersHandle = {}, ~ReclaimsHandled
  PROVE  TypeInv /\ HandInv /\ CoverInv /\ [Next]_vars => CoverInv'
<1> SUFFICES ASSUME TypeInv, HandInv, CoverInv, [Next]_vars
             PROVE  CoverInv'
  OBVIOUS
<1>1. CASE UNCHANGED vars
  BY <1>1 DEF CoverInv, OldInv, Old, LeftAlone, Occupied, MarksDone, OpSettled, Settled,
              vars, clientVars, taskVars, historyVars
<1>2. ASSUME NEW q \in Requests, OtherAdds(q)
      PROVE  CoverInv'
  <2>1. \A r \in Requests : platform'[r] = "handled" <=> platform[r] = "handled"
    BY <1>2 DEF OtherAdds, TypeInv, TypeOK
  <2>2. UNCHANGED <<clientVars, taskVars, historyVars>> /\ handled \subseteq Requests
    BY <1>2 DEF OtherAdds, TypeInv, TypeOK
  <2>3. \A r \in Requests : (Settled(r) <=> Settled(r)') /\ (Old(r) <=> Old(r)')
    BY <2>1, <2>2 DEF Settled, Old, historyVars
  <2>4. OldInv' /\ Occupied' /\ MarksDone'
    BY <2>2, <2>3 DEF CoverInv, OldInv, LeftAlone, Occupied, MarksDone, clientVars, taskVars,
                      historyVars
  <2>5. \A r \in handled' : Settled(r)'
    BY <2>2, <2>3 DEF CoverInv, clientVars
  <2>6. \A t \in Tasks : OpSettled(pc[t], op[t])'
    BY <2>2, <2>3 DEF CoverInv, OpSettled, taskVars
  <2>7. QED
    BY <2>4, <2>5, <2>6 DEF CoverInv
<1>3. \A q \in Requests : ~OtherHandles(q)
  BY DEF OtherHandles
<1>4. QED
  BY <1>1, <1>2, <1>3, CoverSteps DEF Next

(* A call that concludes has listed the head, found nothing new, and then   *)
(* neither anything in the head nor in progress.                            *)
LEMMA ConcludesFromHead ==
  ASSUME TypeInv, NEW t \in Tasks, Concludes(t), [Next]_vars
  PROVE  FinishedHeadListed(t) /\ head' = <<>> /\ inProgress = {}
<1>1. Step(t)
  <2>1. ASSUME NEW u \in Tasks \ {t}, Step(u)
        PROVE  pc'[t] = pc[t]
    <3>1. CASE Answer(u)
      BY <3>1 DEF Answer, AnswerRead, AnswerBatch, AnswerUpdate
    <3>2. CASE Call(u) \/ Resume(u) \/ Fail(u)
      BY <3>2, CallAsks, ResumeAsks DEF Asks, SameCall
    <3>3. QED
      BY <2>1, <3>1, <3>2 DEF Step
  <2>2. pc'[t] # pc[t]
    BY DEF Concludes
  <2>3. \A r \in Requests : ~OtherAdds(r) /\ ~OtherHandles(r)
    BY <2>2 DEF OtherAdds, OtherHandles, taskVars
  <2>4. QED
    BY <2>1, <2>2, <2>3 DEF Next, vars, taskVars
<1>2. pc[t] = "list_head" /\ pc'[t] # pc[t]
  BY DEF Concludes
<1>3. CASE FinishedHeadListed(t)
  <2>1. op'[t] = [NewOp("finished", {}, NoRequest) EXCEPT !.finished = Finished]
    BY <1>3 DEF FinishedHeadListed, Verdict, Returns, Awaits, TypeInv, TypeOK
  <2>2. op'[t].finished = Finished
    BY <2>1 DEF NewOp
  <2>3. QED
    BY <1>3, <2>2 DEF Concludes, Finished
<1>4. CASE FetchHeadListed(t) \/ Fail(t)
  <2>1. ASSUME Awaits(t, "idle", NoOp)
        PROVE  FALSE
    BY <2>1 DEF Awaits, Concludes, NoOp, NewOp, TypeInv, TypeOK
  <2>2. CASE Fail(t)
    BY <1>2, <2>1, <2>2 DEF Fail, Returns
  <2>3. CASE FetchHeadListed(t)
    <3>1. PICK h \in Seq(Requests) : PopFrom(t, h, inProgress)
      <4>1. head \in Seq(Requests)
        BY DEF TypeInv, TypeOK
      <4>2. QED
        BY <2>3, <4>1, ListedHead DEF FetchHeadListed
    <3>2. Popped(t, h, inProgress)
      BY <3>1, PopOutcome
    <3>3. ASSUME NEW o, Awaits(t, "get_request", o)
          PROVE  FALSE
      BY <3>3 DEF Awaits, Concludes, TypeInv, TypeOK
    <3>4. QED
      BY <2>1, <3>2, <3>3 DEF Popped, Returns
  <2>4. QED
    BY <1>4, <2>2, <2>3
<1>5. CASE Call(t) \/ Answer(t)
  BY <1>2, <1>5 DEF Call, CallAdd, CallGet, CallFetch, CallFinished, CallMark, CallReclaim, Calls,
                    Idle, Answer, AnswerRead, AnswerBatch, AnswerUpdate
<1>6. CASE Resume(t) /\ ~FinishedHeadListed(t) /\ ~FetchHeadListed(t)
  BY <1>2, <1>6 DEF Resume, CachesListed, BatchAnswered, AddReturns, FetchedRequest, GotRequest,
                    Updated, Answered
<1>7. QED
  BY <1>1, <1>3, <1>4, <1>5, <1>6 DEF Step, Resume

(* A listing that leaves the head empty has brought nothing new.            *)
LEMMA NothingListed ==
  ASSUME TypeInv, NEW t \in Tasks, <<>> \in HeadWithNews(t)
  PROVE  \A r \in Requests : op[t].seen[r] = "pending" => r \in inProgress \cup handled
<1> DEFINE S == {r \in Requests : op[t].seen[r] = "pending" /\ IsNews(r)}
<1>1. PICK news \in SetToSeqs(S) : <<>> = head \o news
  BY DEF HeadWithNews
<1>2. head \in Seq(Requests) /\ news \in Seq(Requests)
  BY OrdersAreSequences DEF TypeInv, TypeOK
<1>3. head = <<>> /\ news = <<>>
  <2>1. Len(head \o news) = Len(head) + Len(news) /\ Len(head \o news) = 0
    BY <1>1, <1>2, ConcatProperties, EmptySeq
  <2>2. Len(head) \in Nat /\ Len(news) \in Nat
    BY <1>2, LenProperties
  <2>3. Len(head) = 0 /\ Len(news) = 0
    BY <2>1, <2>2
  <2>4. QED
    BY <1>2, <2>3, EmptySeq
<1>4. S = {}
  <2>1. IsFiniteSet(S) /\ Cardinality(S) \in Nat
    BY SubsetsAreCounted
  <2>2. news \in [1..Cardinality(S) -> S]
    BY DEF SetToSeqs
  <2>3. Cardinality(S) = 0
    <3> DEFINE n == Cardinality(S)
    <3>1. DOMAIN news = 1..n /\ DOMAIN news = 1..Len(news) /\ Len(news) = 0 /\ n \in Nat
      BY <1>2, <1>3, <2>1, <2>2, LenProperties, EmptySeq
    <3> HIDE DEF n
    <3>2. 1 \notin 1..n
      BY <3>1
    <3>3. n = 0
      BY <3>1, <3>2
    <3>4. QED
      BY <3>3 DEF n
  <2>4. QED
    BY <2>1, <2>3, FS_EmptySet
<1>5. ToSet(head) = {}
  BY <1>3, EmptySeq DEF ToSet
<1>6. QED
  BY <1>4, <1>5 DEF IsNews

LEMMA CoverAlways ==
  ASSUME OthersHandle = {}, ~ReclaimsHandled
  PROVE  Spec => []CoverInv
BY CoverInit, CoverStep, TypeCorrect, HandAlways, PTL DEF Spec

(* is_finished: when it says True, what was pending when its listing was    *)
(* taken has been handled, whatever was fetched, marked and reclaimed while *)
(* the listing was on its way, and whatever calls failed.                   *)
THEOREM FinishedCovers == Spec => FinishedCoversListing
<1> DEFINE Covers ==
      \A t \in Tasks : Concludes(t) /\ OthersHandle = {} /\ ~ReclaimsHandled =>
        \A r \in Requests : op[t].seen[r] = "pending" => r \in done \/ platform[r] = "handled"
<1>1. CASE OthersHandle = {} /\ ~ReclaimsHandled
  <2>1. TypeInv /\ CoverInv /\ [Next]_vars => [Covers]_vars
    <3> SUFFICES ASSUME TypeInv, CoverInv, [Next]_vars, NEW t \in Tasks, Concludes(t),
                        NEW r \in Requests, op[t].seen[r] = "pending"
                 PROVE  Settled(r)
      BY DEF Settled
    <3>1. FinishedHeadListed(t) /\ head' = <<>> /\ inProgress = {}
      BY ConcludesFromHead
    <3>2. r \in handled
      BY <3>1, NothingListed DEF FinishedHeadListed
    <3>3. QED
      BY <3>2 DEF CoverInv
  <2>2. QED
    BY <1>1, <2>1, CoverAlways, TypeCorrect, PTL DEF Spec, FinishedCoversListing
<1>2. CASE ~(OthersHandle = {} /\ ~ReclaimsHandled)
  <2>1. Covers
    BY <1>2
  <2>2. [Next]_vars => [Covers]_vars
    BY <2>1
  <2>3. QED
    BY <2>2, PTL DEF Spec, FinishedCoversListing
<1>3. QED
  BY <1>1, <1>2
=============================================================================
