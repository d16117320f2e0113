------------------------- MODULE ScrapyCrawlProofs -------------------------
(***************************************************************************)
(* Proofs about ScrapyCrawl, for any number of threads, requests, keys and  *)
(* coroutines, whatever times out, fails, is interrupted or restarted: while *)
(* a coroutine is waited for, the others of its loop are being cancelled,   *)
(* the engine gets a request at most once, and the sweep of the cache       *)
(* spares what is fresh.                                                    *)
(***************************************************************************)
EXTENDS ScrapyCrawl, FiniteSetTheorems, SequenceTheorems, TLAPS

(* The part of TypeOK about the threads and the reactor.                    *)
ThreadType ==
  /\ loop \in [Threads -> {"none", "starting", "running", "closed"}]
  /\ ready \in [Threads -> Seq(Callbacks)]
  /\ tasks \in [Threads -> SUBSET [coro : Coros, result : Results]]
  /\ \A th \in Threads : loop[th] = "none" => ready[th] = <<>> /\ tasks[th] = {}
  /\ outcome \in Results
  /\ reactor \in Places /\ gone \cup interrupted \subseteq Threads

QueueType ==
  /\ platform \in [Requests -> {"absent", "pending", "handled"}]
  /\ head \cup in_progress \cup handled_here \cup before \cup untold \subseteq Requests
  /\ given \in [Requests -> Nat]

StoreType ==
  /\ entries \in [Keys -> {NoEntry} \cup [time : 0..MaxTime, form : Forms]]
  /\ clock \in 0..MaxTime
  /\ sweep \in [now : 0..MaxTime, done : SUBSET Keys, key : Keys \cup {NoKey},
                seen : {NoEntry} \cup [time : 0..MaxTime, form : Forms]]
  /\ sweep.now <= clock
  /\ sweep.key # NoKey => sweep.seen # NoEntry

(* A deletion on its way is of an entry that has expired, or has no header. *)
SentInv ==
  /\ sent \subseteq Sendable
  /\ \A d \in sent : d.call = "delete_value" => expiration_secs > 0 /\ Sweeps(d.arg.entry, clock)

DataInv == QueueType /\ StoreType /\ SentInv

(* The reactor's thread waits for a coroutine of that loop.                 *)
Waited(th) == reactor.on = th /\ reactor.at \in {"coro", "shutdown"}

Starts(th) == {i \in DOMAIN ready[th] : ready[th][i].run = "start"}

(* A loop never holds two coroutines with one number.                       *)
NumbersOf(th) ==
  /\ \A i, j \in Starts(th) : ready[th][i].coro.id = ready[th][j].coro.id => i = j
  /\ \A i \in Starts(th), t \in tasks[th] : ready[th][i].coro.id # t.coro.id
  /\ \A t, u \in tasks[th] : t.coro.id = u.coro.id => t = u

(* The reactor's thread closes what is gone, and waits for what was begun.  *)
ReactorInv ==
  /\ reactor.at \in {"close", "shutdown", "join"} => reactor.on \in gone
  /\ reactor.at \in {"coro", "shutdown", "join"} => loop[reactor.on] # "none"
  /\ reactor.at = "coro" /\ reactor.coro.call = "expire" => reactor.on \in gone

(* Until a thread is stopped or a wait for it interrupted, whatever was     *)
(* given up on is being cancelled, or will be before the coroutine that is  *)
(* waited for starts: that one is the last callback handed over, or was.    *)
Kept(th) == th \notin interrupted /\ (th \notin gone \/ (reactor.on = th /\ reactor.at # "join"))

WillBeCancelled(th, c, i) ==
  \E j \in DOMAIN ready[th] : j > i /\ ready[th][j] = Callback("cancel", c)

CancelledStarts(th) ==
  \A i \in Starts(th) :
    \/ Waited(th) /\ ready[th][i].coro = reactor.coro /\ i = Len(ready[th])
    \/ WillBeCancelled(th, ready[th][i].coro, i)

CancelledTasks(th) ==
  \A t \in tasks[th] :
    \/ t.result = "cancelled"
    \/ Waited(th) /\ t.coro = reactor.coro /\ ready[th] = <<>>
    \/ WillBeCancelled(th, t.coro, 0)

LastIsWaited(th) ==
  Waited(th) =>
    /\ ready[th] # <<>> => ready[th][Len(ready[th])] = Callback("start", reactor.coro)
    /\ outcome # Pending => ready[th] = <<>> /\ \A t \in tasks[th] : t.result = "cancelled"

CancelOf(th) == Kept(th) => CancelledStarts(th) /\ CancelledTasks(th) /\ LastIsWaited(th)

ThreadInv ==
  /\ ThreadType
  /\ ReactorInv
  /\ \A th \in Threads : NumbersOf(th) /\ CancelOf(th)

-----------------------------------------------------------------------------
(* What the types say of callbacks and of the reactor's thread.             *)
LEMMA CallbackTypes ==
  ASSUME NEW b \in Callbacks
  PROVE  /\ b.run \in {"start", "cancel", "stop"}
         /\ b.run # "stop" => b.coro \in Coros /\ b = Callback(b.run, b.coro)
         /\ b.run = "stop" => b = Stop
  BY DEF Callbacks, Callback, Stop

LEMMA CallbacksAre ==
  ASSUME NEW c \in Coros
  PROVE  Callback("start", c) \in Callbacks /\ Callback("cancel", c) \in Callbacks /\ Stop \in Callbacks
  BY DEF Callbacks, Callback, Stop

LEMMA PlaceTypes ==
  ASSUME reactor \in Places
  PROVE  /\ reactor.at \in {"idle", "coro", "shutdown", "close", "join"}
         /\ reactor.at # "idle" => reactor.on \in Threads
         /\ reactor.at = "idle" => reactor = Idle /\ reactor.on = NoThread
         /\ reactor.at \in {"coro", "shutdown"} <=> reactor.coro \in Coros
         /\ reactor.at \in {"coro", "shutdown"} \/ reactor.coro = NoCoro
         /\ reactor = At(reactor.at, reactor.on, reactor.coro)
  BY SettingsAssumption DEF Places, Idle, At

LEMMA PlacesAre ==
  ASSUME NEW th \in Threads, NEW c \in Coros
  PROVE  /\ At("coro", th, c) \in Places /\ At("shutdown", th, c) \in Places
         /\ At("close", th, NoCoro) \in Places /\ At("join", th, NoCoro) \in Places
         /\ Idle \in Places
  BY DEF Places, At, Idle

-----------------------------------------------------------------------------
(* While a loop holds fewer coroutines than it may, there is a free number. *)
LEMMA NumbersBounded ==
  ASSUME ThreadType, NEW th \in Threads
  PROVE  Numbers(th) \subseteq 1..MaxCoros
<1>1. \A j \in DOMAIN ready[th] : ready[th][j].run = "start" => ready[th][j].coro.id \in 1..MaxCoros
  <2> TAKE j \in DOMAIN ready[th]
  <2>1. ready[th][j] \in Callbacks
    BY ElementOfSeq DEF ThreadType
  <2> QED
    BY <2>1, CallbackTypes DEF Coros
<1>2. \A t \in tasks[th] : t.coro.id \in 1..MaxCoros
  BY DEF ThreadType, Coros
<1> QED
  BY <1>1, <1>2 DEF Numbers

LEMMA FreshNumber ==
  ASSUME ThreadType, NEW th \in Threads, Cardinality(Numbers(th)) < MaxCoros
  PROVE  (CHOOSE n \in 1..MaxCoros : n \notin Numbers(th)) \in (1..MaxCoros) \ Numbers(th)
<1>1. IsFiniteSet(1..MaxCoros) /\ Cardinality(1..MaxCoros) = MaxCoros
  BY FS_Interval, ThreadAssumption
<1>2. Numbers(th) # 1..MaxCoros
  BY <1>1, ThreadAssumption
<1>3. \E n \in 1..MaxCoros : n \notin Numbers(th)
  BY <1>2, NumbersBounded
<1> QED
  BY <1>3

-----------------------------------------------------------------------------
(* What becomes of the callbacks of a loop when one is handed over, or run. *)
LEMMA Appended ==
  ASSUME ThreadType, NEW th \in Threads, NEW b \in Callbacks,
         ready' = [ready EXCEPT ![th] = Append(@, b)]
  PROVE  /\ ready' \in [Threads -> Seq(Callbacks)]
         /\ Len(ready[th]) \in Nat /\ DOMAIN ready[th] = 1..Len(ready[th])
         /\ Len(ready'[th]) = Len(ready[th]) + 1 /\ DOMAIN ready'[th] = 1..(Len(ready[th]) + 1)
         /\ \A i \in DOMAIN ready[th] : ready'[th][i] = ready[th][i]
         /\ ready'[th][Len(ready[th]) + 1] = b
         /\ \A o \in Threads : o # th => ready'[o] = ready[o]
<1>1. ready[th] \in Seq(Callbacks) /\ ready'[th] = Append(ready[th], b)
  BY DEF ThreadType
<1>2. Append(ready[th], b) \in Seq(Callbacks)
  BY <1>1
<1>3. /\ Len(ready[th]) \in Nat /\ DOMAIN ready[th] = 1..Len(ready[th])
      /\ Len(ready'[th]) = Len(ready[th]) + 1 /\ DOMAIN ready'[th] = 1..(Len(ready[th]) + 1)
  BY <1>1, <1>2, LenProperties, AppendProperties
<1>4. \A i \in DOMAIN ready[th] : ready'[th][i] = ready[th][i]
  BY <1>1, <1>3, AppendProperties
<1>5. ready'[th][Len(ready[th]) + 1] = b
  BY <1>1, AppendProperties
<1>6. \A o \in Threads : o # th => ready'[o] = ready[o]
  BY DEF ThreadType
<1>7. ready' \in [Threads -> Seq(Callbacks)]
  BY <1>2 DEF ThreadType
<1> QED
  BY <1>3, <1>4, <1>5, <1>6, <1>7

LEMMA HeadRun ==
  ASSUME ThreadType, NEW th \in Threads, ready[th] # <<>>,
         ready' = [ready EXCEPT ![th] = Tail(@)]
  PROVE  /\ ready' \in [Threads -> Seq(Callbacks)]
         /\ Head(ready[th]) \in Callbacks /\ Head(ready[th]) = ready[th][1]
         /\ Len(ready[th]) \in Nat \ {0} /\ DOMAIN ready[th] = 1..Len(ready[th])
         /\ Len(ready'[th]) = Len(ready[th]) - 1 /\ DOMAIN ready'[th] = 1..(Len(ready[th]) - 1)
         /\ \A i \in DOMAIN ready'[th] : ready'[th][i] = ready[th][i + 1]
         /\ Len(ready[th]) = 1 <=> ready'[th] = <<>>
         /\ \A o \in Threads : o # th => ready'[o] = ready[o]
<1>1. ready[th] \in Seq(Callbacks) /\ ready'[th] = Tail(ready[th])
  BY DEF ThreadType
<1>2. /\ Head(ready[th]) \in Callbacks /\ Tail(ready[th]) \in Seq(Callbacks)
      /\ Len(Tail(ready[th])) = Len(ready[th]) - 1
      /\ \A i \in 1..Len(Tail(ready[th])) : Tail(ready[th])[i] = ready[th][i + 1]
  BY <1>1, HeadTailProperties
<1>3. Head(ready[th]) = ready[th][1]
  BY <1>1
<1>4. Len(ready[th]) \in Nat \ {0} /\ DOMAIN ready[th] = 1..Len(ready[th])
  BY <1>1, EmptySeq, LenProperties
<1>5. Len(ready'[th]) = Len(ready[th]) - 1 /\ DOMAIN ready'[th] = 1..(Len(ready[th]) - 1)
  BY <1>1, <1>2, LenProperties
<1>6. Len(ready[th]) = 1 <=> ready'[th] = <<>>
  <2>1. ready'[th] = <<>> <=> Len(ready'[th]) = 0
    BY <1>1, <1>2, EmptySeq
  <2>2. Len(ready'[th]) = 0 <=> Len(ready[th]) = 1
    BY <1>4, <1>5
  <2> QED
    BY <2>1, <2>2
<1>7. \A o \in Threads : o # th => ready'[o] = ready[o]
  BY DEF ThreadType
<1>8. ready' \in [Threads -> Seq(Callbacks)]
  BY <1>2 DEF ThreadType
<1>9. \A i \in DOMAIN ready'[th] : ready'[th][i] = ready[th][i + 1]
  BY <1>1, <1>2, <1>5
<1> QED
  BY <1>2, <1>3, <1>4, <1>5, <1>6, <1>7, <1>8, <1>9

-----------------------------------------------------------------------------
(* A loop that a step leaves alone, and that nobody waits for.              *)
LEMMA Elsewhere ==
  ASSUME NEW o \in Threads, NumbersOf(o), CancelOf(o),
         ready'[o] = ready[o], tasks'[o] = tasks[o],
         reactor.on # o, reactor'.on # o,
         o \in gone => o \in gone', o \in interrupted => o \in interrupted'
  PROVE  NumbersOf(o)' /\ CancelOf(o)'
<1>1. Starts(o)' = Starts(o) /\ \A c, i : WillBeCancelled(o, c, i)' = WillBeCancelled(o, c, i)
  BY DEF Starts, WillBeCancelled
<1>2. ~Waited(o) /\ ~Waited(o)'
  BY DEF Waited
<1>3. Kept(o)' => Kept(o)
  BY DEF Kept
<1>4. NumbersOf(o)'
  BY <1>1 DEF NumbersOf
<1>5. CancelledStarts(o) /\ CancelledTasks(o) =>
        CancelledStarts(o)' /\ CancelledTasks(o)' /\ LastIsWaited(o)'
  BY <1>1, <1>2 DEF CancelledStarts, CancelledTasks, LastIsWaited
<1> QED
  BY <1>3, <1>4, <1>5 DEF CancelOf

(* A loop that a step leaves alone, with the reactor's thread where it was. *)
LEMMA Untouched ==
  ASSUME NEW o \in Threads, NumbersOf(o), CancelOf(o),
         ready'[o] = ready[o], tasks'[o] = tasks[o], UNCHANGED <<reactor, gone, interrupted>>,
         outcome' = outcome \/ reactor.on # o
  PROVE  NumbersOf(o)' /\ CancelOf(o)'
<1>1. Starts(o)' = Starts(o) /\ Waited(o)' = Waited(o) /\ Kept(o)' = Kept(o)
  BY DEF Starts, Waited, Kept
<1>2. \A c, i : WillBeCancelled(o, c, i)' = WillBeCancelled(o, c, i)
  BY DEF WillBeCancelled
<1>3. NumbersOf(o)'
  BY <1>1 DEF NumbersOf
<1>4. CancelledStarts(o) => CancelledStarts(o)'
  BY <1>1, <1>2 DEF CancelledStarts
<1>5. CancelledTasks(o) => CancelledTasks(o)'
  BY <1>1, <1>2 DEF CancelledTasks
<1>6. LastIsWaited(o) => LastIsWaited(o)'
  BY <1>1 DEF LastIsWaited, Waited
<1> QED
  BY <1>1, <1>3, <1>4, <1>5, <1>6 DEF CancelOf

-----------------------------------------------------------------------------
(* A coroutine is handed over: everything else on its loop was given up on. *)
LEMMA HandsOver ==
  ASSUME ThreadInv, NEW th \in Threads, NEW at \in {"coro", "shutdown"}, NEW call \in CallNames,
         NEW arg,
         [id |-> 1, call |-> call, arg |-> arg] \in Coros,
         RunsTo(at, th, call, arg),
         reactor = Idle \/ (reactor.on = th /\ (reactor.at = "close" \/ outcome # Pending)),
         th \in gone => reactor.on = th /\ reactor.at # "join",
         loop' = loop, tasks' = tasks, gone' \in {gone, gone \cup {th}}, interrupted' = interrupted,
         at = "shutdown" \/ call = "expire" => th \in gone'
  PROVE  ThreadInv' /\ (\A t \in tasks[th] : t.coro # reactor'.coro)
<1> DEFINE c == Fresh(th, call, arg)
           n == Len(ready[th])
<1>1. c.id \in (1..MaxCoros) \ Numbers(th) /\ c.call = call /\ c.arg = arg
      /\ c = [id |-> c.id, call |-> call, arg |-> arg]
  BY FreshNumber DEF ThreadInv, RunsTo, Fresh
<1>2. c \in Coros
  BY <1>1 DEF Coros
<1>3. /\ ready' = [ready EXCEPT ![th] = Append(@, Callback("start", c))]
      /\ reactor' = At(at, th, c) /\ outcome' = Pending
      /\ loop[th] \in {"starting", "running"}
  BY DEF RunsTo, Moves
<1> HIDE DEF c
<1>4. Callback("start", c) \in Callbacks
  BY <1>2, CallbacksAre
<1>5. /\ ready' \in [Threads -> Seq(Callbacks)]
      /\ n \in Nat /\ DOMAIN ready[th] = 1..n
      /\ Len(ready'[th]) = n + 1 /\ DOMAIN ready'[th] = 1..(n + 1)
      /\ \A i \in DOMAIN ready[th] : ready'[th][i] = ready[th][i]
      /\ ready'[th][n + 1] = Callback("start", c)
      /\ \A o \in Threads : o # th => ready'[o] = ready[o]
  BY <1>3, <1>4, Appended DEF ThreadInv
<1> HIDE DEF n
<1>6. reactor'.at = at /\ reactor'.on = th /\ reactor'.coro = c
  BY <1>3 DEF At
<1>7. Waited(th)' /\ (Kept(th)' => Kept(th))
  BY <1>6 DEF Waited, Kept
<1>8. ThreadType'
  <2>1. reactor' \in Places
    BY <1>2, <1>3, PlacesAre
  <2>2. \A o \in Threads : loop'[o] = "none" => ready'[o] = <<>> /\ tasks'[o] = {}
    BY <1>3, <1>5 DEF ThreadInv, ThreadType
  <2> QED
    BY <1>3, <1>5, <2>1, <2>2 DEF ThreadInv, ThreadType, Results, Unanswered
<1>9. ReactorInv'
  BY <1>1, <1>3, <1>6 DEF ReactorInv
<1>10. \A i \in Starts(th) : ready[th][i].coro.id # c.id
  BY <1>1 DEF Numbers, Starts
<1>11. \A t \in tasks[th] : t.coro.id # c.id
  BY <1>1 DEF Numbers
<1>12. Starts(th)' = Starts(th) \cup {n + 1} /\ n + 1 \notin Starts(th)
  BY <1>5 DEF Starts, Callback
<1>13. \A i \in Starts(th) : ready'[th][i] = ready[th][i]
  BY <1>5 DEF Starts
<1>14. ready'[th][n + 1].coro = c
  BY <1>5 DEF Callback
<1>15. NumbersOf(th)'
  <2>1. NumbersOf(th)
    BY DEF ThreadInv
  <2>2. \A i, j \in Starts(th)' : ready'[th][i].coro.id = ready'[th][j].coro.id => i = j
    BY <2>1, <1>10, <1>12, <1>13, <1>14 DEF NumbersOf
  <2>3. \A i \in Starts(th)', t \in tasks[th] : ready'[th][i].coro.id # t.coro.id
    BY <2>1, <1>11, <1>12, <1>13, <1>14 DEF NumbersOf
  <2> QED
    BY <2>1, <2>2, <2>3 DEF NumbersOf
<1>16. \A b, i : WillBeCancelled(th, b, i) => WillBeCancelled(th, b, i)'
  BY <1>5 DEF WillBeCancelled
<1>17. ASSUME Kept(th)
       PROVE  /\ \A i \in Starts(th) : WillBeCancelled(th, ready[th][i].coro, i)
              /\ \A t \in tasks[th] : t.result = "cancelled" \/ WillBeCancelled(th, t.coro, 0)
  <2>1. CancelledStarts(th) /\ CancelledTasks(th) /\ LastIsWaited(th)
    BY <1>17 DEF ThreadInv, CancelOf
  <2>2. CASE Waited(th)
    <3>1. ready[th] = <<>> /\ \A t \in tasks[th] : t.result = "cancelled"
      BY <2>1, <2>2, ThreadAssumption DEF LastIsWaited, Waited, Idle, At
    <3> QED
      BY <3>1 DEF Starts
  <2>3. CASE ~Waited(th)
    BY <2>1, <2>3 DEF CancelledStarts, CancelledTasks
  <2> QED
    BY <2>2, <2>3
<1>18. CancelOf(th)'
  <2> SUFFICES ASSUME Kept(th) PROVE CancelledStarts(th)' /\ CancelledTasks(th)' /\ LastIsWaited(th)'
    BY <1>7 DEF CancelOf
  <2>1. CancelledStarts(th)'
    BY <1>5, <1>6, <1>7, <1>12, <1>13, <1>14, <1>16, <1>17 DEF CancelledStarts
  <2>2. CancelledTasks(th)'
    BY <1>16, <1>17 DEF CancelledTasks
  <2>3. LastIsWaited(th)'
    BY <1>3, <1>5, <1>6 DEF LastIsWaited
  <2> QED
    BY <2>1, <2>2, <2>3
<1>19. ASSUME NEW o \in Threads, o # th
       PROVE  NumbersOf(o)' /\ CancelOf(o)'
  <2>1. NumbersOf(o) /\ CancelOf(o) /\ ready'[o] = ready[o] /\ tasks'[o] = tasks[o]
    BY <1>5, <1>19 DEF ThreadInv
  <2>2. /\ reactor.on # o /\ reactor'.on # o
        /\ o \in gone => o \in gone'
        /\ o \in interrupted => o \in interrupted'
    BY <1>6, <1>19, ThreadAssumption DEF Idle, At
  <2> QED
    BY <2>1, <2>2, Elsewhere
<1> QED
  BY <1>6, <1>8, <1>9, <1>11, <1>15, <1>18, <1>19 DEF ThreadInv

-----------------------------------------------------------------------------
(* The reactor's thread goes on from a coroutine that has ended, or was     *)
(* interrupted, or to close a thread.                                       *)
LEMMA Leaves ==
  ASSUME ThreadInv, NEW th \in Threads,
         \/ reactor = Idle
         \/ /\ reactor.on = th
            /\ reactor.at \in {"close", "join"} \/ outcome # Pending \/ th \in interrupted',
         interrupted' \in {interrupted, interrupted \cup {th}},
         reactor' \in {Idle, At("close", th, NoCoro)}, outcome' = Pending,
         ready' = ready, loop' = loop, tasks' = tasks, gone' \in {gone, gone \cup {th}},
         reactor' # Idle => th \in gone' /\ (th \in gone => reactor.on = th /\ reactor.at # "join")
  PROVE  ThreadInv'
<1>1. ThreadType'
  BY PlacesAre DEF ThreadInv, ThreadType, Results, Unanswered, Places, At
<1>2. reactor'.on \in {th, NoThread} /\ reactor'.at \in {"idle", "close"}
  BY DEF Idle, At
<1>3. ReactorInv'
  BY DEF ReactorInv, Idle, At
<1>4. ~Waited(th)'
  BY <1>2 DEF Waited
<1>5. Kept(th)' => Kept(th)
  BY ThreadAssumption DEF Kept, Idle, At
<1>6. Starts(th)' = Starts(th) /\ \A c, i : WillBeCancelled(th, c, i)' = WillBeCancelled(th, c, i)
  BY DEF Starts, WillBeCancelled
<1>7. NumbersOf(th)'
  BY <1>6 DEF ThreadInv, NumbersOf
<1>8. ASSUME Kept(th), th \notin interrupted'
      PROVE  CancelledStarts(th)' /\ CancelledTasks(th)' /\ LastIsWaited(th)'
  <2>1. CancelledStarts(th) /\ CancelledTasks(th) /\ LastIsWaited(th)
    BY <1>8 DEF ThreadInv, CancelOf
  <2>2. CASE Waited(th)
    <3>1. ready[th] = <<>> /\ \A t \in tasks[th] : t.result = "cancelled"
      BY <2>1, <2>2, <1>8, ThreadAssumption DEF LastIsWaited, Waited, Idle, At
    <3> QED
      BY <3>1, <1>4 DEF CancelledStarts, CancelledTasks, LastIsWaited, Starts
  <2>3. CASE ~Waited(th)
    BY <2>1, <2>3, <1>4, <1>6 DEF CancelledStarts, CancelledTasks, LastIsWaited
  <2> QED
    BY <2>2, <2>3
<1>9. CancelOf(th)'
  BY <1>5, <1>8 DEF CancelOf, Kept
<1>10. ASSUME NEW o \in Threads, o # th
       PROVE  NumbersOf(o)' /\ CancelOf(o)'
  <2>1. NumbersOf(o) /\ CancelOf(o)
    BY DEF ThreadInv
  <2>2. /\ reactor.on # o /\ reactor'.on # o
        /\ o \in gone => o \in gone'
        /\ o \in interrupted => o \in interrupted'
    BY <1>2, <1>10, ThreadAssumption DEF Idle, At
  <2> QED
    BY <2>1, <2>2, Elsewhere
<1> QED
  BY <1>1, <1>3, <1>7, <1>9, <1>10 DEF ThreadInv

(* It gives up on a coroutine, which will be cancelled.                     *)
LEMMA GivesUp ==
  ASSUME ThreadInv, NEW th \in Threads, Waited(th), outcome = Pending, CancelsCoro(th),
         reactor' \in {Idle, At("close", th, NoCoro)}, outcome' = Pending,
         loop' = loop, tasks' = tasks, gone' \in {gone, gone \cup {th}}, interrupted' = interrupted,
         reactor' # Idle => th \in gone'
  PROVE  ThreadInv'
<1> DEFINE n == Len(ready[th])
<1>1. reactor.coro \in Coros
  BY PlaceTypes DEF ThreadInv, ThreadType, Waited
<1>2. Callback("cancel", reactor.coro) \in Callbacks
  BY <1>1, CallbacksAre
<1>3. /\ ready' \in [Threads -> Seq(Callbacks)]
      /\ n \in Nat /\ DOMAIN ready[th] = 1..n
      /\ Len(ready'[th]) = n + 1 /\ DOMAIN ready'[th] = 1..(n + 1)
      /\ \A i \in DOMAIN ready[th] : ready'[th][i] = ready[th][i]
      /\ ready'[th][n + 1] = Callback("cancel", reactor.coro)
      /\ \A o \in Threads : o # th => ready'[o] = ready[o]
  BY <1>2, Appended DEF ThreadInv, CancelsCoro
<1> HIDE DEF n
<1>4. reactor'.on \in {th, NoThread} /\ reactor'.at \in {"idle", "close"}
  BY DEF Idle, At
<1>5. loop[th] # "none"
  BY DEF ThreadInv, ReactorInv, Waited
<1>6. ~Waited(th)' /\ (Kept(th)' => Kept(th))
  BY <1>4 DEF Waited, Kept
<1>7. Starts(th)' = Starts(th)
  BY <1>3 DEF Starts, Callback
<1>8. \A b, i : WillBeCancelled(th, b, i) => WillBeCancelled(th, b, i)'
  BY <1>3 DEF WillBeCancelled
<1>9. \A b : b = reactor.coro => \A i \in 0..n : WillBeCancelled(th, b, i)'
  <2> SUFFICES ASSUME NEW b, b = reactor.coro, NEW i \in 0..n PROVE WillBeCancelled(th, b, i)'
    OBVIOUS
  <2>1. n + 1 \in DOMAIN ready'[th] /\ n + 1 > i /\ ready'[th][n + 1] = Callback("cancel", b)
    BY <1>3
  <2> QED
    BY <2>1 DEF WillBeCancelled
<1>10. \A i \in Starts(th) : ready'[th][i] = ready[th][i] /\ i \in 0..n
  BY <1>3 DEF Starts
<1>11. NumbersOf(th)'
  BY <1>7, <1>10 DEF ThreadInv, NumbersOf
<1>12. CancelOf(th)'
  <2> SUFFICES ASSUME Kept(th) PROVE CancelledStarts(th)' /\ CancelledTasks(th)' /\ LastIsWaited(th)'
    BY <1>6 DEF CancelOf
  <2>1. CancelledStarts(th) /\ CancelledTasks(th)
    BY DEF ThreadInv, CancelOf
  <2>2. ASSUME NEW i \in Starts(th)
        PROVE  WillBeCancelled(th, ready[th][i].coro, i)'
    <3>1. \A b : b = ready[th][i].coro => WillBeCancelled(th, b, i)'
      BY <2>1, <1>8, <1>9, <1>10 DEF CancelledStarts
    <3> QED
      BY <3>1, <1>10 DEF WillBeCancelled
  <2>3. CancelledStarts(th)'
    BY <2>2, <1>7 DEF CancelledStarts
  <2>4. ASSUME NEW t \in tasks[th]
        PROVE  t.result = "cancelled" \/ WillBeCancelled(th, t.coro, 0)'
    <3>1. t.result = "cancelled" \/ \A b : b = t.coro => WillBeCancelled(th, b, 0)'
      BY <2>1, <1>3, <1>8, <1>9 DEF CancelledTasks
    <3> QED
      BY <3>1
  <2>5. CancelledTasks(th)'
    BY <2>4 DEF CancelledTasks
  <2> QED
    BY <1>6, <2>3, <2>5 DEF LastIsWaited
<1>13. ThreadType'
  BY <1>3, <1>5, PlacesAre DEF ThreadInv, ThreadType, Results, Places, At
<1>14. ReactorInv'
  BY <1>4 DEF ReactorInv, Idle, At
<1>15. ASSUME NEW o \in Threads, o # th
       PROVE  NumbersOf(o)' /\ CancelOf(o)'
  <2>1. NumbersOf(o) /\ CancelOf(o) /\ ready'[o] = ready[o] /\ tasks'[o] = tasks[o]
    BY <1>3, <1>15 DEF ThreadInv
  <2>2. /\ reactor.on # o /\ reactor'.on # o
        /\ o \in gone => o \in gone'
        /\ o \in interrupted => o \in interrupted'
    BY <1>4, <1>15, ThreadAssumption DEF Waited
  <2> QED
    BY <2>1, <2>2, Elsewhere
<1> QED
  BY <1>11, <1>12, <1>13, <1>14, <1>15 DEF ThreadInv

LEMMA ConcatLength ==
  ASSUME NEW s \in Seq(Callbacks), NEW u \in Seq(Callbacks)
  PROVE  Len(s \o u) = Len(s) + Len(u)
  BY ConcatProperties

(* A thread that is closed is told to stop, and left.                       *)
LEMMA StopsIt ==
  ASSUME ThreadInv, NEW th \in Threads, reactor.on = th,
         reactor.at \in {"close", "shutdown", "join"},
         \/ ready' = ready \/ Stops(th)
         \/ /\ Waited(th)
            /\ ready' = [ready EXCEPT ![th] = @ \o <<Callback("cancel", reactor.coro), Stop>>],
         reactor' \in {Idle, At("join", th, NoCoro)}, outcome' = Pending,
         loop[th] # "none", loop' = loop, tasks' = tasks, gone' = gone, interrupted' = interrupted
  PROVE  ThreadInv'
<1>1. /\ ready'[th] \in Seq(Callbacks)
      /\ Starts(th)' = Starts(th)
      /\ \A i \in Starts(th) : ready'[th][i] = ready[th][i]
      /\ \A o \in Threads : o # th => ready'[o] = ready[o]
      /\ ready' = [o \in Threads |-> IF o = th THEN ready'[th] ELSE ready[o]]
  <2>1. ready[th] \in Seq(Callbacks)
    BY DEF ThreadInv, ThreadType
  <2>2. CASE ready' = ready
    BY <2>1, <2>2 DEF ThreadInv, ThreadType, Starts
  <2>3. CASE ready' = [ready EXCEPT ![th] = Append(@, Stop)]
    <3>1. Stop \in Callbacks
      BY DEF Callbacks
    <3>2. /\ ready' \in [Threads -> Seq(Callbacks)]
          /\ Len(ready[th]) \in Nat /\ DOMAIN ready[th] = 1..Len(ready[th])
          /\ DOMAIN ready'[th] = 1..(Len(ready[th]) + 1)
          /\ \A i \in DOMAIN ready[th] : ready'[th][i] = ready[th][i]
          /\ ready'[th][Len(ready[th]) + 1] = Stop
          /\ \A o \in Threads : o # th => ready'[o] = ready[o]
      BY <2>3, <3>1, Appended DEF ThreadInv
    <3>3. Starts(th)' = Starts(th)
      BY <3>2 DEF Starts, Stop, Callback
    <3>4. \A i \in Starts(th) : ready'[th][i] = ready[th][i]
      BY <3>2 DEF Starts
    <3> QED
      BY <3>2, <3>3, <3>4
  <2>4. CASE /\ Waited(th)
             /\ ready' = [ready EXCEPT ![th] = @ \o <<Callback("cancel", reactor.coro), Stop>>]
    <3> DEFINE s == <<Callback("cancel", reactor.coro), Stop>>
               n == Len(ready[th])
    <3>1. reactor.coro \in Coros
      BY <2>4, PlaceTypes DEF ThreadInv, ThreadType, Waited
    <3>2. s \in Seq(Callbacks) /\ Len(s) = 2 /\ s[1] = Callback("cancel", reactor.coro) /\ s[2] = Stop
      BY <3>1, CallbacksAre
    <3> HIDE DEF s
    <3>3. ready'[th] = ready[th] \o s /\ (\A o \in Threads : o # th => ready'[o] = ready[o])
          /\ ready' = [o \in Threads |-> IF o = th THEN ready'[th] ELSE ready[o]]
      BY <2>4 DEF ThreadInv, ThreadType, s
    <3>4. /\ ready'[th] \in Seq(Callbacks) /\ Len(ready'[th]) = n + 2 /\ n \in Nat
          /\ DOMAIN ready[th] = 1..n /\ DOMAIN ready'[th] = 1..(n + 2)
          /\ \A i \in 1..(n + 2) : ready'[th][i] = IF i <= n THEN ready[th][i] ELSE s[i - n]
      <4>1. n \in Nat /\ DOMAIN ready[th] = 1..n
        BY <2>1, LenProperties
      <4>2. ready'[th] \in Seq(Callbacks)
        BY <2>1, <3>2, <3>3, ConcatProperties
      <4>3. Len(ready'[th]) = n + 2
        <5>1. Len(ready[th] \o s) = Len(ready[th]) + Len(s)
          BY <2>1, <3>2, ConcatLength
        <5> QED
          BY <5>1, <3>2, <3>3
      <4>4. DOMAIN ready'[th] = 1..(n + 2)
        BY <4>2, <4>3, LenProperties
      <4>5. \A i \in 1..(n + 2) : ready'[th][i] = IF i <= n THEN ready[th][i] ELSE s[i - n]
        <5>1. \A i \in 1..(Len(ready[th]) + Len(s)) :
                (ready[th] \o s)[i] = IF i <= Len(ready[th]) THEN ready[th][i] ELSE s[i - Len(ready[th])]
          BY <2>1, <3>2, ConcatProperties
        <5> QED
          BY <5>1, <3>2, <3>3
      <4> QED
        BY <4>1, <4>2, <4>3, <4>4, <4>5
    <3>5. ready'[th][n + 1].run = "cancel" /\ ready'[th][n + 2].run = "stop"
      <4>1. (n + 1) - n = 1 /\ (n + 2) - n = 2 /\ ~(n + 1 <= n) /\ ~(n + 2 <= n)
            /\ n + 1 \in 1..(n + 2) /\ n + 2 \in 1..(n + 2)
        BY <3>4
      <4>2. ready'[th][n + 1] = s[1] /\ ready'[th][n + 2] = s[2]
        BY <3>4, <4>1
      <4> QED
        BY <3>2, <4>2 DEF Callback, Stop
    <3>6. /\ n \in Nat /\ DOMAIN ready[th] = 1..n /\ DOMAIN ready'[th] = 1..(n + 2)
          /\ \A i \in 1..n : ready'[th][i] = ready[th][i]
      BY <3>4
    <3>7. \A i \in 1..(n + 2) : i \in 1..n \/ i = n + 1 \/ i = n + 2
      BY <3>6
    <3>8. \A i \in DOMAIN ready'[th] : ready'[th][i].run = "start" => i \in 1..n
      BY <3>5, <3>6, <3>7
    <3>9. 1..n \subseteq DOMAIN ready'[th]
      BY <3>6
    <3>10. Starts(th)' = Starts(th)
      BY <3>6, <3>8, <3>9 DEF Starts
    <3>11. \A i \in Starts(th) : ready'[th][i] = ready[th][i]
      BY <3>6 DEF Starts
    <3> QED
      BY <3>3, <3>4, <3>10, <3>11
  <2> QED
    BY <2>2, <2>3, <2>4 DEF Stops
<1>2. reactor'.on \in {th, NoThread} /\ reactor'.at \in {"idle", "join"} /\ reactor' \in Places
  BY DEF Idle, At, Places
<1>3. th \in gone /\ ~Kept(th)'
  <2>1. th \in gone
    BY DEF ThreadInv, ReactorInv
  <2>2. reactor'.on # th \/ reactor'.at = "join"
    BY ThreadAssumption DEF Idle, At
  <2> QED
    BY <2>1, <2>2 DEF Kept
<1>4. NumbersOf(th)'
  <2>1. NumbersOf(th)
    BY DEF ThreadInv
  <2>2. \A i, j \in Starts(th) : ready'[th][i].coro.id = ready'[th][j].coro.id => i = j
    BY <2>1, <1>1 DEF NumbersOf
  <2>3. \A i \in Starts(th), t \in tasks[th] : ready'[th][i].coro.id # t.coro.id
    BY <2>1, <1>1 DEF NumbersOf
  <2> QED
    BY <2>1, <2>2, <2>3, <1>1 DEF NumbersOf
<1>5. ThreadType'
  BY <1>1, <1>2 DEF ThreadInv, ThreadType, Results, Unanswered
<1>6. ReactorInv'
  BY <1>3 DEF ReactorInv, Idle, At
<1>7. ASSUME NEW o \in Threads, o # th
      PROVE  NumbersOf(o)' /\ CancelOf(o)'
  <2>1. NumbersOf(o) /\ CancelOf(o) /\ ready'[o] = ready[o] /\ tasks'[o] = tasks[o]
    BY <1>1, <1>7 DEF ThreadInv
  <2>2. /\ reactor.on # o /\ reactor'.on # o
        /\ o \in gone => o \in gone'
        /\ o \in interrupted => o \in interrupted'
    BY <1>2, <1>7, ThreadAssumption
  <2> QED
    BY <2>1, <2>2, Elsewhere
<1> QED
  BY <1>3, <1>4, <1>5, <1>6, <1>7 DEF ThreadInv, CancelOf

-----------------------------------------------------------------------------
(* The loop runs its first callback: the others keep their order.           *)
Shifted(th, c, i) ==
  \E j \in DOMAIN ready'[th] : j > i /\ ready'[th][j] = Callback("cancel", c)

LEMMA Shifts ==
  ASSUME ThreadType, NEW th \in Threads, ready[th] # <<>>, ready' = [ready EXCEPT ![th] = Tail(@)]
  PROVE  /\ \A i \in Starts(th)' :
              i + 1 \in Starts(th) /\ ready'[th][i] = ready[th][i + 1] /\ i \in Nat \ {0}
         /\ \A c : \A i \in Nat : WillBeCancelled(th, c, i + 1) => Shifted(th, c, i)
         /\ \A c : WillBeCancelled(th, c, 0) /\ ready[th][1] # Callback("cancel", c) => Shifted(th, c, 0)
<1> DEFINE n == Len(ready[th])
<1>1. /\ n \in Nat \ {0} /\ DOMAIN ready[th] = 1..n /\ DOMAIN ready'[th] = 1..(n - 1)
      /\ \A i \in DOMAIN ready'[th] : ready'[th][i] = ready[th][i + 1]
  BY HeadRun
<1> HIDE DEF n
<1>2. \A i \in Starts(th)' : i + 1 \in Starts(th) /\ ready'[th][i] = ready[th][i + 1] /\ i \in Nat \ {0}
  BY <1>1 DEF Starts
<1>3. \A j \in DOMAIN ready[th] : j # 1 => j - 1 \in DOMAIN ready'[th] /\ ready'[th][j - 1] = ready[th][j]
  BY <1>1
<1>4. ASSUME NEW c, NEW i \in Nat, WillBeCancelled(th, c, i + 1)
      PROVE  Shifted(th, c, i)
  <2>1. PICK j \in DOMAIN ready[th] : j > i + 1 /\ ready[th][j] = Callback("cancel", c)
    BY <1>4 DEF WillBeCancelled
  <2>2. j - 1 \in DOMAIN ready'[th] /\ j - 1 > i /\ ready'[th][j - 1] = Callback("cancel", c)
    BY <1>1, <1>3, <2>1
  <2> QED
    BY <2>2 DEF Shifted
<1>5. ASSUME NEW c, WillBeCancelled(th, c, 0), ready[th][1] # Callback("cancel", c)
      PROVE  Shifted(th, c, 0)
  <2>1. PICK j \in DOMAIN ready[th] : j > 0 /\ ready[th][j] = Callback("cancel", c)
    BY <1>5 DEF WillBeCancelled
  <2>2. j # 1
    BY <1>5, <2>1
  <2>3. j - 1 \in DOMAIN ready'[th] /\ j - 1 > 0 /\ ready'[th][j - 1] = Callback("cancel", c)
    BY <1>1, <1>3, <2>1, <2>2
  <2> QED
    BY <2>3 DEF Shifted
<1> QED
  BY <1>2, <1>4, <1>5

LEMMA StartsCoroStep ==
  ASSUME ThreadInv, NEW th \in Threads, StartsCoro(th)
  PROVE  ThreadInv'
<1> DEFINE h == Head(ready[th]).coro
           n == Len(ready[th])
<1>1. /\ loop[th] = "running" /\ ready[th] # <<>> /\ Head(ready[th]).run = "start"
      /\ tasks' = [tasks EXCEPT ![th] = tasks[th] \cup {Task(h, Pending)}]
      /\ ready' = [ready EXCEPT ![th] = Tail(@)]
      /\ UNCHANGED <<loop, reactor, outcome, gone, interrupted>>
  BY DEF StartsCoro, RunsCallback, Becomes, Due
<1>2. /\ ready' \in [Threads -> Seq(Callbacks)]
      /\ Head(ready[th]) \in Callbacks /\ Head(ready[th]) = ready[th][1]
      /\ n \in Nat \ {0} /\ DOMAIN ready[th] = 1..n
      /\ Len(ready'[th]) = n - 1 /\ DOMAIN ready'[th] = 1..(n - 1)
      /\ \A i \in DOMAIN ready'[th] : ready'[th][i] = ready[th][i + 1]
      /\ n = 1 <=> ready'[th] = <<>>
      /\ \A o \in Threads : o # th => ready'[o] = ready[o]
  BY <1>1, HeadRun DEF ThreadInv
<1>3. h \in Coros /\ ready[th][1].coro = h /\ ready[th][1] = Callback("start", h) /\ 1 \in Starts(th)
  BY <1>1, <1>2, CallbackTypes DEF Starts
<1> HIDE DEF h, n
<1>4. /\ tasks'[th] = tasks[th] \cup {Task(h, Pending)}
      /\ \A o \in Threads : o # th => tasks'[o] = tasks[o]
  BY <1>1 DEF ThreadInv, ThreadType
<1>5. /\ \A i \in Starts(th)' : i + 1 \in Starts(th) /\ ready'[th][i] = ready[th][i + 1] /\ i \in Nat \ {0}
      /\ \A c : \A i \in Nat : WillBeCancelled(th, c, i + 1) => Shifted(th, c, i)
      /\ \A c : WillBeCancelled(th, c, 0) /\ ready[th][1] # Callback("cancel", c) => Shifted(th, c, 0)
  BY <1>1, Shifts DEF ThreadInv
<1>6. NumbersOf(th)'
  <2>1. NumbersOf(th)
    BY DEF ThreadInv
  <2>2. \A i, j \in Starts(th)' : ready'[th][i].coro.id = ready'[th][j].coro.id => i = j
    BY <2>1, <1>5 DEF NumbersOf
  <2>3. \A i \in Starts(th)' : i + 1 # 1 /\ ready'[th][i].coro.id # h.id
    BY <2>1, <1>3, <1>5 DEF NumbersOf
  <2>4. \A i \in Starts(th)', t \in tasks[th] : ready'[th][i].coro.id # t.coro.id
    BY <2>1, <1>5 DEF NumbersOf
  <2>5. \A t \in tasks[th] : t.coro.id # h.id
    BY <2>1, <1>3 DEF NumbersOf
  <2>6. \A t, u \in tasks'[th] : t.coro.id = u.coro.id => t = u
    BY <2>1, <2>5, <1>4 DEF NumbersOf, Task
  <2> QED
    BY <2>2, <2>3, <2>4, <2>6, <1>4 DEF NumbersOf, Task
<1>7. CancelOf(th)'
  <2> SUFFICES ASSUME Kept(th)'
               PROVE  CancelledStarts(th)' /\ CancelledTasks(th)' /\ LastIsWaited(th)'
    BY DEF CancelOf
  <2>1. CancelledStarts(th) /\ CancelledTasks(th) /\ LastIsWaited(th)
    BY <1>1 DEF ThreadInv, CancelOf, Kept
  <2>2. Waited(th)' = Waited(th)
    BY <1>1 DEF Waited
  <2>3. CancelledStarts(th)'
    <3> SUFFICES ASSUME NEW i \in Starts(th)'
                 PROVE  (Waited(th) /\ ready[th][i + 1].coro = reactor.coro /\ i = n - 1)
                          \/ Shifted(th, ready[th][i + 1].coro, i)
      BY <1>1, <1>2, <1>5, <2>2 DEF CancelledStarts, WillBeCancelled, Shifted
    <3>1. (Waited(th) /\ ready[th][i + 1].coro = reactor.coro /\ i + 1 = n)
            \/ WillBeCancelled(th, ready[th][i + 1].coro, i + 1)
      BY <1>5, <2>1 DEF CancelledStarts, n
    <3> QED
      BY <3>1, <1>2, <1>5
  <2>4. ASSUME NEW t \in tasks[th]
        PROVE  t.result = "cancelled" \/ Shifted(th, t.coro, 0)
    <3>1. t.result = "cancelled" \/ WillBeCancelled(th, t.coro, 0)
      BY <1>1, <2>1 DEF CancelledTasks
    <3>2. ready[th][1] # Callback("cancel", t.coro)
      BY <1>3 DEF Callback
    <3> QED
      BY <3>1, <3>2, <1>5
  <2>5. (Waited(th) /\ h = reactor.coro /\ ready'[th] = <<>>) \/ Shifted(th, h, 0)
    <3>1. (Waited(th) /\ h = reactor.coro /\ 1 = n) \/ WillBeCancelled(th, h, 1)
      BY <1>3, <2>1 DEF CancelledStarts, n
    <3>2. WillBeCancelled(th, h, 1) => Shifted(th, h, 0)
      <4>1. WillBeCancelled(th, h, 0 + 1) => Shifted(th, h, 0)
        BY <1>5
      <4> QED
        BY <4>1
    <3> QED
      BY <3>1, <3>2, <1>2
  <2>6. CancelledTasks(th)'
    BY <1>1, <1>4, <2>2, <2>4, <2>5 DEF CancelledTasks, WillBeCancelled, Shifted, Task
  <2>7. LastIsWaited(th)'
    BY <1>1, <1>2, <2>1, <2>2 DEF LastIsWaited, n
  <2> QED
    BY <2>3, <2>6, <2>7
<1>8. ThreadType'
  BY <1>1, <1>2, <1>3, <1>4 DEF ThreadInv, ThreadType, Task, Results, Unanswered
<1>9. ReactorInv'
  BY <1>1 DEF ThreadInv, ReactorInv
<1>10. ASSUME NEW o \in Threads, o # th
       PROVE  NumbersOf(o)' /\ CancelOf(o)'
  BY <1>1, <1>2, <1>4, <1>10, Untouched DEF ThreadInv
<1> QED
  BY <1>6, <1>7, <1>8, <1>9, <1>10 DEF ThreadInv

LEMMA CancelsTaskStep ==
  ASSUME ThreadInv, NEW th \in Threads, CancelsTask(th)
  PROVE  ThreadInv'
<1> DEFINE h == Head(ready[th]).coro
           n == Len(ready[th])
<1>1. /\ loop[th] = "running" /\ ready[th] # <<>> /\ Head(ready[th]).run = "cancel"
      /\ tasks' = [tasks EXCEPT ![th] = {IF t.coro = h THEN Cancelled(t) ELSE t : t \in tasks[th]}]
      /\ ready' = [ready EXCEPT ![th] = Tail(@)]
      /\ UNCHANGED <<loop, reactor, outcome, gone, interrupted>>
  BY DEF CancelsTask, RunsCallback, Becomes, Due
<1>2. /\ ready' \in [Threads -> Seq(Callbacks)]
      /\ Head(ready[th]) \in Callbacks /\ Head(ready[th]) = ready[th][1]
      /\ n \in Nat \ {0} /\ DOMAIN ready[th] = 1..n
      /\ Len(ready'[th]) = n - 1 /\ DOMAIN ready'[th] = 1..(n - 1)
      /\ \A i \in DOMAIN ready'[th] : ready'[th][i] = ready[th][i + 1]
      /\ n = 1 <=> ready'[th] = <<>>
      /\ \A o \in Threads : o # th => ready'[o] = ready[o]
  BY <1>1, HeadRun DEF ThreadInv
<1>3. ready[th][1].coro = h /\ ready[th][1].run = "cancel"
  BY <1>1, <1>2
<1> HIDE DEF h, n
<1>4. /\ tasks'[th] = {IF t.coro = h THEN Cancelled(t) ELSE t : t \in tasks[th]}
      /\ \A u \in tasks'[th] : \E t \in tasks[th] :
           /\ u.coro = t.coro /\ u = (IF t.coro = h THEN Cancelled(t) ELSE t)
           /\ u.result = "cancelled" \/ (u = t /\ t.coro # h)
      /\ \A o \in Threads : o # th => tasks'[o] = tasks[o]
  BY <1>1 DEF ThreadInv, ThreadType, Cancelled, Task
<1>5. /\ \A i \in Starts(th)' : i + 1 \in Starts(th) /\ ready'[th][i] = ready[th][i + 1] /\ i \in Nat \ {0}
      /\ \A c : \A i \in Nat : WillBeCancelled(th, c, i + 1) => Shifted(th, c, i)
      /\ \A c : WillBeCancelled(th, c, 0) /\ ready[th][1] # Callback("cancel", c) => Shifted(th, c, 0)
  BY <1>1, Shifts DEF ThreadInv
<1>6. NumbersOf(th)'
  <2>1. NumbersOf(th)
    BY DEF ThreadInv
  <2>2. \A i, j \in Starts(th)' : ready'[th][i].coro.id = ready'[th][j].coro.id => i = j
    BY <2>1, <1>5 DEF NumbersOf
  <2>3. \A i \in Starts(th)', t \in tasks[th] : ready'[th][i].coro.id # t.coro.id
    BY <2>1, <1>5 DEF NumbersOf
  <2>4. \A i \in Starts(th)', u \in tasks'[th] : ready'[th][i].coro.id # u.coro.id
    BY <2>3, <1>4
  <2>5. \A u, v \in tasks'[th] : u.coro.id = v.coro.id => u = v
    BY <2>1, <1>4 DEF NumbersOf
  <2> QED
    BY <2>2, <2>4, <2>5 DEF NumbersOf
<1>7. CancelOf(th)'
  <2> SUFFICES ASSUME Kept(th)'
               PROVE  CancelledStarts(th)' /\ CancelledTasks(th)' /\ LastIsWaited(th)'
    BY DEF CancelOf
  <2>1. CancelledStarts(th) /\ CancelledTasks(th) /\ LastIsWaited(th)
    BY <1>1 DEF ThreadInv, CancelOf, Kept
  <2>2. Waited(th)' = Waited(th)
    BY <1>1 DEF Waited
  <2>3. CancelledStarts(th)'
    <3> SUFFICES ASSUME NEW i \in Starts(th)'
                 PROVE  (Waited(th) /\ ready[th][i + 1].coro = reactor.coro /\ i = n - 1)
                          \/ Shifted(th, ready[th][i + 1].coro, i)
      BY <1>1, <1>2, <1>5, <2>2 DEF CancelledStarts, WillBeCancelled, Shifted
    <3>1. (Waited(th) /\ ready[th][i + 1].coro = reactor.coro /\ i + 1 = n)
            \/ WillBeCancelled(th, ready[th][i + 1].coro, i + 1)
      BY <1>5, <2>1 DEF CancelledStarts, n
    <3> QED
      BY <3>1, <1>2, <1>5
  <2>4. ASSUME NEW t \in tasks'[th]
        PROVE  t.result = "cancelled" \/ Shifted(th, t.coro, 0)
    <3>1. t.result = "cancelled" \/ (WillBeCancelled(th, t.coro, 0) /\ t.coro # h)
      BY <1>1, <1>4, <2>1, <2>4 DEF CancelledTasks
    <3>2. t.coro # h => ready[th][1] # Callback("cancel", t.coro)
      BY <1>3 DEF Callback
    <3> QED
      BY <3>1, <3>2, <1>5
  <2>5. CancelledTasks(th)'
    BY <2>4 DEF CancelledTasks, WillBeCancelled, Shifted
  <2>6. LastIsWaited(th)'
    BY <1>1, <1>2, <2>1, <2>2 DEF LastIsWaited, n
  <2> QED
    BY <2>3, <2>5, <2>6
<1>8. ThreadType'
  <2>1. tasks'[th] \subseteq [coro : Coros, result : Results]
    BY <1>4 DEF ThreadInv, ThreadType, Cancelled, Task, Results, Unanswered
  <2> QED
    BY <1>1, <1>2, <1>4, <2>1 DEF ThreadInv, ThreadType
<1>9. ReactorInv'
  BY <1>1 DEF ThreadInv, ReactorInv
<1>10. ASSUME NEW o \in Threads, o # th
       PROVE  NumbersOf(o)' /\ CancelOf(o)'
  BY <1>1, <1>2, <1>4, <1>10, Untouched DEF ThreadInv
<1> QED
  BY <1>6, <1>7, <1>8, <1>9, <1>10 DEF ThreadInv

LEMMA LoopStartsStep ==
  ASSUME ThreadInv, NEW th \in Threads, LoopStarts(th)
  PROVE  ThreadInv'
<1>1. ThreadType' /\ ReactorInv'
  BY DEF ThreadInv, ThreadType, ReactorInv, LoopStarts
<1>2. ASSUME NEW o \in Threads
      PROVE  NumbersOf(o)' /\ CancelOf(o)'
  BY Untouched DEF ThreadInv, LoopStarts
<1> QED
  BY <1>1, <1>2 DEF ThreadInv

LEMMA StopsLoopStep ==
  ASSUME ThreadInv, NEW th \in Threads, StopsLoop(th)
  PROVE  ThreadInv'
<1>1. /\ ready' = [ready EXCEPT ![th] = <<>>] /\ tasks' = [tasks EXCEPT ![th] = {}]
      /\ loop' = [loop EXCEPT ![th] = "closed"] /\ UNCHANGED <<reactor, outcome, gone, interrupted>>
  BY DEF StopsLoop, Becomes
<1>2. ready'[th] = <<>> /\ tasks'[th] = {} /\ DOMAIN ready'[th] = {}
  BY <1>1 DEF ThreadInv, ThreadType
<1>3. NumbersOf(th)' /\ CancelOf(th)'
  BY <1>2 DEF NumbersOf, CancelOf, CancelledStarts, CancelledTasks, LastIsWaited, Starts
<1>4. ThreadType' /\ ReactorInv'
  BY <1>1 DEF ThreadInv, ThreadType, ReactorInv
<1>5. ASSUME NEW o \in Threads, o # th
      PROVE  NumbersOf(o)' /\ CancelOf(o)'
  <2>1. ready'[o] = ready[o] /\ tasks'[o] = tasks[o]
    BY <1>1, <1>5 DEF ThreadInv, ThreadType
  <2> QED
    BY <2>1, <1>1, Untouched DEF ThreadInv
<1> QED
  BY <1>3, <1>4, <1>5 DEF ThreadInv

-----------------------------------------------------------------------------
(* Once the coroutine that is waited for has started, the others are being  *)
(* cancelled.                                                               *)
LEMMA Alone ==
  ASSUME ThreadInv, NEW th \in Threads \ interrupted, NEW t \in tasks[th], reactor.on = th,
         t.coro = reactor.coro
  PROVE  /\ Waited(th) /\ ready[th] = <<>>
         /\ \A u \in tasks[th] : u.coro = t.coro \/ u.result = "cancelled"
<1>1. reactor.coro \in Coros
  BY DEF ThreadInv, ThreadType
<1>2. Waited(th)
  BY <1>1, PlaceTypes DEF ThreadInv, ThreadType, Waited
<1>3. CancelledTasks(th) /\ LastIsWaited(th) /\ NumbersOf(th)
  BY <1>2 DEF ThreadInv, CancelOf, Kept, Waited
<1>4. ready[th] = <<>>
  <2> SUFFICES ASSUME ready[th] # <<>> PROVE FALSE
    OBVIOUS
  <2>1. Len(ready[th]) \in Nat \ {0} /\ DOMAIN ready[th] = 1..Len(ready[th])
    BY EmptySeq, LenProperties DEF ThreadInv, ThreadType
  <2>2. ready[th][Len(ready[th])] = Callback("start", reactor.coro)
    BY <1>2, <1>3 DEF LastIsWaited
  <2>3. Len(ready[th]) \in Starts(th) /\ ready[th][Len(ready[th])].coro = reactor.coro
    BY <2>1, <2>2 DEF Starts, Callback
  <2> QED
    BY <2>3, <1>3 DEF NumbersOf
<1>5. \A u \in tasks[th] : ~WillBeCancelled(th, u.coro, 0)
  BY <1>4 DEF WillBeCancelled
<1> QED
  BY <1>2, <1>3, <1>4, <1>5 DEF CancelledTasks

-----------------------------------------------------------------------------
(* Coroutines go on or end, and what was cancelled stays so.                *)
LEMMA GoesOn ==
  ASSUME ThreadInv, NEW th \in Threads, UNCHANGED <<loop, ready, reactor, gone, interrupted>>,
         NEW new \in SUBSET [coro : Coros, result : Results], Becomes(th, new),
         \A u \in new :
           \E t \in tasks[th] : t.coro = u.coro /\ (t.result = "cancelled" => u.result = "cancelled"),
         \A u, v \in new : u.coro = v.coro => u = v,
         outcome' \in Results,
         \/ outcome' = outcome
         \/ /\ reactor.on = th /\ \E t \in tasks[th] : t.coro = reactor.coro
            /\ \A u \in new : u.coro # reactor.coro
  PROVE  ThreadInv'
<1>1. /\ tasks' = [tasks EXCEPT ![th] = new] /\ tasks'[th] = new
      /\ \A o \in Threads : o # th => tasks'[o] = tasks[o]
  BY DEF ThreadInv, ThreadType, Becomes
<1>2. ThreadType' /\ ReactorInv'
  <2>1. tasks' \in [Threads -> SUBSET [coro : Coros, result : Results]]
    BY <1>1 DEF ThreadInv, ThreadType
  <2>2. \A o \in Threads : loop'[o] = "none" => ready'[o] = <<>> /\ tasks'[o] = {}
    BY <1>1 DEF ThreadInv, ThreadType
  <2> QED
    BY <2>1, <2>2 DEF ThreadInv, ThreadType, ReactorInv
<1>3. NumbersOf(th)'
  <2>1. NumbersOf(th)
    BY DEF ThreadInv
  <2>2. \A i, j \in Starts(th)' : ready'[th][i].coro.id = ready'[th][j].coro.id => i = j
    BY <2>1 DEF NumbersOf, Starts
  <2>3. \A i \in Starts(th)', u \in new : ready'[th][i].coro.id # u.coro.id
    BY <2>1 DEF NumbersOf, Starts
  <2>4. ASSUME NEW u \in new, NEW v \in new, u.coro.id = v.coro.id
        PROVE  u = v
    <3>1. PICK t \in tasks[th] : t.coro = u.coro
      OBVIOUS
    <3>2. PICK w \in tasks[th] : w.coro = v.coro
      OBVIOUS
    <3>3. t = w
      BY <2>1, <2>4, <3>1, <3>2 DEF NumbersOf
    <3> QED
      BY <3>1, <3>2, <3>3
  <2> QED
    BY <1>1, <2>2, <2>3, <2>4 DEF NumbersOf
<1>4. /\ Waited(th)' = Waited(th) /\ Kept(th)' = Kept(th) /\ Starts(th)' = Starts(th)
      /\ \A c, i : WillBeCancelled(th, c, i)' = WillBeCancelled(th, c, i)
  BY DEF Waited, Kept, Starts, WillBeCancelled
<1>5. CancelOf(th)'
  <2> SUFFICES ASSUME Kept(th)
               PROVE  CancelledStarts(th)' /\ CancelledTasks(th)' /\ LastIsWaited(th)'
    BY <1>4 DEF CancelOf
  <2>1. CancelledStarts(th) /\ CancelledTasks(th) /\ LastIsWaited(th)
    BY DEF ThreadInv, CancelOf
  <2>2. CancelledStarts(th)'
    BY <2>1, <1>4 DEF CancelledStarts
  <2>3. CancelledTasks(th)'
    <3> SUFFICES ASSUME NEW u \in new
                 PROVE  \/ u.result = "cancelled"
                        \/ Waited(th) /\ u.coro = reactor.coro /\ ready[th] = <<>>
                        \/ WillBeCancelled(th, u.coro, 0)
      BY <1>1, <1>4 DEF CancelledTasks
    <3>1. PICK t \in tasks[th] : t.coro = u.coro /\ (t.result = "cancelled" => u.result = "cancelled")
      OBVIOUS
    <3> QED
      BY <2>1, <3>1 DEF CancelledTasks
  <2>4. CASE outcome' = outcome
    BY <2>1, <2>2, <2>3, <2>4, <1>1, <1>4 DEF LastIsWaited
  <2>5. CASE outcome' # outcome
    <3>1. PICK t \in tasks[th] : t.coro = reactor.coro
      BY <2>5
    <3>2. reactor.on = th /\ th \notin interrupted
      BY <2>5 DEF Kept
    <3>3. ready[th] = <<>> /\ \A u \in tasks[th] : u.coro = t.coro \/ u.result = "cancelled"
      BY <3>1, <3>2, Alone
    <3>4. \A u \in new : u.result = "cancelled"
      BY <2>5, <3>1, <3>3
    <3> QED
      BY <2>2, <2>3, <3>3, <3>4, <1>1 DEF LastIsWaited
  <2> QED
    BY <2>4, <2>5
<1>6. ASSUME NEW o \in Threads, o # th
      PROVE  NumbersOf(o)' /\ CancelOf(o)'
  <2>1. outcome' = outcome \/ reactor.on # o
    BY <1>6
  <2> QED
    BY <2>1, <1>1, <1>6, Untouched DEF ThreadInv
<1> QED
  BY <1>2, <1>3, <1>5, <1>6 DEF ThreadInv

(* One goes on.                                                             *)
LEMMA OneKeepsOn ==
  ASSUME ThreadInv, NEW th \in Threads, NEW t \in tasks[th], NEW result \in Results,
         Keeps(th, t, result),
         t.result # "cancelled", UNCHANGED <<loop, ready, reactor, gone, interrupted>>
  PROVE  ThreadInv'
<1> DEFINE u == Task(t.coro, result)
           new == (tasks[th] \ {t}) \cup {u}
<1>1. u.coro = t.coro /\ u \in [coro : Coros, result : Results]
  BY DEF ThreadInv, ThreadType, Task
<1>2. Becomes(th, new) /\ outcome' = outcome /\ outcome' \in Results
  BY DEF Keeps, ThreadInv, ThreadType
<1> HIDE DEF u
<1>3. new \in SUBSET [coro : Coros, result : Results]
  BY <1>1 DEF ThreadInv, ThreadType
<1>4. \A v \in new :
        \E w \in tasks[th] : w.coro = v.coro /\ (w.result = "cancelled" => v.result = "cancelled")
  BY <1>1
<1>5. \A v, w \in new : v.coro = w.coro => v = w
  BY <1>1 DEF ThreadInv, NumbersOf
<1> HIDE DEF new
<1> QED
  BY <1>2, <1>3, <1>4, <1>5, GoesOn

(* Those that asked for it learn that a request was executed.               *)
LEMMA SomeKeepOn ==
  ASSUME ThreadInv, NEW th \in Threads, NEW request, NEW result \in Results,
         Executed(th, request, result),
         UNCHANGED <<loop, ready, reactor, gone, interrupted>>
  PROVE  ThreadInv'
<1> DEFINE Next1(t) == IF Awaiting(t, request) THEN Task(t.coro, result) ELSE t
           new == {Next1(t) : t \in tasks[th]}
<1>1. Becomes(th, new) /\ outcome' = outcome /\ outcome' \in Results
  BY DEF Executed, ThreadInv, ThreadType
<1>2. \A t \in tasks[th] : /\ Next1(t).coro = t.coro /\ Next1(t) \in [coro : Coros, result : Results]
                           /\ t.result = "cancelled" => Next1(t).result = "cancelled"
  BY DEF ThreadInv, ThreadType, Task, Awaiting
<1> HIDE DEF Next1
<1>3. new \in SUBSET [coro : Coros, result : Results]
  BY <1>2
<1>4. \A v \in new :
        \E w \in tasks[th] : w.coro = v.coro /\ (w.result = "cancelled" => v.result = "cancelled")
  BY <1>2
<1>5. \A v, w \in new : v.coro = w.coro => v = w
  BY <1>2 DEF ThreadInv, NumbersOf
<1> HIDE DEF new
<1> QED
  BY <1>1, <1>3, <1>4, <1>5, GoesOn

(* One ends.                                                                *)
LEMMA OneEnds ==
  ASSUME ThreadInv, NEW th \in Threads, NEW t \in tasks[th], NEW result \in Results,
         Ended(th, t, result),
         UNCHANGED <<loop, ready, reactor, gone, interrupted>>
  PROVE  ThreadInv'
<1> DEFINE new == tasks[th] \ {t}
<1>1. /\ Becomes(th, new)
      /\ outcome' = IF reactor.on = th /\ reactor.coro = t.coro THEN result ELSE outcome
  BY DEF Ended
<1>2. new \in SUBSET [coro : Coros, result : Results] /\ outcome' \in Results
  BY <1>1 DEF ThreadInv, ThreadType
<1>3. \A v \in new : v.coro # t.coro
  BY DEF ThreadInv, NumbersOf
<1>4. \A v, w \in new : v.coro = w.coro => v = w
  BY DEF ThreadInv, NumbersOf
<1>5. \A v \in new :
        \E w \in tasks[th] : w.coro = v.coro /\ (w.result = "cancelled" => v.result = "cancelled")
  OBVIOUS
<1> HIDE DEF new
<1> QED
  BY <1>1, <1>2, <1>3, <1>4, <1>5, GoesOn

-----------------------------------------------------------------------------
(* Every step keeps the threads in order.                                   *)
LEMMA CoroFits ==
  ASSUME NEW call \in CallNames, NEW arg \in Args,
         call \in {"add_request", "mark_request_as_handled"} => arg \in Requests,
         call = "set_value" => arg \in [key : Keys, time : 0..MaxTime],
         call = "expire" => expiration_secs > 0
  PROVE  [id |-> 1, call |-> call, arg |-> arg] \in Coros
  BY ThreadAssumption DEF Coros

LEMMA WaitedFor ==
  ASSUME ThreadInv, NEW th, NEW call, Awaits(th, call), th \in Threads
  PROVE  Waited(th) /\ reactor.at = "coro" /\ reactor.coro \in Coros /\ reactor.coro.call = call
  BY PlaceTypes DEF ThreadInv, ThreadType, Awaits, Waited

LEMMA LoopStep ==
  ASSUME ThreadInv, NEW th \in Threads, Loop(th)
  PROVE  ThreadInv'
<1>1. CASE Answers(th)
  <2>1. PICK t \in tasks[th] : Ended(th, t, t.result)
    BY <1>1 DEF Answers
  <2>2. t.result \in Results
    BY DEF ThreadInv, ThreadType
  <2>3. UNCHANGED <<loop, ready, reactor, gone, interrupted>>
    BY <1>1 DEF Answers
  <2> QED
    BY <2>1, <2>2, <2>3, OneEnds
<1>2. CASE Gathered(th)
  <2>1. PICK t \in tasks[th] : Ended(th, t, "done")
    BY <1>2 DEF Gathered
  <2>2. "done" \in Results /\ UNCHANGED <<loop, ready, reactor, gone, interrupted>>
    BY <1>2 DEF Gathered, Results
  <2> QED
    BY <2>1, <2>2, OneEnds
<1>3. CASE Unwinds(th)
  <2>1. PICK t \in tasks[th] : Becomes(th, tasks[th] \ {t})
    BY <1>3 DEF Unwinds
  <2> DEFINE new == tasks[th] \ {t}
  <2>2. new \in SUBSET [coro : Coros, result : Results] /\ outcome' \in Results
    BY <1>3 DEF Unwinds, ThreadInv, ThreadType
  <2>3. \A v, w \in new : v.coro = w.coro => v = w
    BY DEF ThreadInv, NumbersOf
  <2>4. UNCHANGED <<loop, ready, reactor, outcome, gone, interrupted>>
    BY <1>3 DEF Unwinds
  <2>5. \A v \in new :
          \E w \in tasks[th] : w.coro = v.coro /\ (w.result = "cancelled" => v.result = "cancelled")
    OBVIOUS
  <2>6. Becomes(th, new)
    BY <2>1
  <2> HIDE DEF new
  <2> QED
    BY <2>2, <2>3, <2>4, <2>5, <2>6, GoesOn
<1>4. CASE ShutsDownTasks(th)
  <2>1. PICK t \in tasks[th] :
          /\ t.result = Pending
          /\ Becomes(th, {Cancelled(u) : u \in tasks[th] \ {t}} \cup {Task(t.coro, "gathering")})
    BY <1>4 DEF ShutsDownTasks
  <2> DEFINE new == {Cancelled(u) : u \in tasks[th] \ {t}} \cup {Task(t.coro, "gathering")}
  <2>2. t.result # "cancelled"
    BY <2>1, ThreadAssumption
  <2>3. \A v \in new :
          \/ v = Task(t.coro, "gathering")
          \/ \E w \in tasks[th] \ {t} : v = Cancelled(w)
    OBVIOUS
  <2>4. new \in SUBSET [coro : Coros, result : Results] /\ outcome' \in Results
    BY <1>4 DEF ShutsDownTasks, ThreadInv, ThreadType, Cancelled, Task, Results, Unanswered
  <2>5. \A v, w \in new : v.coro = w.coro => v = w
    <3>1. \A x, y \in tasks[th] : x.coro = y.coro => x = y
      BY DEF ThreadInv, NumbersOf
    <3> QED
      BY <2>3, <3>1 DEF Cancelled, Task
  <2>6. \A v \in new :
          \E w \in tasks[th] : w.coro = v.coro /\ (w.result = "cancelled" => v.result = "cancelled")
    BY <2>2, <2>3 DEF Cancelled, Task
  <2>7. UNCHANGED <<loop, ready, reactor, outcome, gone, interrupted>>
    BY <1>4 DEF ShutsDownTasks
  <2>8. Becomes(th, new)
    BY <2>1
  <2> HIDE DEF new
  <2> QED
    BY <2>4, <2>5, <2>6, <2>7, <2>8, GoesOn
<1> QED
  BY <1>1, <1>2, <1>3, <1>4, LoopStartsStep, StartsCoroStep, CancelsTaskStep, StopsLoopStep DEF Loop

LEMMA StorageFailsStep ==
  ASSUME ThreadInv, NEW th \in Threads, StorageFails(th)
  PROVE  ThreadInv'
<1>1. PICK t \in tasks[th] : Ended(th, t, "raised")
  BY DEF StorageFails
<1>2. "raised" \in Results /\ UNCHANGED <<loop, ready, reactor, gone, interrupted>>
  BY DEF Results, StorageFails
<1> QED
  BY <1>1, <1>2, OneEnds

LEMMA ClosingStep ==
  ASSUME ThreadInv, Closing
  PROVE  ThreadInv'
<1> DEFINE th == reactor.on
<1>1. reactor.at \in {"close", "shutdown", "join"}
  BY DEF Closing, Close, ShutDown, Join
<1>2. th \in Threads /\ th \in gone
  BY <1>1, PlaceTypes DEF ThreadInv, ThreadType, ReactorInv
<1> HIDE DEF th
<1>3. CASE Close
  <2>1. /\ reactor.at = "close" /\ loop' = loop /\ tasks' = tasks
        /\ gone' = gone /\ interrupted' = interrupted
    BY <1>3 DEF Close
  <2>2. CASE loop[th] = "closed" /\ Ends /\ UNCHANGED ready
    <3>1. ready' = ready /\ reactor' = Idle /\ outcome' = Pending /\ loop[th] # "none"
      BY <2>2 DEF Ends, Moves, Idle
    <3> QED
      BY <3>1, <1>1, <1>2, <2>1, StopsIt DEF th
  <2>3. CASE loop[th] = "running" /\ RunsTo("shutdown", th, "shutdown", NoCoro)
    <3>1. [id |-> 1, call |-> "shutdown", arg |-> NoCoro] \in Coros /\ "shutdown" \in CallNames
      BY CoroFits DEF CallNames, Args
    <3> QED
      BY <3>1, <1>2, <2>1, <2>3, HandsOver DEF th
  <2>4. CASE loop[th] = "starting" /\ Stops(th) /\ Moves("join", th, NoCoro)
    <3>1. Stops(th) /\ reactor' = At("join", th, NoCoro) /\ outcome' = Pending /\ loop[th] # "none"
      BY <2>4 DEF Moves
    <3> QED
      BY <3>1, <1>1, <1>2, <2>1, StopsIt DEF th
  <2> QED
    BY <1>3, <2>2, <2>3, <2>4 DEF Close, th
<1>4. CASE ShutDown
  <2>1. /\ reactor.at = "shutdown" /\ loop' = loop /\ tasks' = tasks
        /\ gone' = gone /\ interrupted' = interrupted
        /\ reactor' = At("join", th, NoCoro) /\ outcome' = Pending /\ Waited(th)
    BY <1>4 DEF ShutDown, Moves, Waited, th
  <2>2. loop[th] # "none"
    BY <2>1 DEF ThreadInv, ReactorInv, th
  <2>3. Stops(th) \/ ready' = [ready EXCEPT ![th] = @ \o <<Callback("cancel", reactor.coro), Stop>>]
    BY <1>4 DEF ShutDown, th
  <2> QED
    BY <1>2, <2>1, <2>2, <2>3, StopsIt DEF th
<1>5. CASE Join
  <2>1. /\ reactor.at = "join" /\ loop' = loop /\ tasks' = tasks
        /\ gone' = gone /\ interrupted' = interrupted
        /\ reactor' = Idle /\ outcome' = Pending
    BY <1>5 DEF Join, Ends, Moves, Idle
  <2>2. loop[th] # "none"
    BY <2>1 DEF ThreadInv, ReactorInv, th
  <2>3. CASE ready' = ready
    BY <1>1, <1>2, <2>1, <2>2, <2>3, StopsIt DEF th
  <2>4. CASE Stops(th)
    BY <1>1, <1>2, <2>1, <2>2, <2>4, StopsIt DEF th
  <2> QED
    BY <1>5, <2>3, <2>4 DEF Join, th
<1> QED
  BY <1>3, <1>4, <1>5 DEF Closing

LEMMA SchedulerThread ==
  ASSUME ThreadInv, EngineCalls \/ Continues
  PROVE  ThreadInv'
<1>1. Scheduler \in Threads
  BY SchedulerAssumption
<1>2. ASSUME NEW call \in CallNames \ {"expire"}, NEW arg,
             [id |-> 1, call |-> call, arg |-> arg] \in Coros, Calls(call, arg)
      PROVE  ThreadInv'
  <2>1. /\ reactor = Idle /\ Scheduler \notin gone /\ RunsTo("coro", Scheduler, call, arg)
        /\ loop' = loop /\ tasks' = tasks /\ gone' \in {gone, gone \cup {Scheduler}} /\ interrupted' = interrupted
    BY <1>2 DEF Calls, Runs
  <2> QED
    BY <1>1, <1>2, <2>1, HandsOver
<1>3. ASSUME Waited(Scheduler), outcome # Pending, UNCHANGED <<loop, ready, tasks, interrupted>>,
             gone' \in {gone, gone \cup {Scheduler}},
             outcome' = Pending,
             \/ reactor' = Idle
             \/ reactor' = At("close", Scheduler, NoCoro) /\ Scheduler \in gone' /\ reactor.at = "coro"
      PROVE  ThreadInv'
  <2>1. reactor.on = Scheduler /\ reactor.at # "join"
    BY <1>3 DEF Waited
  <2> QED
    BY <1>1, <1>3, <2>1, Leaves
<1>4. ASSUME NEW call, Awaits(Scheduler, call), TimesOut(Scheduler),
             gone' \in {gone, gone \cup {Scheduler}},
             loop' = loop, tasks' = tasks, outcome' = Pending,
             reactor' = Idle \/ (reactor' = At("close", Scheduler, NoCoro) /\ Scheduler \in gone')
      PROVE  ThreadInv'
  <2>1. Waited(Scheduler)
    BY <1>1, <1>4, WaitedFor
  <2>2. outcome = Pending /\ CancelsCoro(Scheduler) /\ interrupted' = interrupted
    BY <1>4 DEF TimesOut, Expires
  <2> QED
    BY <1>1, <1>4, <2>1, <2>2, GivesUp
<1>5. CASE EngineCalls
  <2>1. CASE Open \/ HasPendingRequests \/ NextRequest
    <3>1. \A call \in {"open", "is_finished", "fetch_next_request"} :
            call \in CallNames \ {"expire"} /\ [id |-> 1, call |-> call, arg |-> NoRequest] \in Coros
      BY CoroFits DEF CallNames, Args
    <3> QED
      BY <2>1, <3>1, <1>2 DEF Open, HasPendingRequests, NextRequest
  <2>2. CASE EnqueueRequest
    <3>1. PICK r \in Requests : Calls("add_request", r)
      BY <2>2 DEF EnqueueRequest
    <3>2. /\ "add_request" \in CallNames \ {"expire"}
          /\ [id |-> 1, call |-> "add_request", arg |-> r] \in Coros
      BY CoroFits DEF CallNames, Args
    <3> QED
      BY <3>1, <3>2, <1>2
  <2>3. CASE CloseScheduler
    <3>1. /\ reactor = Idle /\ Scheduler \notin gone /\ gone' = gone \cup {Scheduler}
          /\ reactor' = At("close", Scheduler, NoCoro) /\ outcome' = Pending
          /\ ready' = ready /\ loop' = loop /\ tasks' = tasks /\ interrupted' = interrupted
      BY <2>3 DEF CloseScheduler, Moves, thread
    <3> QED
      BY <3>1, <1>1, Leaves
  <2> QED
    BY <1>5, <2>1, <2>2, <2>3 DEF EngineCalls
<1>6. CASE Opened
  <2>1. Waited(Scheduler)
    BY <1>1, <1>6, WaitedFor DEF Opened, Returned
  <2> QED
    BY <1>3, <1>6, <2>1 DEF Opened, Returned, Ends, Moves, Idle, thread
<1>7. CASE OpenFails
  <2>1. /\ Awaits(Scheduler, "open") /\ gone' = gone \cup {Scheduler} /\ loop' = loop /\ tasks' = tasks
        /\ reactor' = At("close", Scheduler, NoCoro) /\ outcome' = Pending
    BY <1>7 DEF OpenFails, Returned, ClosesAndRaises, Moves
  <2>2. CASE outcome # Pending /\ UNCHANGED <<ready, interrupted>>
    <3>1. Waited(Scheduler) /\ reactor.at = "coro"
      BY <1>1, <2>1, WaitedFor
    <3> QED
      BY <1>3, <2>1, <2>2, <3>1
  <2>3. CASE TimesOut(Scheduler)
    BY <1>4, <2>1, <2>3
  <2> QED
    BY <1>7, <2>2, <2>3 DEF OpenFails, Returned
<1>8. CASE Answered
  <2>1. Waited(Scheduler)
    BY <1>1, <1>8, WaitedFor DEF Answered, Returned
  <2> QED
    BY <1>3, <1>8, <2>1 DEF Answered, Returned, Ends, Moves, Idle, thread
<1>9. CASE Fetched
  <2>1. Waited(Scheduler) /\ outcome # Pending /\ reactor.at = "coro" /\ reactor.on = Scheduler
    BY <1>1, <1>9, WaitedFor DEF Fetched, Returned, Waited
  <2>2. CASE Marks(outcome)
    <3>1. "mark_request_as_handled" \in CallNames
          /\ [id |-> 1, call |-> "mark_request_as_handled", arg |-> outcome] \in Coros
      BY <2>2, CoroFits DEF CallNames, Args, Marks
    <3>2. /\ RunsTo("coro", Scheduler, "mark_request_as_handled", outcome)
          /\ loop' = loop /\ tasks' = tasks /\ gone' = gone /\ interrupted' = interrupted
      BY <1>9, <2>2 DEF Fetched, Runs
    <3> QED
      BY <1>1, <2>1, <3>1, <3>2, HandsOver
  <2>3. CASE ~Marks(outcome)
    BY <1>3, <1>9, <2>1, <2>3 DEF Fetched, Ends, Moves, Idle
  <2> QED
    BY <2>2, <2>3
<1>10. CASE Marked
  <2>1. Waited(Scheduler)
    BY <1>1, <1>10, WaitedFor DEF Marked, Returned
  <2> QED
    BY <1>3, <1>10, <2>1 DEF Marked, Returned, Ends, Moves, Idle, thread
<1>11. CASE CallTimesOut
  <2>1. PICK call : Awaits(Scheduler, call) /\ TimesOut(Scheduler)
    BY <1>11 DEF CallTimesOut
  <2> QED
    BY <1>4, <1>11, <2>1 DEF CallTimesOut, Ends, Moves, Idle
<1>12. CASE CallInterrupted
  <2>1. /\ reactor.on = Scheduler /\ reactor' = Idle /\ outcome' = Pending
        /\ loop' = loop /\ ready' = ready /\ tasks' = tasks /\ gone' = gone
        /\ interrupted' = interrupted \cup {Scheduler}
    BY <1>12 DEF CallInterrupted, Interrupted, Ends, Moves, Idle
  <2> QED
    BY <1>1, <2>1, Leaves
<1> QED
  BY <1>5, <1>6, <1>7, <1>8, <1>9, <1>10, <1>11, <1>12 DEF Continues

(* The scheduler's coroutines go on, and the platform answers them.         *)
LEMMA QueueActsStep ==
  ASSUME ThreadInv, QueueType, QueueActs \/ UpdateFails \/ LateRequest
  PROVE  ThreadInv'
<1>1. UNCHANGED <<loop, ready, reactor, gone, interrupted>> /\ Scheduler \in Threads
  BY SchedulerAssumption DEF QueueActs, UpdateFails, LateRequest, Executes
<1>2. ASSUME NEW t \in tasks[Scheduler], t.result = Pending,
             Opens(t) \/ IsFinished(t) \/ FetchNextRequest(t) \/ AddRequest(t) \/ MarkRequestAsHandled(t)
      PROVE  ThreadInv'
  <2>1. PICK result \in Results : Keeps(Scheduler, t, result)
    <3>1. Listed \subseteq Requests
      BY DEF Listed, QueueType
    <3> QED
      BY <1>2, <3>1 DEF Opens, IsFinished, FetchNextRequest, AddRequest, MarkRequestAsHandled,
          Sends, Results, Unanswered
  <2>2. t.result # "cancelled"
    BY <1>2, ThreadAssumption
  <2> QED
    BY <1>1, <2>1, <2>2, OneKeepsOn
<1>3. ASSUME NEW request, Executes(request)
      PROVE  ThreadInv'
  <2>1. PICK result \in Results : Executed(Scheduler, request, result)
    BY <1>3 DEF Executes, Adds, Updates, Results
  <2> QED
    BY <1>1, <2>1, SomeKeepOn
<1>4. CASE UpdateFails
  <2>1. PICK t \in tasks[Scheduler] : t.result = "sent" /\ Keeps(Scheduler, t, "marked")
    BY <1>4 DEF UpdateFails
  <2>2. "marked" \in Results
    BY DEF Results
  <2> QED
    BY <1>1, <2>1, <2>2, OneKeepsOn
<1> QED
  BY <1>2, <1>3, <1>4 DEF QueueActs, LateRequest

(* The cache's thread is created with the coroutine that opens the store.   *)
LEMMA OpenSpiderStep ==
  ASSUME ThreadInv, OpenSpider
  PROVE  ThreadInv'
<1> DEFINE c == Fresh(Cache, "open", NoKey)
<1>1. /\ reactor = Idle /\ loop[Cache] = "none" /\ loop' = [loop EXCEPT ![Cache] = "starting"]
      /\ reactor' = At("coro", Cache, c) /\ outcome' = Pending
      /\ ready' = [ready EXCEPT ![Cache] = <<Callback("start", c)>>]
      /\ tasks' = tasks /\ gone' = gone /\ interrupted' = interrupted
  BY DEF OpenSpider, Moves
<1>2. Cache \in Threads /\ ready[Cache] = <<>> /\ tasks[Cache] = {}
  BY <1>1, CacheAssumption DEF ThreadInv, ThreadType
<1>3. c \in Coros /\ c.call = "open"
  <2>1. Numbers(Cache) = {}
    BY <1>2 DEF Numbers
  <2>2. c.id \in 1..MaxCoros /\ c = [id |-> c.id, call |-> "open", arg |-> NoKey]
    BY <2>1, ThreadAssumption DEF Fresh
  <2> QED
    BY <2>2 DEF Coros, CallNames, Args
<1> HIDE DEF c
<1>4. <<Callback("start", c)>> \in Seq(Callbacks)
  BY <1>3, CallbacksAre
<1>5. /\ ready'[Cache] = <<Callback("start", c)>>
      /\ Len(ready'[Cache]) = 1 /\ DOMAIN ready'[Cache] = {1} /\ ready'[Cache][1] = Callback("start", c)
  BY <1>1, <1>2, <1>4 DEF ThreadInv, ThreadType
<1>6. reactor'.at = "coro" /\ reactor'.on = Cache /\ reactor'.coro = c
  BY <1>1 DEF At
<1>7. ThreadType'
  <2>1. reactor' \in Places
    BY <1>1, <1>2, <1>3, PlacesAre
  <2>2. \A o \in Threads : loop'[o] = "none" => ready'[o] = <<>> /\ tasks'[o] = {}
    BY <1>1 DEF ThreadInv, ThreadType
  <2> QED
    BY <1>1, <1>4, <2>1, <2>2 DEF ThreadInv, ThreadType, Results, Unanswered
<1>8. ReactorInv'
  BY <1>1, <1>2, <1>3, <1>6 DEF ReactorInv, ThreadInv, ThreadType
<1>9. NumbersOf(Cache)'
  BY <1>1, <1>2, <1>5 DEF NumbersOf, Starts
<1>10. CancelOf(Cache)'
  <2>1. Waited(Cache)'
    BY <1>6 DEF Waited
  <2>2. CancelledStarts(Cache)'
    BY <2>1, <1>5, <1>6 DEF CancelledStarts, Starts, Callback
  <2>3. CancelledTasks(Cache)'
    BY <1>1, <1>2 DEF CancelledTasks
  <2>4. LastIsWaited(Cache)'
    BY <1>1, <1>5, <1>6 DEF LastIsWaited
  <2> QED
    BY <2>2, <2>3, <2>4 DEF CancelOf
<1>11. ASSUME NEW o \in Threads, o # Cache
       PROVE  NumbersOf(o)' /\ CancelOf(o)'
  <2>1. NumbersOf(o) /\ CancelOf(o) /\ ready'[o] = ready[o] /\ tasks'[o] = tasks[o]
    BY <1>1, <1>11 DEF ThreadInv, ThreadType
  <2>2. /\ reactor.on # o /\ reactor'.on # o
        /\ o \in gone => o \in gone'
        /\ o \in interrupted => o \in interrupted'
    BY <1>1, <1>6, <1>11, ThreadAssumption DEF Idle, At
  <2> QED
    BY <2>1, <2>2, Elsewhere
<1> QED
  BY <1>7, <1>8, <1>9, <1>10, <1>11 DEF ThreadInv

LEMMA CacheThread ==
  ASSUME ThreadInv, clock \in 0..MaxTime, MiddlewareCalls \/ CacheContinues
  PROVE  ThreadInv'
<1>1. Cache \in Threads
  BY CacheAssumption
<1>2. ASSUME NEW call \in CallNames, NEW arg, [id |-> 1, call |-> call, arg |-> arg] \in Coros,
             reactor = Idle, Cache \notin gone, Runs(Cache, call, arg),
             loop' = loop, tasks' = tasks, gone' \in {gone, gone \cup {Cache}},
             interrupted' = interrupted, call = "expire" => Cache \in gone'
      PROVE  ThreadInv'
  BY <1>1, <1>2, HandsOver DEF Runs
<1>3. ASSUME Waited(Cache), outcome # Pending, UNCHANGED <<loop, ready, tasks, interrupted>>,
             gone' \in {gone, gone \cup {Cache}},
             outcome' = Pending,
             \/ reactor' = Idle
             \/ reactor' = At("close", Cache, NoCoro) /\ Cache \in gone' /\ reactor.at = "coro"
      PROVE  ThreadInv'
  <2>1. reactor.on = Cache /\ reactor.at # "join"
    BY <1>3 DEF Waited
  <2> QED
    BY <1>1, <1>3, <2>1, Leaves
<1>4. ASSUME NEW call, Awaits(Cache, call), TimesOut(Cache), gone' \in {gone, gone \cup {Cache}},
             loop' = loop, tasks' = tasks, outcome' = Pending,
             reactor' = Idle \/ (reactor' = At("close", Cache, NoCoro) /\ Cache \in gone')
      PROVE  ThreadInv'
  <2>1. Waited(Cache)
    BY <1>1, <1>4, WaitedFor
  <2>2. outcome = Pending /\ CancelsCoro(Cache) /\ interrupted' = interrupted
    BY <1>4 DEF TimesOut, Expires
  <2> QED
    BY <1>1, <1>4, <2>1, <2>2, GivesUp
<1>5. CASE RetrieveResponse
  <2>1. PICK k \in Keys : CacheCalls("get_value", k)
    BY <1>5 DEF RetrieveResponse
  <2>2. "get_value" \in CallNames /\ [id |-> 1, call |-> "get_value", arg |-> k] \in Coros
    BY CoroFits DEF CallNames, Args
  <2> QED
    BY <1>2, <2>1, <2>2 DEF CacheCalls
<1>6. CASE StoreResponse
  <2>1. PICK k \in Keys : CacheCalls("set_value", [key |-> k, time |-> clock])
    BY <1>6 DEF StoreResponse
  <2>2. /\ "set_value" \in CallNames
        /\ [id |-> 1, call |-> "set_value", arg |-> [key |-> k, time |-> clock]] \in Coros
    BY CoroFits DEF CallNames, Args
  <2> QED
    BY <1>2, <2>1, <2>2 DEF CacheCalls
<1>7. CASE CloseSpider
  <2>1. /\ reactor = Idle /\ Cache \notin gone /\ gone' = gone \cup {Cache} /\ loop' = loop /\ tasks' = tasks
        /\ interrupted' = interrupted
        /\ \/ expiration_secs > 0 /\ Runs(Cache, "expire", NoKey)
           \/ Moves("close", Cache, NoCoro) /\ UNCHANGED ready
    BY <1>7 DEF CloseSpider
  <2>2. CASE expiration_secs > 0 /\ Runs(Cache, "expire", NoKey)
    <3>1. "expire" \in CallNames /\ [id |-> 1, call |-> "expire", arg |-> NoKey] \in Coros
      BY <2>2, CoroFits DEF CallNames, Args
    <3> QED
      BY <1>2, <2>1, <2>2, <3>1
  <2>3. CASE Moves("close", Cache, NoCoro) /\ UNCHANGED ready
    <3>1. reactor' = At("close", Cache, NoCoro) /\ outcome' = Pending /\ ready' = ready
      BY <2>3 DEF Moves
    <3> QED
      BY <1>1, <2>1, <3>1, Leaves
  <2> QED
    BY <2>1, <2>2, <2>3
<1>8. CASE SpiderOpened
  <2>1. Waited(Cache)
    BY <1>1, <1>8, WaitedFor DEF SpiderOpened, Returned
  <2> QED
    BY <1>3, <1>8, <2>1 DEF SpiderOpened, Returned, Ends, Moves, Idle, thread
<1>9. CASE OpenSpiderFails
  <2>1. /\ Awaits(Cache, "open") /\ gone' = gone \cup {Cache} /\ loop' = loop /\ tasks' = tasks
        /\ reactor' = At("close", Cache, NoCoro) /\ outcome' = Pending
    BY <1>9 DEF OpenSpiderFails, Returned, Moves
  <2>2. CASE outcome # Pending /\ UNCHANGED <<ready, interrupted>>
    <3>1. Waited(Cache) /\ reactor.at = "coro"
      BY <1>1, <2>1, WaitedFor
    <3> QED
      BY <1>3, <2>1, <2>2, <3>1
  <2>3. CASE TimesOut(Cache)
    BY <1>4, <2>1, <2>3
  <2> QED
    BY <1>9, <2>2, <2>3 DEF OpenSpiderFails, Returned
<1>10. CASE CacheAnswered
  <2>1. Waited(Cache) /\ outcome # Pending
    BY <1>1, <1>10, WaitedFor DEF CacheAnswered, Returned
  <2> QED
    BY <1>3, <1>10, <2>1 DEF CacheAnswered, Ends, Moves, Idle, thread
<1>11. CASE CacheTimesOut
  <2>1. PICK call : Awaits(Cache, call)
    BY <1>11 DEF CacheTimesOut
  <2> QED
    BY <1>4, <1>11, <2>1 DEF CacheTimesOut, Ends, Moves, Idle
<1>12. CASE Swept
  <2>1. /\ Awaits(Cache, "expire") /\ gone' = gone /\ loop' = loop /\ tasks' = tasks
        /\ reactor' = At("close", Cache, NoCoro) /\ outcome' = Pending
    BY <1>12 DEF Swept, Moves
  <2>2. Waited(Cache) /\ reactor.at = "coro" /\ Cache \in gone'
    <3>1. Waited(Cache) /\ reactor.at = "coro" /\ reactor.coro.call = "expire"
      BY <1>1, <2>1, WaitedFor
    <3> QED
      BY <3>1, <2>1 DEF ThreadInv, ReactorInv, Waited
  <2>3. CASE outcome # Pending /\ UNCHANGED <<ready, interrupted>>
    BY <1>3, <2>1, <2>2, <2>3
  <2>4. CASE TimesOut(Cache)
    BY <1>4, <2>1, <2>2, <2>4
  <2>5. CASE Interrupted(Cache)
    <3>1. reactor.on = Cache /\ interrupted' = interrupted \cup {Cache} /\ ready' = ready /\ reactor.at # "join"
      BY <2>1, <2>2, <2>5 DEF Interrupted, Awaits
    <3> QED
      BY <1>1, <2>1, <2>2, <3>1, Leaves
  <2> QED
    BY <1>12, <2>3, <2>4, <2>5 DEF Swept
<1>13. CASE CacheInterrupted
  <2>1. /\ reactor.on = Cache /\ reactor' = Idle /\ outcome' = Pending
        /\ loop' = loop /\ ready' = ready /\ tasks' = tasks /\ gone' = gone
        /\ interrupted' = interrupted \cup {Cache}
    BY <1>13 DEF CacheInterrupted, Interrupted, Ends, Moves, Idle, Awaits
  <2> QED
    BY <1>1, <2>1, Leaves
<1> QED
  BY <1>5, <1>6, <1>7, <1>8, <1>9, <1>10, <1>11, <1>12, <1>13, OpenSpiderStep
  DEF MiddlewareCalls, CacheContinues

LEMMA ThreadsUntouched ==
  ASSUME ThreadInv, UNCHANGED <<loop, ready, tasks, reactor, outcome, gone, interrupted>>
  PROVE  ThreadInv'
<1>1. ThreadType' /\ ReactorInv'
  BY DEF ThreadInv, ThreadType, ReactorInv
<1>2. ASSUME NEW o \in Threads
      PROVE  NumbersOf(o)' /\ CancelOf(o)'
  BY Untouched DEF ThreadInv
<1> QED
  BY <1>1, <1>2 DEF ThreadInv

LEMMA CacheLoopStep ==
  ASSUME ThreadInv, CacheLoop \/ LateStoreRequest \/ OtherRunStores \/ Tick
  PROVE  ThreadInv'
<1>1. Cache \in Threads
  BY CacheAssumption
<1>2. ASSUME NEW t \in tasks[Cache],
             NEW result \in {"opened", "got", "swept", "raised", "sent", Pending},
             Keeps(Cache, t, result), t.result # "cancelled", UNCHANGED <<loop, ready, reactor, gone, interrupted>>
      PROVE  ThreadInv'
  <2>1. result \in Results
    BY DEF Results, Unanswered
  <2> QED
    BY <1>1, <1>2, <2>1, OneKeepsOn
<1>3. CASE CacheActs
  <2>1. PICK t \in tasks[Cache] :
          /\ t.result = Pending
          /\ Keeps(Cache, t, "opened") \/ Keeps(Cache, t, "got") \/ Keeps(Cache, t, "sent")
    BY <1>3 DEF CacheActs, Sends
  <2>2. t.result # "cancelled" /\ UNCHANGED <<loop, ready, reactor, gone, interrupted>>
    BY <1>3, <2>1, ThreadAssumption DEF CacheActs
  <2> QED
    BY <1>2, <2>1, <2>2
<1>4. CASE SweepDeletes
  <2>1. PICK t \in tasks[Cache] :
          t.result = Pending /\ (Keeps(Cache, t, "sent") \/ UNCHANGED <<tasks, outcome>>)
    BY <1>4 DEF SweepDeletes, Sweeping, Sends
  <2>2. t.result # "cancelled" /\ UNCHANGED <<loop, ready, reactor, gone, interrupted>>
    BY <1>4, <2>1, ThreadAssumption DEF SweepDeletes
  <2> QED
    BY <1>2, <2>1, <2>2, ThreadsUntouched
<1>5. CASE SweepEnds
  <2>1. PICK t \in tasks[Cache] :
          t.result = Pending /\ (Keeps(Cache, t, "swept") \/ Keeps(Cache, t, "raised"))
    BY <1>5 DEF SweepEnds, Sweeping
  <2>2. t.result # "cancelled" /\ UNCHANGED <<loop, ready, reactor, gone, interrupted>>
    BY <1>5, <2>1, ThreadAssumption DEF SweepEnds
  <2> QED
    BY <1>2, <2>1, <2>2
<1>6. ASSUME NEW request, StoreExecutes(request)
      PROVE  ThreadInv'
  <2>1. UNCHANGED <<loop, ready, reactor, gone, interrupted>>
    BY <1>6 DEF StoreExecutes
  <2>2. CASE Stores(request)
    <3>1. "set" \in Results /\ Executed(Cache, request, "set")
      BY <2>2 DEF Stores, Results
    <3> QED
      BY <1>1, <2>1, <3>1, SomeKeepOn
  <2>3. CASE Deletes(request)
    <3>1. \/ UNCHANGED <<tasks, outcome>>
          \/ \E t \in tasks[Cache] : AwaitsDeletion(t, request) /\ Keeps(Cache, t, Pending)
      BY <2>3 DEF Deletes
    <3>2. \A t : AwaitsDeletion(t, request) => t.result # "cancelled"
      BY DEF AwaitsDeletion
    <3> QED
      BY <1>2, <2>1, <3>1, <3>2, ThreadsUntouched
  <2> QED
    BY <1>6, <2>2, <2>3 DEF StoreExecutes
<1>7. CASE SweepReads \/ OtherRunStores \/ Tick
  BY <1>7, ThreadsUntouched DEF SweepReads, OtherRunStores, Tick, threads
<1> QED
  BY <1>3, <1>4, <1>5, <1>6, <1>7 DEF CacheLoop, StoreActs, LateStoreRequest

LEMMA NothingOnLoops ==
  ASSUME ready' = [th \in Threads |-> <<>>], tasks' = [th \in Threads |-> {}],
         reactor' = Idle, outcome' = Pending, gone' = {}, interrupted' = {},
         loop' \in [Threads -> {"none", "starting", "running", "closed"}]
  PROVE  ThreadInv'
<1>1. ThreadType'
  BY PlacesAre DEF ThreadType, Results, Unanswered, Places
<1>2. ReactorInv'
  BY DEF ReactorInv, Idle, At
<1>3. ASSUME NEW th \in Threads
      PROVE  NumbersOf(th)' /\ CancelOf(th)'
  <2>1. ready'[th] = <<>> /\ tasks'[th] = {} /\ DOMAIN ready'[th] = {}
    OBVIOUS
  <2> QED
    BY <2>1 DEF NumbersOf, CancelOf, CancelledStarts, CancelledTasks, LastIsWaited, Starts
<1> QED
  BY <1>1, <1>2, <1>3 DEF ThreadInv

LEMMA ThreadsAtFirst ==
  ASSUME Init
  PROVE  ThreadInv
<1>1. /\ ready = [th \in Threads |-> <<>>] /\ tasks = [th \in Threads |-> {}]
      /\ reactor = Idle /\ outcome = Pending /\ gone = {} /\ interrupted = {}
      /\ loop \in [Threads -> {"none", "starting", "running", "closed"}]
  BY DEF Init, AsyncThreadInit
<1>2. ThreadType /\ ReactorInv
  BY <1>1 DEF ThreadType, Results, Unanswered, Places, ReactorInv, Idle, At
<1>3. ASSUME NEW th \in Threads
      PROVE  NumbersOf(th) /\ CancelOf(th)
  <2>1. ready[th] = <<>> /\ tasks[th] = {} /\ DOMAIN ready[th] = {}
    BY <1>1
  <2> QED
    BY <2>1 DEF NumbersOf, CancelOf, CancelledStarts, CancelledTasks, LastIsWaited, Starts
<1> QED
  BY <1>2, <1>3 DEF ThreadInv

LEMMA ThreadsKept ==
  ASSUME ThreadInv, DataInv, [Next]_vars
  PROVE  ThreadInv'
<1>1. CASE SchedulerStep
  BY <1>1, SchedulerThread, QueueActsStep DEF SchedulerStep, DataInv
<1>2. CASE CacheStep
  BY <1>2, CacheThread, CacheLoopStep DEF CacheStep, DataInv, StoreType
<1>3. CASE ThreadStep
  BY <1>3, ClosingStep, LoopStep DEF ThreadStep
<1>4. CASE FailureStep
  BY <1>4, StorageFailsStep DEF FailureStep
<1>5. CASE Restart
  <2>1. /\ ready' = [th \in Threads |-> <<>>] /\ tasks' = [th \in Threads |-> {}]
        /\ reactor' = Idle /\ outcome' = Pending /\ gone' = {} /\ interrupted' = {}
        /\ loop' \in [Threads -> {"none", "starting", "running", "closed"}]
    BY <1>5 DEF Restart, Ends, Moves, Idle
  <2> QED
    BY <2>1, NothingOnLoops
<1>6. CASE UNCHANGED vars
  BY <1>6, ThreadsUntouched DEF vars, threads
<1> QED
  BY <1>1, <1>2, <1>3, <1>4, <1>5, <1>6 DEF Next

-----------------------------------------------------------------------------
(* What the engine is given.  While the scheduler waits for a fetch, what   *)
(* that returned was not given before; while it waits for a mark, neither   *)
(* was the request, and the platform has it as handled when the mark is     *)
(* done, or failed to be told.                                              *)
Got == {outcome} \cup {t.result : t \in {u \in tasks[Scheduler] : u.coro = reactor.coro}}

Adding == {t \in tasks[Scheduler] : t.coro.call = "add_request" /\ t.result = "sent"}

Told(r) == r \in handled_here /\ (platform[r] = "handled" \/ r \in untold)

FetchInv ==
  Awaits(Scheduler, "fetch_next_request") =>
    \A r \in Requests : r \in Got => given[r] = 0 /\ r \notin before

MarkInv ==
  Awaits(Scheduler, "mark_request_as_handled") =>
    /\ given[reactor.coro.arg] = 0 /\ reactor.coro.arg \notin before
    /\ outcome \in Unanswered => outcome = Pending
    /\ "sent" \in Got => reactor.coro.arg \in handled_here
    /\ Got \subseteq Unanswered \cup {"raised"} \/ Told(reactor.coro.arg)

(* What earlier engines got is handled, and this client does not list it.   *)
BeforeInv ==
  /\ \A r \in before : platform[r] = "handled" /\ r \notin head
  /\ \A t \in Adding : t.coro.arg \notin before

GivenInv == GivenOnce /\ FetchInv /\ MarkInv /\ BeforeInv

LEMMA GivenFrame ==
  ASSUME GivenInv, UNCHANGED <<platform, head, handled_here, given, before, untold, reactor>>,
         Got' \subseteq Got \cup (Unanswered \ {"sent"}) \cup {"raised"}, Adding' \subseteq Adding,
         outcome' = outcome \/ outcome' \notin Unanswered
  PROVE  GivenInv'
<1>1. \A r \in Requests : r \in Got' => r \in Got
  BY SchedulerAssumption
<1>2. FetchInv'
  BY <1>1 DEF GivenInv, FetchInv, Awaits
<1>3. MarkInv'
  BY DEF GivenInv, MarkInv, Awaits, Told
<1> QED
  BY <1>2, <1>3 DEF GivenInv, GivenOnce, BeforeInv

LEMMA GivenElsewhere ==
  ASSUME GivenInv, UNCHANGED <<platform, head, handled_here, given, before, untold>>,
         Adding' \subseteq Adding,
         ~Awaits(Scheduler, "fetch_next_request")', ~Awaits(Scheduler, "mark_request_as_handled")'
  PROVE  GivenInv'
  BY DEF GivenInv, GivenOnce, FetchInv, MarkInv, BeforeInv

LEMMA GivenByEngine ==
  ASSUME ThreadInv, GivenInv, EngineCalls
  PROVE  GivenInv'
<1>1. UNCHANGED <<platform, head, handled_here, given, before, untold, tasks>>
  BY DEF EngineCalls, Open, HasPendingRequests, EnqueueRequest, NextRequest, CloseScheduler, Calls,
         scheduler, queue, history, thread
<1>2. Adding' = Adding
  BY <1>1 DEF Adding
<1>3. ASSUME NEW call, NEW arg, Calls(call, arg)
      PROVE  reactor'.coro.call = call
  BY <1>3 DEF Calls, Runs, RunsTo, Moves, At, Fresh
<1>4. CASE Open \/ HasPendingRequests \/ EnqueueRequest
  <2>1. reactor'.coro.call \in {"open", "is_finished", "add_request"}
    BY <1>3, <1>4 DEF Open, HasPendingRequests, EnqueueRequest
  <2> QED
    BY <1>1, <1>2, <2>1, GivenElsewhere DEF Awaits
<1>5. CASE NextRequest
  <2>1. Calls("fetch_next_request", NoRequest)
    BY <1>5 DEF NextRequest
  <2>2. /\ "fetch_next_request" \in CallNames
        /\ [id |-> 1, call |-> "fetch_next_request", arg |-> NoRequest] \in Coros
    BY CoroFits DEF CallNames, Args
  <2>3. /\ reactor = Idle /\ Scheduler \notin gone /\ RunsTo("coro", Scheduler, "fetch_next_request", NoRequest)
        /\ loop' = loop /\ tasks' = tasks /\ gone' = gone /\ interrupted' = interrupted
    BY <2>1 DEF Calls, Runs
  <2>4. \A t \in tasks[Scheduler] : t.coro # reactor'.coro
    BY <2>2, <2>3, HandsOver, SchedulerAssumption
  <2>5. Got' = {Pending}
    BY <2>3, <2>4 DEF Got, RunsTo, Moves
  <2>6. FetchInv'
    BY <2>5, SchedulerAssumption DEF FetchInv, Unanswered
  <2>7. MarkInv'
    BY <1>3, <2>1 DEF MarkInv, Awaits
  <2> QED
    BY <1>1, <1>2, <2>6, <2>7 DEF GivenInv, GivenOnce, BeforeInv
<1>6. CASE CloseScheduler
  BY <1>1, <1>2, <1>6, GivenElsewhere DEF CloseScheduler, Moves, At, Awaits
<1> QED
  BY <1>4, <1>5, <1>6 DEF EngineCalls

LEMMA GivenByReactor ==
  ASSUME ThreadInv, DataInv, GivenInv, Continues
  PROVE  GivenInv'
<1>1. UNCHANGED <<platform, head, handled_here, before, untold, tasks>> /\ Adding' = Adding
  BY DEF Continues, Opened, OpenFails, Answered, Fetched, Marked, CallTimesOut, CallInterrupted,
         scheduler, queue, history, thread, Adding
<1>2. CASE Opened \/ OpenFails \/ Answered \/ CallTimesOut \/ CallInterrupted
  <2>1. given' = given /\ reactor'.at \in {"idle", "close"}
    BY <1>2
    DEF Opened, OpenFails, Answered, CallTimesOut, CallInterrupted, Ends, ClosesAndRaises, Moves, At,
                scheduler, history
  <2> QED
    BY <1>1, <2>1, GivenElsewhere DEF Awaits
<1>3. CASE Fetched /\ ~Marks(outcome)
  <2>1. given' = given /\ reactor'.at = "idle"
    BY <1>3 DEF Fetched, Ends, Moves, At
  <2> QED
    BY <1>1, <2>1, GivenElsewhere DEF Awaits
<1>4. CASE Fetched /\ Marks(outcome)
  <2>1. /\ outcome \in Requests /\ Awaits(Scheduler, "fetch_next_request") /\ outcome # Pending
        /\ RunsTo("coro", Scheduler, "mark_request_as_handled", outcome)
        /\ loop' = loop /\ tasks' = tasks /\ gone' = gone /\ interrupted' = interrupted /\ given' = given
    BY <1>4 DEF Fetched, Marks, Returned, Runs
  <2>2. given[outcome] = 0 /\ outcome \notin before
    BY <2>1 DEF GivenInv, FetchInv, Got
  <2>3. "mark_request_as_handled" \in CallNames
        /\ [id |-> 1, call |-> "mark_request_as_handled", arg |-> outcome] \in Coros
    BY <2>1, CoroFits DEF CallNames, Args
  <2>4. reactor.on = Scheduler /\ reactor.at = "coro"
    BY <2>1 DEF Awaits
  <2>5. \A t \in tasks[Scheduler] : t.coro # reactor'.coro
    BY <2>1, <2>3, <2>4, HandsOver, SchedulerAssumption
  <2>6. /\ Got' = {Pending} /\ outcome' = Pending
        /\ reactor'.coro.arg = outcome /\ reactor'.coro.call = "mark_request_as_handled"
    BY <2>1, <2>5 DEF Got, RunsTo, Moves, At, Fresh
  <2>7. FetchInv'
    BY <2>6 DEF FetchInv, Awaits
  <2>8. MarkInv'
    BY <1>1, <2>1, <2>2, <2>6, ThreadAssumption DEF MarkInv, Unanswered
  <2> QED
    BY <1>1, <2>1, <2>7, <2>8 DEF GivenInv, GivenOnce, BeforeInv
<1>5. CASE Marked
  <2> DEFINE r == reactor.coro.arg
  <2>1. /\ Awaits(Scheduler, "mark_request_as_handled") /\ outcome # Pending
        /\ reactor'.at = "idle"
        /\ given' = IF Gives(r) THEN [given EXCEPT ![r] = @ + 1] ELSE given
    BY <1>5 DEF Marked, Returned, Ends, Moves, At
  <2>2. r \in Requests
    BY <2>1, WaitedFor, SchedulerAssumption DEF Coros
  <2>3. FetchInv' /\ MarkInv' /\ BeforeInv'
    BY <1>1, <2>1 DEF GivenInv, FetchInv, MarkInv, BeforeInv, Awaits
  <2>4. CASE Gives(r)
    <3>1. outcome # "raised" /\ outcome \in Got
      BY <2>4 DEF Gives, Got
    <3>2. outcome \notin Unanswered
      BY <2>1 DEF GivenInv, MarkInv
    <3>3. given[r] = 0 /\ r \notin before /\ Told(r)
      BY <2>1, <3>1, <3>2 DEF GivenInv, MarkInv
    <3>4. GivenOnce'
      BY <1>1, <2>1, <2>2, <2>4, <3>3 DEF GivenInv, GivenOnce, DataInv, QueueType, Told
    <3> QED
      BY <2>3, <3>4 DEF GivenInv
  <2>5. CASE ~Gives(r)
    BY <1>1, <2>1, <2>5, GivenElsewhere DEF Awaits
  <2> QED
    BY <2>4, <2>5
<1> QED
  BY <1>2, <1>3, <1>4, <1>5 DEF Continues

(* A coroutine of the scheduler goes on by itself.                          *)
LEMMA GivenByTask ==
  ASSUME ThreadInv, GivenInv, NEW t \in tasks[Scheduler], NEW result, Keeps(Scheduler, t, result),
         UNCHANGED <<reactor, platform, given, before>>,
         handled_here \subseteq handled_here', untold \subseteq untold', before \cap head' = {},
         t.coro.call = "add_request" /\ result = "sent" => t.coro.arg \notin before,
         t.coro.call = "fetch_next_request" =>
           \A r \in Requests : r = result => given[r] = 0 /\ r \notin before,
         Awaits(Scheduler, "mark_request_as_handled") /\ t.coro = reactor.coro =>
           t.coro.arg \in handled_here' /\ (result = "sent" \/ t.coro.arg \in untold')
  PROVE  GivenInv'
<1>1. /\ tasks'[Scheduler] = (tasks[Scheduler] \ {t}) \cup {Task(t.coro, result)}
      /\ outcome' = outcome
  BY SchedulerAssumption DEF Keeps, Becomes, ThreadInv, ThreadType
<1>2. Got' \subseteq Got \/ (t.coro = reactor.coro /\ Got' \subseteq Got \cup {result})
  BY <1>1 DEF Got, Task
<1>3. GivenOnce'
  BY DEF GivenInv, GivenOnce
<1>4. BeforeInv'
  BY <1>1 DEF GivenInv, BeforeInv, Adding, Task
<1>5. FetchInv'
  BY <1>2 DEF GivenInv, FetchInv, Awaits
<1>6. MarkInv'
  <2> SUFFICES ASSUME Awaits(Scheduler, "mark_request_as_handled")
               PROVE  /\ outcome \in Unanswered => outcome = Pending
                      /\ given[reactor.coro.arg] = 0 /\ reactor.coro.arg \notin before
                      /\ "sent" \in Got' => reactor.coro.arg \in handled_here'
                      /\ Got' \subseteq Unanswered \cup {"raised"} \/ Told(reactor.coro.arg)'
    BY <1>1 DEF MarkInv, Awaits
  <2>1. MarkInv /\ (Told(reactor.coro.arg) => Told(reactor.coro.arg)')
    BY DEF GivenInv, Told
  <2>2. CASE Got' \subseteq Got
    BY <2>1, <2>2 DEF MarkInv
  <2>3. CASE t.coro = reactor.coro /\ Got' \subseteq Got \cup {result}
    <3>1. reactor.coro.arg \in handled_here' /\ (result = "sent" \/ Told(reactor.coro.arg)')
      BY <2>3 DEF Told
    <3> QED
      BY <2>1, <2>3, <3>1 DEF MarkInv, Unanswered
  <2> QED
    BY <1>2, <2>2, <2>3
<1> QED
  BY <1>3, <1>4, <1>5, <1>6 DEF GivenInv

(* What the client lists was given to nobody, unless it knows it.           *)
LEMMA ListedNotGiven ==
  ASSUME DataInv, GivenInv
  PROVE  /\ Listed \subseteq Requests /\ before \cap Listed = {}
         /\ \A r \in Listed \ Known : given[r] = 0
<1>1. Listed \subseteq Requests
  BY DEF Listed, DataInv, QueueType
<1>2. before \cap Listed = {}
  BY DEF GivenInv, BeforeInv, Listed
<1>3. \A r \in Listed \ Known : given[r] = 0
  BY <1>1 DEF GivenInv, GivenOnce, Known, DataInv, QueueType
<1> QED
  BY <1>1, <1>2, <1>3

LEMMA GivenByClient ==
  ASSUME ThreadInv, DataInv, GivenInv, NEW t \in tasks[Scheduler], UNCHANGED <<reactor, history>>,
         Opens(t) \/ IsFinished(t) \/ FetchNextRequest(t) \/ AddRequest(t) \/ MarkRequestAsHandled(t)
  PROVE  GivenInv'
<1>1. /\ given' = given /\ before' = before /\ untold' = untold /\ reactor' = reactor
      /\ before \cap head = {}
  BY DEF history, GivenInv, BeforeInv
<1>2. CASE Opens(t) \/ IsFinished(t)
  <2>1. /\ t.coro.call \in {"open", "is_finished"} /\ platform' = platform /\ handled_here' = handled_here
        /\ before \cap head' = {}
    BY <1>1, <1>2, ListedNotGiven DEF Opens, IsFinished, queue
  <2>2. PICK result : Keeps(Scheduler, t, result)
    BY <1>2 DEF Opens, IsFinished
  <2>3. ~(Awaits(Scheduler, "mark_request_as_handled") /\ t.coro = reactor.coro)
    BY <2>1 DEF Awaits
  <2> QED
    BY <1>1, <2>1, <2>2, <2>3, GivenByTask
<1>3. CASE FetchNextRequest(t)
  <2>1. t.coro.call = "fetch_next_request" /\ platform' = platform /\ handled_here' = handled_here
    BY <1>3 DEF FetchNextRequest
  <2>2. PICK result :
          /\ Keeps(Scheduler, t, result) /\ before \cap head' = {}
          /\ \A r \in Requests : r = result => given[r] = 0 /\ r \notin before
    BY <1>3, ListedNotGiven, SchedulerAssumption DEF FetchNextRequest
  <2>3. ~(Awaits(Scheduler, "mark_request_as_handled") /\ t.coro = reactor.coro)
    BY <2>1 DEF Awaits
  <2> QED
    BY <1>1, <2>1, <2>2, <2>3, GivenByTask
<1>4. CASE AddRequest(t)
  <2>1. t.coro.call = "add_request" /\ platform' = platform /\ handled_here' = handled_here /\ head' = head
    BY <1>4 DEF AddRequest, queue
  <2>2. PICK result : Keeps(Scheduler, t, result) /\ (result = "sent" => t.coro.arg \notin before)
    <3>1. platform[t.coro.arg] = "absent" => t.coro.arg \notin before
      BY DEF GivenInv, BeforeInv
    <3> QED
      BY <1>4, <3>1 DEF AddRequest, Sends
  <2>3. ~(Awaits(Scheduler, "mark_request_as_handled") /\ t.coro = reactor.coro)
    BY <2>1 DEF Awaits
  <2> QED
    BY <1>1, <2>1, <2>2, <2>3, GivenByTask
<1>5. CASE MarkRequestAsHandled(t)
  <2>1. /\ t.coro.call = "mark_request_as_handled" /\ platform' = platform /\ head' = head
        /\ handled_here' = handled_here \cup {t.coro.arg} /\ Keeps(Scheduler, t, "sent")
    BY <1>5 DEF MarkRequestAsHandled, Sends
  <2> QED
    BY <1>1, <2>1, GivenByTask
<1> QED
  BY <1>2, <1>3, <1>4, <1>5

LEMMA GivenByFailedUpdate ==
  ASSUME ThreadInv, GivenInv, UpdateFails
  PROVE  GivenInv'
<1>1. /\ UNCHANGED <<reactor, platform, given, before, head, handled_here>>
      /\ before \cap head = {}
  BY DEF UpdateFails, queue, GivenInv, BeforeInv
<1>2. PICK t \in tasks[Scheduler] :
        /\ t.coro.call = "mark_request_as_handled" /\ t.result = "sent"
        /\ Keeps(Scheduler, t, "marked")
        /\ untold' = untold \cup {t.coro.arg}
  BY DEF UpdateFails
<1>3. Awaits(Scheduler, "mark_request_as_handled") /\ t.coro = reactor.coro => t.coro.arg \in handled_here
  BY <1>2 DEF GivenInv, MarkInv, Got
<1> QED
  BY <1>1, <1>2, <1>3, GivenByTask

(* The platform executes what it was sent.                                  *)
LEMMA GivenByPlatform ==
  ASSUME ThreadInv, DataInv, GivenInv, NEW request \in sent, Executes(request)
  PROVE  GivenInv'
<1>1. UNCHANGED <<reactor, handled_here, given, before, untold>> /\ request \in Sendable
  BY DEF Executes, history, DataInv, SentInv
<1>2. PICK result \in {"added", "was_already_present", "marked"} :
        Executed(Scheduler, request, result) /\ (request.call # "add_request" => result = "marked")
  BY DEF Executes, Adds, Updates
<1>3. /\ tasks'[Scheduler] =
           {IF Awaiting(t, request) THEN Task(t.coro, result) ELSE t : t \in tasks[Scheduler]}
      /\ outcome' = outcome
  BY <1>2, SchedulerAssumption DEF Executed, Becomes, ThreadInv, ThreadType
<1>4. Got' \subseteq Got \cup {result}
      /\ (result \in Got' =>
            \/ result \in Got
            \/ "sent" \in Got /\ reactor.coro.call = request.call /\ reactor.coro.arg = request.arg)
  <2> SUFFICES ASSUME NEW x \in Got'
               PROVE  \/ x \in Got
                      \/ /\ x = result /\ "sent" \in Got
                         /\ reactor.coro.call = request.call /\ reactor.coro.arg = request.arg
    OBVIOUS
  <2>1. CASE x = outcome'
    BY <1>3, <2>1 DEF Got
  <2>2. ASSUME NEW u \in tasks'[Scheduler], u.coro = reactor.coro, x = u.result
        PROVE  \/ x \in Got
               \/ /\ x = result /\ "sent" \in Got
                  /\ reactor.coro.call = request.call /\ reactor.coro.arg = request.arg
    <3>1. PICK t \in tasks[Scheduler] : u = IF Awaiting(t, request) THEN Task(t.coro, result) ELSE t
      BY <1>3, <2>2
    <3>2. CASE Awaiting(t, request)
      BY <2>2, <3>1, <3>2 DEF Got, Task, Awaiting, Request
    <3>3. CASE ~Awaiting(t, request)
      BY <2>2, <3>1, <3>3 DEF Got
    <3> QED
      BY <3>2, <3>3
  <2>3. x = outcome' \/ \E u \in tasks'[Scheduler] : u.coro = reactor.coro /\ x = u.result
    BY <1>1 DEF Got
  <2> QED
    BY <2>1, <2>2, <2>3
<1>5. Adding' \subseteq Adding
  BY <1>2, <1>3 DEF Adding, Task
<1>6. \A r \in Requests : platform[r] = "handled" => platform'[r] = "handled"
  BY DEF Executes, Adds, Updates, DataInv, QueueType
<1>7. GivenOnce'
  BY <1>1, <1>6 DEF GivenInv, GivenOnce
<1>8. BeforeInv'
  <2>1. \A r \in before : r \notin head'
    <3>1. CASE Adds(request)
      <4>1. /\ request.call = "add_request"
            /\ head' = IF IsAwaited(request) THEN head \cup {request.arg} ELSE head
        BY <3>1 DEF Adds
      <4>2. IsAwaited(request) => request.arg \notin before
        BY <4>1 DEF IsAwaited, Awaiting, Request, Adding, GivenInv, BeforeInv
      <4> QED
        BY <4>1, <4>2 DEF GivenInv, BeforeInv
    <3>2. CASE Updates(request)
      BY <3>2 DEF Updates, GivenInv, BeforeInv
    <3> QED
      BY <3>1, <3>2 DEF Executes
  <2>2. before \subseteq Requests
    BY DEF DataInv, QueueType
  <2> QED
    BY <1>1, <1>5, <1>6, <2>1, <2>2 DEF GivenInv, BeforeInv
<1>9. FetchInv'
  <2> SUFFICES ASSUME Awaits(Scheduler, "fetch_next_request"), NEW r \in Requests, r \in Got'
               PROVE  given[r] = 0 /\ r \notin before
    BY <1>1 DEF FetchInv, Awaits
  <2>1. r \in Got
    BY <1>1, <1>2, <1>4 DEF Awaits, Executes, Adds, Updates
  <2> QED
    BY <2>1 DEF GivenInv, FetchInv
<1>10. MarkInv'
  <2> SUFFICES ASSUME Awaits(Scheduler, "mark_request_as_handled")
               PROVE  /\ "sent" \in Got' => reactor.coro.arg \in handled_here
                      /\ Got' \subseteq Unanswered \cup {"raised"} \/ Told(reactor.coro.arg)'
    BY <1>1, <1>3 DEF MarkInv, Awaits, GivenInv
  <2>1. /\ "sent" \in Got => reactor.coro.arg \in handled_here
        /\ Got \subseteq Unanswered \cup {"raised"} \/ Told(reactor.coro.arg)
    BY DEF GivenInv, MarkInv
  <2>2. reactor.coro.arg \in Requests
    BY WaitedFor, SchedulerAssumption DEF Coros
  <2>3. Told(reactor.coro.arg) => Told(reactor.coro.arg)'
    BY <1>1, <1>6, <2>2 DEF Told
  <2>4. CASE result \notin Got' \/ result \in Got
    BY <1>4, <2>1, <2>3, <2>4
  <2>5. CASE "sent" \in Got /\ reactor.coro.call = request.call /\ reactor.coro.arg = request.arg
    <3>1. Updates(request)
      BY <2>5 DEF Awaits, Executes, Adds
    <3>2. platform'[reactor.coro.arg] = "handled"
      BY <2>2, <2>5, <3>1 DEF Updates, DataInv, QueueType
    <3> QED
      BY <1>1, <2>1, <2>5, <3>2 DEF Told
  <2> QED
    BY <1>4, <2>4, <2>5
<1> QED
  BY <1>7, <1>8, <1>9, <1>10 DEF GivenInv

(* Coroutines go on or end, and none of them sends anything.                *)
LEMMA GivenByLoop ==
  ASSUME ThreadInv, GivenInv,
         UNCHANGED <<platform, head, handled_here, given, before, untold, reactor>>,
         NEW th \in Threads, NEW new, Becomes(th, new),
         \A u \in new : u \in tasks[th] \/ u.result \in Unanswered \ {"sent"},
         \/ outcome' = outcome
         \/ /\ reactor.on = th
            /\ \E t \in tasks[th] :
                 /\ t.coro = reactor.coro
                 /\ \/ outcome' = "raised" \/ t.coro.call = "shutdown"
                    \/ outcome' = t.result /\ t.result \notin Unanswered
  PROVE  GivenInv'
<1>1. tasks'[Scheduler] = IF th = Scheduler THEN new ELSE tasks[Scheduler]
  BY SchedulerAssumption DEF Becomes, ThreadInv, ThreadType
<1>2. Adding' \subseteq Adding
  BY <1>1 DEF Adding
<1>3. CASE ~Awaits(Scheduler, "fetch_next_request") /\ ~Awaits(Scheduler, "mark_request_as_handled")
  BY <1>2, <1>3, GivenElsewhere DEF Awaits
<1>4. CASE Awaits(Scheduler, "fetch_next_request") \/ Awaits(Scheduler, "mark_request_as_handled")
  <2>1. reactor.on = Scheduler /\ reactor.coro.call # "shutdown"
    BY <1>4 DEF Awaits
  <2>2. outcome' = outcome \/ outcome' = "raised" \/ (outcome' \in Got /\ outcome' \notin Unanswered)
    BY <2>1 DEF Got
  <2>3. Got' \subseteq Got \cup (Unanswered \ {"sent"}) \cup {"raised"}
    BY <1>1, <2>2 DEF Got
  <2>4. outcome' = outcome \/ outcome' \notin Unanswered
    BY <2>2, ThreadAssumption DEF Unanswered
  <2> QED
    BY <1>2, <2>3, <2>4, GivenFrame
<1> QED
  BY <1>3, <1>4

LEMMA GivenByThreads ==
  ASSUME ThreadInv, GivenInv, ThreadStep \/ FailureStep
  PROVE  GivenInv'
<1>1. UNCHANGED <<platform, head, handled_here, given, before, untold>>
  BY DEF ThreadStep, FailureStep, scheduler, queue, history
<1>2. CASE Closing
  <2>1. reactor'.at \in {"idle", "shutdown", "join"} /\ tasks' = tasks
    BY <1>2 DEF Closing, Close, ShutDown, Join, RunsTo, Ends, Moves, At
  <2> QED
    BY <1>1, <2>1, GivenElsewhere DEF Awaits, Adding
<1>3. ASSUME NEW th \in Threads, LoopStarts(th)
      PROVE  GivenInv'
  BY <1>1, <1>3, GivenFrame DEF LoopStarts, Got, Adding
<1>4. ASSUME NEW th \in Threads,
             StartsCoro(th) \/ CancelsTask(th) \/ StopsLoop(th) \/ Unwinds(th) \/ ShutsDownTasks(th)
      PROVE  GivenInv'
  <2>1. reactor' = reactor /\ outcome' = outcome
    BY <1>4 DEF StartsCoro, CancelsTask, RunsCallback, StopsLoop, Unwinds, ShutsDownTasks
  <2>2. Pending # "sent" /\ {Pending, "cancelled", "gathering"} \subseteq Unanswered
    BY ThreadAssumption DEF Unanswered
  <2>3. \E new : Becomes(th, new) /\ \A u \in new : u \in tasks[th] \/ u.result \in Unanswered \ {"sent"}
    <3>1. CASE StartsCoro(th)
      BY <2>2, <3>1 DEF StartsCoro, Task
    <3>2. CASE CancelsTask(th)
      BY <2>2, <3>2 DEF CancelsTask, Cancelled, Task
    <3>3. CASE StopsLoop(th)
      BY <3>3 DEF StopsLoop
    <3>4. CASE Unwinds(th)
      BY <3>4 DEF Unwinds
    <3>5. CASE ShutsDownTasks(th)
      BY <2>2, <3>5 DEF ShutsDownTasks, Cancelled, Task
    <3> QED
      BY <1>4, <3>1, <3>2, <3>3, <3>4, <3>5
  <2> QED
    BY <1>1, <2>1, <2>3, GivenByLoop
<1>5. ASSUME NEW th \in Threads, Answers(th) \/ Gathered(th) \/ StorageFails(th)
      PROVE  GivenInv'
  <2>1. PICK t \in tasks[th] : \E result :
          /\ Ended(th, t, result)
          /\ \/ result = "raised" \/ t.coro.call = "shutdown"
             \/ result = t.result /\ t.result \notin Unanswered
    BY <1>5 DEF Answers, Gathered, StorageFails
  <2>2. /\ Becomes(th, tasks[th] \ {t}) /\ reactor' = reactor
        /\ \/ outcome' = outcome
           \/ /\ reactor.on = th /\ reactor.coro = t.coro
              /\ \/ outcome' = "raised" \/ t.coro.call = "shutdown"
                 \/ outcome' = t.result /\ t.result \notin Unanswered
    BY <1>5, <2>1 DEF Ended, Answers, Gathered, StorageFails
  <2> QED
    BY <1>1, <2>2, GivenByLoop
<1> QED
  BY <1>2, <1>3, <1>4, <1>5 DEF ThreadStep, FailureStep, Loop

LEMMA GivenByCache ==
  ASSUME ThreadInv, GivenInv, CacheStep
  PROVE  GivenInv'
<1>1. UNCHANGED <<platform, head, handled_here, given, before, untold>>
  BY DEF CacheStep, scheduler, queue, history
<1>2. CASE MiddlewareCalls
  <2>1. ASSUME NEW call, NEW arg, Runs(Cache, call, arg)
        PROVE  reactor'.on = Cache
    BY <2>1 DEF Runs, RunsTo, Moves, At
  <2>2. RetrieveResponse \/ StoreResponse => reactor'.on = Cache /\ tasks' = tasks
    BY <2>1 DEF RetrieveResponse, StoreResponse, CacheCalls
  <2>3. CloseSpider => reactor'.on = Cache /\ tasks' = tasks
    BY <2>1 DEF CloseSpider, Moves, At
  <2>4. OpenSpider => reactor'.on = Cache /\ tasks' = tasks
    BY DEF OpenSpider, Moves, At
  <2> QED
    BY <1>1, <1>2, <2>2, <2>3, <2>4, SettingsAssumption, GivenElsewhere
    DEF Awaits, Adding, MiddlewareCalls
<1>3. CASE CacheContinues
  <2>1. reactor'.at \in {"idle", "close"} /\ tasks' = tasks
    BY <1>3 DEF CacheContinues, SpiderOpened, OpenSpiderFails, CacheAnswered, CacheTimesOut,
        CacheInterrupted, Swept,
                Ends, Moves, At, thread
  <2> QED
    BY <1>1, <2>1, GivenElsewhere DEF Awaits, Adding
<1>4. CASE CacheLoop \/ LateStoreRequest \/ OtherRunStores \/ Tick
  <2>1. \/ UNCHANGED <<tasks, outcome>> \/ \E t, result : Keeps(Cache, t, result)
        \/ \E request, result : Executed(Cache, request, result)
    BY <1>4 DEF CacheLoop, CacheActs, SweepReads, SweepDeletes, SweepEnds, StoreActs,
        LateStoreRequest, StoreExecutes,
                Stores, Deletes, OtherRunStores, Tick, Sends, threads
  <2>2. tasks'[Scheduler] = tasks[Scheduler] /\ outcome' = outcome
    BY <2>1, SettingsAssumption, SchedulerAssumption, CacheAssumption
    DEF Keeps, Executed, Becomes, ThreadInv, ThreadType
  <2>3. reactor' = reactor
    BY <1>4 DEF CacheLoop, CacheActs, SweepReads, SweepDeletes, SweepEnds, StoreActs,
        LateStoreRequest, StoreExecutes,
                OtherRunStores, Tick, threads
  <2> QED
    BY <1>1, <2>2, <2>3, GivenFrame DEF Got, Adding
<1> QED
  BY <1>2, <1>3, <1>4 DEF CacheStep

LEMMA GivenByRestart ==
  ASSUME DataInv, GivenInv, Restart
  PROVE  GivenInv'
<1>1. /\ given' = [r \in Requests |-> 0] /\ head' = {} /\ platform' = platform
      /\ before' = before \cup {r \in Requests \ untold : given[r] > 0}
      /\ reactor'.at = "idle" /\ tasks'[Scheduler] = {}
  BY SchedulerAssumption DEF Restart, Ends, Moves, At
<1>2. GivenOnce'
  BY <1>1 DEF GivenOnce
<1>3. FetchInv' /\ MarkInv'
  BY <1>1 DEF FetchInv, MarkInv, Awaits
<1>4. BeforeInv'
  <2>1. \A r \in before' : platform[r] = "handled"
    BY <1>1 DEF GivenInv, GivenOnce, BeforeInv
  <2> QED
    BY <1>1, <2>1 DEF BeforeInv, Adding
<1> QED
  BY <1>2, <1>3, <1>4 DEF GivenInv

LEMMA GivenKept ==
  ASSUME ThreadInv, DataInv, GivenInv, [Next]_vars
  PROVE  GivenInv'
<1>1. CASE SchedulerStep
  <2>1. CASE QueueActs \/ LateRequest
    BY <2>1, GivenByClient, GivenByPlatform DEF QueueActs, LateRequest
  <2> QED
    BY <1>1, <2>1, GivenByEngine, GivenByReactor, GivenByFailedUpdate DEF SchedulerStep
<1>2. CASE UNCHANGED vars
  BY <1>2, GivenFrame DEF vars, threads, scheduler, queue, history, Got, Adding
<1> QED
  BY <1>1, <1>2, GivenByThreads, GivenByCache, GivenByRestart DEF Next

-----------------------------------------------------------------------------
(* The data of the two owners, and what is on its way to the storages.      *)
LEMMA SweepsLater ==
  ASSUME NEW e \in [time : 0..MaxTime, form : Forms], NEW now \in Nat, NEW then \in Nat,
         now <= then,
         Sweeps(e, now)
  PROVE  Sweeps(e, then)
<1>1. e.time \in Nat /\ expiration_secs \in Nat
  BY CacheAssumption
<1> QED
  BY <1>1 DEF Sweeps, Expired

LEMMA SentLess ==
  ASSUME StoreType, SentInv, sent' \subseteq sent, clock' \in 0..MaxTime, clock <= clock'
  PROVE  SentInv'
<1>1. clock \in Nat /\ clock' \in Nat
  BY CacheAssumption DEF StoreType
<1>2. ASSUME NEW d \in sent', d.call = "delete_value"
      PROVE  expiration_secs > 0 /\ Sweeps(d.arg.entry, clock')
  <2>1. d \in sent /\ d.arg.entry \in [time : 0..MaxTime, form : Forms]
    BY <1>2 DEF SentInv, Sendable
  <2> QED
    BY <1>1, <1>2, <2>1, SweepsLater DEF SentInv
<1> QED
  BY <1>2 DEF SentInv

LEMMA SentMore ==
  ASSUME SentInv, NEW d \in Sendable, sent' = sent \cup {d}, clock' = clock,
         d.call = "delete_value" => expiration_secs > 0 /\ Sweeps(d.arg.entry, clock)
  PROVE  SentInv'
  BY DEF SentInv

LEMMA DataAtFirst ==
  ASSUME Init
  PROVE  DataInv
<1>1. \A form \in Forms : Entry(0, form) \in [time : 0..MaxTime, form : Forms]
  BY CacheAssumption DEF Entry
<1>2. entries \in [Keys -> {NoEntry} \cup [time : 0..MaxTime, form : Forms]]
  BY <1>1 DEF Init, CacheInit
<1>3. clock = 0 /\ sweep = NoSweep /\ 0 \in 0..MaxTime
  BY CacheAssumption DEF Init, CacheInit
<1>4. QueueType
  BY DEF Init, SchedulerInit, QueueType
<1>5. SentInv
  BY DEF Init, AsyncThreadInit, SentInv
<1> QED
  BY <1>2, <1>3, <1>4, <1>5 DEF DataInv, StoreType, NoSweep

(* A coroutine of the scheduler asks about a request.                       *)
LEMMA SchedulerSends ==
  ASSUME ThreadInv, NEW t \in tasks[Scheduler],
         t.coro.call \in {"add_request", "mark_request_as_handled"}
  PROVE  t.coro.arg \in Requests /\ Request(t.coro.call, t.coro.arg) \in Sendable
<1>1. t.coro \in Coros
  BY SchedulerAssumption DEF ThreadInv, ThreadType
<1> QED
  BY <1>1 DEF Coros, Request, Sendable

LEMMA QueueDataKept ==
  ASSUME ThreadInv, DataInv, GivenInv, SchedulerStep
  PROVE  DataInv'
<1>1. StoreType' /\ clock' = clock /\ clock \in 0..MaxTime /\ clock <= clock
  BY CacheAssumption DEF SchedulerStep, cache, DataInv, StoreType
<1>2. QueueType /\ SentInv
  BY DEF DataInv
<1>3. sent' = sent => SentInv'
  BY <1>1, <1>2 DEF SentInv
<1>4. UNCHANGED <<queue, history>> => QueueType'
  BY <1>2 DEF QueueType, queue, history
<1>5. CASE EngineCalls
  BY <1>1, <1>3, <1>4, <1>5
  DEF EngineCalls, Open, HasPendingRequests, EnqueueRequest, NextRequest, CloseScheduler, Calls,
      thread, scheduler, DataInv
<1>6. CASE Marked
  <2> DEFINE r == reactor.coro.arg
  <2>1. /\ UNCHANGED <<queue, before, untold, sent>>
        /\ given' = IF Gives(r) THEN [given EXCEPT ![r] = @ + 1] ELSE given
    BY <1>6 DEF Marked, thread
  <2>2. r \in Requests
    BY <1>6, WaitedFor, SchedulerAssumption DEF Marked, Returned, Coros
  <2> QED
    BY <1>1, <1>2, <1>3, <2>1, <2>2 DEF QueueType, queue, DataInv
<1>7. CASE Continues /\ ~Marked
  <2>1. UNCHANGED <<queue, given, before, untold, sent>>
    BY <1>7 DEF Continues, Opened, OpenFails, Answered, Fetched, CallTimesOut, CallInterrupted,
        thread, scheduler, history
  <2> QED
    BY <1>1, <1>2, <1>3, <2>1 DEF QueueType, queue, DataInv
<1>8. ASSUME NEW t \in tasks[Scheduler], UNCHANGED history,
             Opens(t) \/ IsFinished(t) \/ FetchNextRequest(t) \/ AddRequest(t) \/ MarkRequestAsHandled(t)
      PROVE  DataInv'
  <2>1. QueueType'
    <3>1. /\ platform' = platform /\ UNCHANGED history
          /\ head' \subseteq head \cup Listed /\ in_progress' \subseteq in_progress \cup Listed
          /\ \/ handled_here' = handled_here
             \/ t.coro.call = "mark_request_as_handled" /\ handled_here' = handled_here \cup {t.coro.arg}
      BY <1>8 DEF Opens, IsFinished, FetchNextRequest, AddRequest, MarkRequestAsHandled, queue
    <3> QED
      BY <1>2, <3>1, ListedNotGiven, SchedulerSends DEF QueueType, history
  <2>2. SentInv'
    <3>1. \/ sent' = sent
          \/ /\ t.coro.call \in {"add_request", "mark_request_as_handled"}
             /\ sent' = sent \cup {Request(t.coro.call, t.coro.arg)}
      BY <1>8 DEF Opens, IsFinished, FetchNextRequest, AddRequest, MarkRequestAsHandled, Sends
    <3>2. Request(t.coro.call, t.coro.arg).call = t.coro.call
      BY DEF Request
    <3> QED
      BY <1>1, <1>2, <1>3, <3>1, <3>2, SchedulerSends, SentMore
  <2> QED
    BY <1>1, <2>1, <2>2 DEF DataInv
<1>9. CASE UpdateFails
  <2>1. /\ UNCHANGED <<queue, given, before, sent>>
        /\ \E t \in tasks[Scheduler] :
             t.coro.call = "mark_request_as_handled" /\ untold' = untold \cup {t.coro.arg}
    BY <1>9 DEF UpdateFails
  <2> QED
    BY <1>1, <1>2, <1>3, <2>1, SchedulerSends DEF QueueType, queue, DataInv
<1>10. ASSUME NEW request \in sent, Executes(request)
       PROVE  DataInv'
  <2>1. request.arg \in Requests
    BY <1>2, <1>10 DEF SentInv, Sendable, Executes, Adds, Updates
  <2>2. /\ UNCHANGED <<in_progress, handled_here, history>> /\ sent' \subseteq sent
        /\ head' \subseteq head \cup {request.arg}
        /\ \E has \in {"pending", "handled", platform[request.arg]} :
             platform' = [platform EXCEPT ![request.arg] = has]
    BY <1>10 DEF Executes, Adds, Updates, Executed
  <2>3. QueueType'
    BY <1>2, <2>1, <2>2 DEF QueueType, history
  <2>4. SentInv'
    BY <1>1, <1>2, <2>2, SentLess DEF DataInv
  <2> QED
    BY <1>1, <2>3, <2>4 DEF DataInv
<1> QED
  BY <1>5, <1>6, <1>7, <1>8, <1>9, <1>10 DEF SchedulerStep, QueueActs, LateRequest

LEMMA Stored ==
  ASSUME NEW time \in 0..MaxTime
  PROVE  /\ Entry(time, "response") \in [time : 0..MaxTime, form : Forms]
         /\ Entry(time, "response") # NoEntry
  BY CacheAssumption DEF Entry, Forms

(* The store executes a request: an entry is written or deleted.            *)
LEMMA StoreWrites ==
  ASSUME StoreType, SentInv, NEW request \in sent, StoreExecutes(request)
  PROVE  StoreType' /\ sent' \subseteq sent /\ clock' = clock
<1>1. clock' = clock /\ sent' \subseteq sent
  BY DEF StoreExecutes, Stores, Deletes, Executed
<1>2. sweep' = sweep \/ sweep' = [sweep EXCEPT !.key = NoKey, !.seen = NoEntry]
  BY DEF StoreExecutes, Stores, Deletes, SweepMovesOn
<1>3. entries' \in [Keys -> {NoEntry} \cup [time : 0..MaxTime, form : Forms]]
  <2>1. CASE Stores(request)
    <3>1. request.arg.time \in 0..MaxTime
      BY <2>1 DEF Stores, SentInv, Sendable
    <3> QED
      BY <2>1, <3>1, Stored DEF Stores, StoreType
  <2>2. CASE Deletes(request)
    BY <2>2 DEF Deletes, StoreType
  <2> QED
    BY <2>1, <2>2 DEF StoreExecutes
<1> QED
  BY <1>1, <1>2, <1>3 DEF StoreType

LEMMA StoreDataKept ==
  ASSUME ThreadInv, DataInv, CacheStep
  PROVE  DataInv'
<1>1. QueueType' /\ StoreType /\ SentInv /\ clock \in 0..MaxTime /\ clock <= clock
  BY CacheAssumption DEF CacheStep, scheduler, queue, history, DataInv, QueueType, StoreType
<1>2. clock' = clock /\ sent' \subseteq sent => SentInv'
  BY <1>1, SentLess
<1>3. CASE MiddlewareCalls /\ ~CloseSpider
  <2>1. UNCHANGED <<cache, sent>>
    BY <1>3 DEF MiddlewareCalls, OpenSpider, RetrieveResponse, StoreResponse, CacheCalls
  <2> QED
    BY <1>1, <1>2, <2>1 DEF cache, StoreType, DataInv
<1>4. CASE CloseSpider
  <2>1. /\ entries' = entries /\ clock' = clock /\ sent' = sent
        /\ sweep' = [now |-> clock, done |-> {}, key |-> NoKey, seen |-> NoEntry]
    BY <1>4 DEF CloseSpider, NoSweep
  <2> QED
    BY <1>1, <1>2, <2>1, CacheAssumption DEF StoreType, DataInv
<1>5. CASE CacheContinues
  <2>1. UNCHANGED <<entries, clock, sweep, sent>>
    BY <1>5 DEF CacheContinues, SpiderOpened, OpenSpiderFails, CacheAnswered, CacheTimesOut,
        CacheInterrupted, Swept,
                thread, cache
  <2> QED
    BY <1>1, <1>2, <2>1 DEF StoreType, DataInv
<1>6. CASE CacheActs
  <2>1. UNCHANGED cache
    BY <1>6 DEF CacheActs
  <2>2. PICK t \in tasks[Cache] :
          \/ sent' = sent
          \/ t.coro.call = "set_value" /\ sent' = sent \cup {Request("set_value", t.coro.arg)}
    BY <1>6 DEF CacheActs, Sends
  <2>3. t.coro.call = "set_value" => Request("set_value", t.coro.arg) \in Sendable
    BY CacheAssumption DEF ThreadInv, ThreadType, Coros, Request, Sendable
  <2>4. SentInv'
    BY <1>1, <1>2, <2>1, <2>2, <2>3, SentMore DEF cache, Request
  <2> QED
    BY <1>1, <2>1, <2>4 DEF cache, StoreType, DataInv
<1>7. CASE SweepReads
  <2>1. PICK k \in Keys :
          entries[k] # NoEntry /\ sweep' = [sweep EXCEPT !.done = @ \cup {k}, !.key = k, !.seen = entries[k]]
    BY <1>7 DEF SweepReads
  <2>2. entries' = entries /\ clock' = clock /\ sent' = sent
    BY <1>7 DEF SweepReads, threads
  <2> QED
    BY <1>1, <1>2, <2>1, <2>2 DEF StoreType, DataInv
<1>8. CASE SweepDeletes
  <2>1. entries' = entries /\ clock' = clock
    BY <1>8 DEF SweepDeletes
  <2>2. sweep' = sweep \/ sweep' = [sweep EXCEPT !.key = NoKey, !.seen = NoEntry]
    BY <1>8 DEF SweepDeletes, SweepMovesOn
  <2>3. CASE sent' = sent
    BY <1>1, <1>2, <2>1, <2>2, <2>3 DEF StoreType, DataInv
  <2>4. CASE sent' # sent
    <3>1. PICK t \in tasks[Cache] :
            /\ t.coro.call = "expire" /\ Sweeps(sweep.seen, sweep.now)
            /\ sent' = sent \cup {Delete(sweep.key, sweep.seen)}
      BY <1>8, <2>4 DEF SweepDeletes, Sweeping, Sends
    <3>2. expiration_secs > 0
      BY <3>1, CacheAssumption DEF ThreadInv, ThreadType, Coros
    <3>3. sweep.key \in Keys /\ sweep.seen \in [time : 0..MaxTime, form : Forms]
      BY <1>1, <1>8 DEF SweepDeletes, StoreType
    <3>4. Sweeps(sweep.seen, clock)
      BY <1>1, <3>1, <3>3, SweepsLater, CacheAssumption DEF StoreType
    <3>5. Delete(sweep.key, sweep.seen) \in Sendable /\ Delete(sweep.key, sweep.seen).arg.entry = sweep.seen
      BY <3>3 DEF Delete, Request, Sendable
    <3>6. SentInv'
      BY <1>1, <2>1, <3>1, <3>2, <3>4, <3>5, SentMore
    <3> QED
      BY <1>1, <2>1, <2>2, <3>6 DEF StoreType, DataInv
  <2> QED
    BY <2>3, <2>4
<1>9. CASE SweepEnds
  <2>1. UNCHANGED <<cache, sent>>
    BY <1>9 DEF SweepEnds
  <2> QED
    BY <1>1, <1>2, <2>1 DEF cache, StoreType, DataInv
<1>10. CASE StoreActs \/ LateStoreRequest
  <2>1. PICK request \in sent : StoreExecutes(request)
    BY <1>10 DEF StoreActs, LateStoreRequest
  <2> QED
    BY <1>1, <1>2, <2>1, StoreWrites DEF DataInv
<1>11. CASE OtherRunStores
  <2>1. /\ \E k \in Keys : entries' = [entries EXCEPT ![k] = Entry(clock, "response")]
        /\ clock' = clock /\ sweep' = sweep /\ sent' = sent
    BY <1>11 DEF OtherRunStores, threads
  <2>2. entries' \in [Keys -> {NoEntry} \cup [time : 0..MaxTime, form : Forms]]
    BY <1>1, <2>1, Stored DEF StoreType
  <2> QED
    BY <1>1, <1>2, <2>1, <2>2 DEF StoreType, DataInv
<1>12. CASE Tick
  <2>1. clock' = clock + 1 /\ clock < MaxTime /\ entries' = entries /\ sweep' = sweep /\ sent' = sent
    BY <1>12 DEF Tick, threads
  <2>2. clock' \in 0..MaxTime /\ clock <= clock' /\ sweep'.now <= clock'
    BY <1>1, <2>1, CacheAssumption DEF StoreType
  <2>3. SentInv'
    BY <1>1, <2>1, <2>2, SentLess
  <2> QED
    BY <1>1, <2>1, <2>2, <2>3 DEF StoreType, DataInv
<1> QED
  BY <1>3, <1>4, <1>5, <1>6, <1>7, <1>8, <1>9, <1>10, <1>11, <1>12 DEF CacheStep, CacheLoop

LEMMA DataKept ==
  ASSUME ThreadInv, DataInv, GivenInv, [Next]_vars
  PROVE  DataInv'
<1>1. QueueType /\ StoreType /\ SentInv
  BY DEF DataInv
<1>2. UNCHANGED <<scheduler, cache, sent>> => DataInv'
  BY <1>1 DEF scheduler, queue, history, cache, QueueType, StoreType, SentInv, DataInv
<1>3. CASE ThreadStep \/ FailureStep
  <2>1. sent' = sent
    BY <1>3 DEF ThreadStep, Closing, Close, ShutDown, Join, Loop, LoopStarts, StartsCoro,
        CancelsTask, RunsCallback,
                StopsLoop, Answers, Unwinds, ShutsDownTasks, Gathered, FailureStep, StorageFails
  <2> QED
    BY <1>2, <1>3, <2>1 DEF ThreadStep, FailureStep
<1>4. CASE Restart
  <2>1. QueueType'
    BY <1>1, <1>4 DEF Restart, QueueType
  <2>2. /\ entries' = entries /\ clock' = clock /\ sent' = sent
        /\ sweep' = [now |-> 0, done |-> {}, key |-> NoKey, seen |-> NoEntry]
    BY <1>4 DEF Restart, NoSweep
  <2> QED
    BY <1>1, <2>1, <2>2, CacheAssumption DEF StoreType, SentInv, DataInv
<1>5. CASE UNCHANGED vars
  BY <1>2, <1>5 DEF vars, threads
<1> QED
  BY <1>3, <1>4, <1>5, QueueDataKept, StoreDataKept DEF Next

-----------------------------------------------------------------------------
(* Only a deletion that was on its way empties the store, and it is of what *)
(* has expired.                                                             *)
LEMMA DeletedHasExpired ==
  ASSUME DataInv, NEW k \in Keys, entries[k] # NoEntry, Delete(k, entries[k]) \in sent
  PROVE  ~Hit(entries[k], clock)
<1>1. expiration_secs > 0 /\ Sweeps(entries[k], clock)
  BY DEF DataInv, SentInv, Delete, Request
<1> QED
  BY <1>1 DEF Sweeps, Hit, Whole

IInv == ThreadInv /\ DataInv /\ GivenInv

LEMMA Inductive ==
  Spec => []IInv
<1>1. Init => IInv
  <2> SUFFICES ASSUME Init PROVE IInv
    OBVIOUS
  <2>1. GivenOnce /\ before = {}
    BY DEF Init, SchedulerInit, GivenOnce
  <2>2. reactor.at = "idle" /\ tasks[Scheduler] = {}
    BY SchedulerAssumption DEF Init, AsyncThreadInit, Idle, At
  <2>3. BeforeInv
    BY <2>1, <2>2 DEF BeforeInv, Adding
  <2> QED
    BY <2>1, <2>2, <2>3, ThreadsAtFirst, DataAtFirst DEF IInv, GivenInv, FetchInv, MarkInv, Awaits
<1>2. IInv /\ [Next]_vars => IInv'
  <2> SUFFICES ASSUME IInv, [Next]_vars PROVE IInv'
    OBVIOUS
  <2>1. ThreadInv /\ DataInv /\ GivenInv
    BY DEF IInv
  <2> QED
    BY <2>1, ThreadsKept, DataKept, GivenKept DEF IInv
<1> QED
  BY <1>1, <1>2, PTL DEF Spec

(* Every variable keeps its type, in a crawl of any size.                   *)
THEOREM CrawlTyped ==
  Spec => []TypeOK
<1>1. IInv => TypeOK
  BY DEF IInv, ThreadInv, ThreadType, DataInv, QueueType, StoreType, SentInv, TypeOK
<1> QED
  BY <1>1, Inductive, PTL

(* Once a coroutine that the reactor's thread waits for has started, every  *)
(* other coroutine of its loop is being cancelled; unless a                 *)
(* KeyboardInterrupt broke off a wait for that thread.                      *)
THEOREM WaitedForAlone ==
  Spec => []AloneOnLoop
<1>1. IInv => AloneOnLoop
  <2> SUFFICES ASSUME ThreadInv, NEW th \in Threads \ interrupted, reactor.on = th,
                      NEW t \in tasks[th], t.coro = reactor.coro
               PROVE  \A u \in tasks[th] : u.coro = reactor.coro \/ u.result = "cancelled"
    BY DEF IInv, AloneOnLoop
  <2> QED
    BY Alone
<1> QED
  BY <1>1, Inductive, PTL

(* The engine gets a request at most once, and only when the platform has   *)
(* it as handled or failed to be told, whatever times out, fails, is        *)
(* interrupted or restarted, and however late the platform acts.            *)
THEOREM GivenAtMostOnce ==
  Spec => []GivenOnce
<1>1. IInv => GivenOnce
  BY DEF IInv, GivenInv
<1> QED
  BY <1>1, Inductive, PTL

(* The sweep deletes nothing that a lookup would still answer with, however *)
(* late its deletion is executed; unless another run replaced the entry     *)
(* since the sweep read it.                                                 *)
THEOREM FreshSpared ==
  Spec => SweepSparesFresh
<1>1. IInv =>
        \A k \in Keys :
          /\ entries[k] # NoEntry /\ entries'[k] = NoEntry
          /\ Delete(k, entries[k]) \in sent
          => ~Hit(entries[k], clock)
  BY DeletedHasExpired DEF IInv
<1> QED
  BY <1>1, Inductive, PTL DEF Spec, SweepSparesFresh
=============================================================================
