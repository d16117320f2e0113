---------------------------- MODULE AsyncThread ----------------------------
(***************************************************************************)
(* The bridge between Scrapy's synchronous callbacks and the asynchronous   *)
(* storages: an event loop in a thread of its own, on which the callbacks,  *)
(* all of them in the reactor's thread, run one coroutine at a time and     *)
(* wait for it no longer than a timeout.                                    *)
(*                                                                          *)
(* A loop runs the callbacks handed to it in their order; between them a    *)
(* coroutine that was started goes on whenever the storage answers.  What   *)
(* it asked of the storage is on its way from then on, whatever becomes of  *)
(* the coroutine, its loop or the process.  What the coroutines do is up to *)
(* the owners of the threads.                                               *)
(***************************************************************************)
EXTENDS Naturals, Sequences, FiniteSets

CONSTANTS
  Threads,       \* an AsyncThread for each owner
  NoThread, NoCoro, Pending,
  MaxCoros,      \* bound on the coroutines of a loop that have not ended
  MaxTroubles    \* bound on time-outs, interrupts, failures and restarts

(* How far a coroutine is while it has no result: it has yet to act, waits  *)
(* for the storage, has a CancelledError on its way, or is _shutdown_tasks  *)
(* waiting for the others.                                                  *)
Unanswered == {Pending, "sent", "cancelled", "gathering"}

ASSUME ThreadAssumption ==
  /\ NoThread \notin Threads /\ MaxCoros \in Nat \ {0} /\ MaxTroubles \in Nat
  /\ Pending \notin {"sent", "cancelled", "gathering", "raised", "done"}

VARIABLES
  loop,     \* "none", "starting", "running" or "closed"
  ready,    \* the callbacks each loop has yet to run
  tasks,    \* the coroutines that were started and have not ended, and how far they are
  sent,     \* requests on their way to the storage; equal ones count as one
  reactor,  \* what the reactor's thread is at: [at, on, coro]
  outcome,  \* of the coroutine it waits for: Pending, or what it returned
  gone,     \* threads whose owner failed to open or was closed
  interrupted, \* history: threads that a KeyboardInterrupt broke off a wait for
  troubles

threads == <<loop, ready, tasks, sent, reactor, outcome, interrupted, troubles>>
thread == <<loop, ready, tasks, sent, interrupted, troubles>>

At(at, th, c) == [at |-> at, on |-> th, coro |-> c]
Idle == At("idle", NoThread, NoCoro)

AsyncThreadInit(created) ==
  /\ loop = [th \in Threads |-> IF th \in created THEN "starting" ELSE "none"]
  /\ ready = [th \in Threads |-> <<>>] /\ tasks = [th \in Threads |-> {}]
  /\ sent = {}
  /\ reactor = Idle /\ outcome = Pending
  /\ gone = {} /\ interrupted = {}
  /\ troubles = 0

Callback(run, c) == [run |-> run, coro |-> c]
Stop == Callback("stop", NoCoro)

Task(c, result) == [coro |-> c, result |-> result]
Request(call, arg) == [call |-> call, arg |-> arg]

(* A coroutine is told apart from the others of its loop by a number.       *)
Numbers(th) ==
  {ready[th][i].coro.id : i \in {j \in DOMAIN ready[th] : ready[th][j].run = "start"}}
    \cup {t.coro.id : t \in tasks[th]}
Fresh(th, call, arg) ==
  [id |-> CHOOSE n \in 1..MaxCoros : n \notin Numbers(th), call |-> call, arg |-> arg]

Moves(at, th, c) == reactor' = At(at, th, c) /\ outcome' = Pending

(* The synchronous call is over.                                            *)
Ends == Moves("idle", NoThread, NoCoro)

-----------------------------------------------------------------------------
(* run_coro: hand the coroutine over and wait.  On a closed loop it raises, *)
(* which changes nothing.                                                   *)

RunsTo(at, th, call, arg) ==
  /\ loop[th] \in {"starting", "running"}
  /\ Cardinality(Numbers(th)) < MaxCoros
  /\ LET c == Fresh(th, call, arg)
     IN  Moves(at, th, c) /\ ready' = [ready EXCEPT ![th] = Append(@, Callback("start", c))]

Runs(th, call, arg) == RunsTo("coro", th, call, arg)

Awaits(th, call) == reactor.at = "coro" /\ reactor.on = th /\ reactor.coro.call = call

Returned(th, call) == Awaits(th, call) /\ outcome # Pending

ForgetsCoro(th) == UNCHANGED ready

CancelsCoro(th) == ready' = [ready EXCEPT ![th] = Append(@, Callback("cancel", reactor.coro))]

Trouble == troubles < MaxTroubles /\ troubles' = troubles + 1

Expires == outcome = Pending /\ Trouble

TimesOut(th) == Expires /\ CancelsCoro(th) /\ UNCHANGED interrupted

(* A KeyboardInterrupt comes out of the wait, and nothing is cancelled.     *)
Interrupted(th) == Expires /\ UNCHANGED ready /\ interrupted' = interrupted \cup {th}

-----------------------------------------------------------------------------
(* close: cancel what is on the loop, then stop it and join its thread.     *)

Stops(th) == ready' = [ready EXCEPT ![th] = Append(@, Stop)]

Close ==
  /\ reactor.at = "close"
  /\ LET th == reactor.on
     IN  \/ loop[th] = "closed" /\ Ends /\ UNCHANGED ready
         \/ loop[th] = "running" /\ RunsTo("shutdown", th, "shutdown", NoCoro)
         \/ loop[th] = "starting" /\ Stops(th) /\ Moves("join", th, NoCoro)
  /\ UNCHANGED <<loop, tasks, sent, gone, interrupted, troubles>>

(* _shutdown_tasks has ended, timed out or was interrupted: the loop is     *)
(* stopped in any case.                                                     *)
ShutDown ==
  /\ reactor.at = "shutdown"
  /\ LET th == reactor.on
     IN  \/ outcome # Pending /\ Stops(th) /\ UNCHANGED troubles
         \/ /\ Expires
            /\ \/ ready' = [ready EXCEPT ![th] = @ \o <<Callback("cancel", reactor.coro), Stop>>]
               \/ Stops(th)  \* KeyboardInterrupt
  /\ Moves("join", reactor.on, NoCoro)
  /\ UNCHANGED <<loop, tasks, sent, gone, interrupted>>

(* The thread has ended, or it is told to stop once more and left behind;   *)
(* an interrupt leaves it behind at once.                                   *)
Join ==
  /\ reactor.at = "join"
  /\ \/ loop[reactor.on] = "closed" /\ UNCHANGED <<ready, troubles>>
     \/ loop[reactor.on] # "closed" /\ Expires /\ (Stops(reactor.on) \/ UNCHANGED ready)
  /\ Ends
  /\ UNCHANGED <<loop, tasks, sent, gone, interrupted>>

-----------------------------------------------------------------------------
(* The thread of the loop.                                                  *)

LoopStarts(th) ==
  /\ loop[th] = "starting" /\ loop' = [loop EXCEPT ![th] = "running"]
  /\ UNCHANGED <<ready, tasks, sent, reactor, outcome, gone, interrupted, troubles>>

Due(th, run) == loop[th] = "running" /\ ready[th] # <<>> /\ Head(ready[th]).run = run

Becomes(th, new) == tasks' = [tasks EXCEPT ![th] = new]

RunsCallback(th, run) ==
  /\ Due(th, run) /\ ready' = [ready EXCEPT ![th] = Tail(@)]
  /\ UNCHANGED <<loop, sent, reactor, outcome, gone, interrupted, troubles>>

(* A coroutine that was given up on before it started is started all the    *)
(* same, and cancelled right after.                                         *)
StartsCoro(th) ==
  /\ RunsCallback(th, "start")
  /\ Becomes(th, tasks[th] \cup {Task(Head(ready[th]).coro, Pending)})

(* A cancelled coroutine gets a CancelledError where it awaits.             *)
Cancelled(t) == Task(t.coro, "cancelled")

CancelsTask(th) ==
  /\ RunsCallback(th, "cancel")
  /\ Becomes(th, {IF t.coro = Head(ready[th]).coro THEN Cancelled(t) ELSE t : t \in tasks[th]})

(* run_forever returns and the loop is closed, with all it still held.      *)
StopsLoop(th) ==
  /\ Due(th, "stop")
  /\ loop' = [loop EXCEPT ![th] = "closed"]
  /\ ready' = [ready EXCEPT ![th] = <<>>] /\ Becomes(th, {})
  /\ UNCHANGED <<sent, reactor, outcome, gone, interrupted, troubles>>

(* A coroutine goes on, and is as far as that says.                         *)
Keeps(th, t, result) ==
  Becomes(th, (tasks[th] \ {t}) \cup {Task(t.coro, result)}) /\ UNCHANGED outcome

(* It asks something of the storage.                                        *)
Sends(th, t, request) == Keeps(th, t, "sent") /\ sent' = sent \cup {request}

(* The storage executes what coroutines asked of it with a request.         *)
Awaiting(t, request) == t.result = "sent" /\ Request(t.coro.call, t.coro.arg) = request
Executed(th, request, result) ==
  /\ sent' = sent \ {request}
  /\ Becomes(th, {IF Awaiting(t, request) THEN Task(t.coro, result) ELSE t : t \in tasks[th]})
  /\ UNCHANGED outcome

(* It ends, and its result reaches the reactor if that still waits for it.  *)
Ended(th, t, result) ==
  /\ Becomes(th, tasks[th] \ {t})
  /\ outcome' = IF reactor.on = th /\ reactor.coro = t.coro THEN result ELSE outcome

Answers(th) ==
  /\ \E t \in tasks[th] : t.result \notin Unanswered /\ Ended(th, t, t.result)
  /\ UNCHANGED <<loop, ready, sent, reactor, gone, interrupted, troubles>>

Unwinds(th) ==
  /\ \E t \in tasks[th] : t.result = "cancelled" /\ Becomes(th, tasks[th] \ {t})
  /\ UNCHANGED <<loop, ready, sent, reactor, outcome, gone, interrupted, troubles>>

(* _shutdown_tasks cancels the other tasks and waits for them.              *)
ShutsDownTasks(th) ==
  /\ \E t \in tasks[th] :
       /\ t.coro.call = "shutdown" /\ t.result = Pending
       /\ Becomes(th, {Cancelled(u) : u \in tasks[th] \ {t}} \cup {Task(t.coro, "gathering")})
  /\ UNCHANGED <<loop, ready, sent, reactor, outcome, gone, interrupted, troubles>>

Gathered(th) ==
  /\ \E t \in tasks[th] :
       t.coro.call = "shutdown" /\ t.result = "gathering" /\ tasks[th] = {t} /\ Ended(th, t, "done")
  /\ UNCHANGED <<loop, ready, sent, reactor, gone, interrupted, troubles>>

Loop(th) ==
  \/ LoopStarts(th) \/ StartsCoro(th) \/ CancelsTask(th) \/ StopsLoop(th)
  \/ Answers(th) \/ Unwinds(th) \/ ShutsDownTasks(th) \/ Gathered(th)

Closing == Close \/ ShutDown \/ Join

-----------------------------------------------------------------------------
(* Properties.                                                              *)

(* The storages are not made for coroutines nobody waits for: once the one  *)
(* that the reactor waits for is started, whatever it gave up on before is  *)
(* being cancelled and acts no more; unless a KeyboardInterrupt made it give *)
(* up, which cancels nothing.                                               *)
AloneOnLoop ==
  \A th \in Threads \ interrupted :
    reactor.on = th /\ (\E t \in tasks[th] : t.coro = reactor.coro) =>
      \A t \in tasks[th] : t.coro = reactor.coro \/ t.result = "cancelled"

(* The thread of an owner that failed to open, or was closed, comes to its  *)
(* end, whatever timed out on the way.                                      *)
ThreadsEnd == \A th \in Threads : (th \in gone) ~> (loop[th] = "closed" \/ th \notin gone)
=============================================================================
