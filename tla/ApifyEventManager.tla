-------------------------- MODULE ApifyEventManager --------------------------
(***************************************************************************)
(* The event manager of an Actor on the platform: users that enter and      *)
(* leave it and count themselves, the task that keeps a websocket to the    *)
(* platform open, and the platform, which closes connections, refuses them  *)
(* and sends messages as it likes.                                          *)
(*                                                                          *)
(* The users are asyncio tasks of one process: the Actor, and crawlers that *)
(* use its manager.  They need not be nested in one another.  Of Crawlee's  *)
(* manager the model keeps the count, the task that emits PERSIST_STATE     *)
(* periodically and the PERSIST_STATE emitted on the outermost exit; there  *)
(* the exit waits for listeners, elsewhere it does not suspend.             *)
(***************************************************************************)
EXTENDS Naturals, FiniteSets

CONSTANTS
  Users,
  MaxEntries,   \* bound: entries in one behaviour
  MaxDrops,     \* bound: connections lost or refused after the first one
  MaxMigrations \* bound: MIGRATING messages

ASSUME ManagerAssumption == MaxEntries \in Nat /\ MaxDrops \in Nat /\ MaxMigrations \in Nat

VARIABLES
  refs,        \* _active_ref_count
  persisting,  \* _emit_persist_state_event_rec_task runs
  future,      \* _connected_to_platform_websocket: "none", or its state
  task,        \* _process_platform_messages_task: "none", or where it is suspended
  websocket,   \* _platform_events_websocket is set
  primed,      \* backoff_delays is set
  user,        \* where each user is
  open,        \* connections the platform has open with this process
  rapid,       \* history: rapid drops since the last healthy connection or sleep
  hopeless,    \* history: this task met a condition no reconnecting resolves
  overlapped,  \* history: somebody entered while the outermost user came or went
  unsaved,     \* history: MIGRATING was emitted, and no PERSIST_STATE since
  entries, drops, migrations

connection == <<future, task, websocket, primed, open, rapid, hopeless>>
bounds == <<entries, drops, migrations>>
vars == <<refs, persisting, connection, user, overlapped, unsaved, bounds>>

Init ==
  /\ refs = 0 /\ persisting = FALSE
  /\ future = "none" /\ task = "none" /\ websocket = FALSE /\ primed = FALSE
  /\ user = [u \in Users |-> "out"]
  /\ open = 0 /\ rapid = 0 /\ hopeless = FALSE /\ overlapped = FALSE /\ unsaved = FALSE
  /\ entries = 0 /\ drops = 0 /\ migrations = 0

Moves(u, at) == user' = [user EXCEPT ![u] = at]

Running == task \in {"connecting", "open", "stopping", "backoff", "cancelled"}

-----------------------------------------------------------------------------
(* __aenter__.                                                              *)

Connect ==
  /\ future' = "pending" /\ task' = "connecting" /\ primed' = FALSE
  /\ rapid' = 0 /\ hopeless' = FALSE
  /\ UNCHANGED <<websocket, open>>

EnterConnecting(u) ==
  /\ user[u] = "out" /\ entries < MaxEntries /\ entries' = entries + 1
  /\ refs' = refs + 1 /\ persisting' = (persisting \/ refs = 0)
  /\ Connect /\ Moves(u, "waiting")
  /\ UNCHANGED <<overlapped, unsaved, drops, migrations>>

(* Only the outermost user connects, and waits for the first connection.    *)
Enter(u) ==
  /\ user[u] = "out" /\ entries < MaxEntries /\ entries' = entries + 1
  /\ refs' = refs + 1
  /\ IF refs = 0
     THEN Connect /\ Moves(u, "waiting") /\ persisting' = TRUE /\ overlapped' = FALSE
     ELSE /\ Moves(u, "in")
          /\ overlapped' = (overlapped \/ \E v \in Users : user[v] \notin {"out", "in"})
          /\ UNCHANGED <<persisting, connection>>
  /\ UNCHANGED <<unsaved, drops, migrations>>

Entered(u) ==
  /\ user[u] = "waiting" /\ future = "connected"
  /\ Moves(u, "in")
  /\ UNCHANGED <<refs, persisting, connection, overlapped, unsaved, bounds>>

-----------------------------------------------------------------------------
(* __aexit__: the last user cancels the task, waits for it, closes the      *)
(* websocket and forgets them; whatever fails there, Crawlee's part follows.*)

LeavesAlone(u) ==
  /\ Moves(u, "tearing_down") /\ UNCHANGED refs
  /\ task' = IF Running THEN "cancelled" ELSE task

Leaves(u) ==
  IF refs = 1
  THEN /\ Moves(u, "tearing_down") /\ UNCHANGED refs
       /\ task' = IF Running THEN "cancelled" ELSE task
  ELSE Moves(u, "out") /\ refs' = refs - 1 /\ UNCHANGED task

Exit(u) ==
  /\ user[u] = "in"
  /\ Leaves(u)
  /\ UNCHANGED <<persisting, future, websocket, primed, open, rapid, hopeless, overlapped, unsaved,
                 bounds>>

(* The first connection failed, or the entering user is cancelled, and with *)
(* it the future it awaits: the entry is undone before it raises.           *)
EntryFails(u) ==
  /\ user[u] = "waiting" /\ future = "failed"
  /\ Leaves(u)
  /\ UNCHANGED <<persisting, future, websocket, primed, open, rapid, hopeless, overlapped, unsaved,
                 bounds>>

EntryCancelled(u) ==
  /\ user[u] = "waiting"
  /\ Leaves(u)
  /\ future' = IF future = "pending" THEN "cancelled" ELSE future
  /\ UNCHANGED <<persisting, websocket, primed, open, rapid, hopeless, overlapped, unsaved, bounds>>

(* The cancelled task closes the iterator over its connections, and with it *)
(* the connection.                                                          *)
TaskEnds ==
  /\ task = "cancelled"
  /\ task' = "ended" /\ open' = 0
  /\ UNCHANGED <<refs, persisting, future, websocket, primed, user, rapid, hopeless, overlapped,
                 unsaved, bounds>>

TornDownUnguarded(u) ==
  /\ user[u] = "tearing_down" /\ ~Running
  /\ future' = "none" /\ task' = "none" /\ websocket' = FALSE /\ open' = 0
  /\ \/ Moves(u, "persisting") /\ persisting' = FALSE /\ unsaved' = FALSE
     \/ Moves(u, "out") /\ UNCHANGED <<persisting, unsaved>>
  /\ UNCHANGED <<refs, primed, rapid, hopeless, overlapped, bounds>>

(* The websocket is closed, or closing it fails; the fields are reset in    *)
(* either case.  In Crawlee's part a user that is not alone just leaves.    *)
TornDown(u) ==
  /\ user[u] = "tearing_down" /\ ~Running
  /\ future' = "none" /\ task' = "none" /\ websocket' = FALSE /\ open' = 0
  /\ IF refs = 1
     THEN /\ Moves(u, "persisting") /\ persisting' = FALSE /\ unsaved' = FALSE
          /\ UNCHANGED refs
     ELSE Moves(u, "out") /\ refs' = refs - 1 /\ UNCHANGED <<persisting, unsaved>>
  /\ UNCHANGED <<primed, rapid, hopeless, overlapped, bounds>>

(* The listeners of the last PERSIST_STATE are done.                        *)
Left(u) ==
  /\ user[u] = "persisting"
  /\ Moves(u, "out") /\ refs' = refs - 1
  /\ UNCHANGED <<persisting, connection, overlapped, unsaved, bounds>>

-----------------------------------------------------------------------------
(* _process_platform_messages.                                              *)

(* A connection is made; the first one lets the entering user in.           *)
Connected ==
  /\ task = "connecting"
  /\ task' = "open" /\ websocket' = TRUE /\ open' = open + 1
  /\ future' = IF future = "pending" THEN "connected" ELSE future
  /\ UNCHANGED <<refs, persisting, primed, user, rapid, hopeless, overlapped, unsaved, bounds>>

RefusedSilently ==
  /\ task = "connecting" /\ drops < MaxDrops /\ drops' = drops + 1
  /\ \/ UNCHANGED <<task, hopeless>>
     \/ task' = "ended" /\ hopeless' = TRUE
  /\ UNCHANGED <<refs, persisting, future, websocket, primed, user, open, rapid, overlapped, unsaved,
                 entries, migrations>>

(* Before the first connection every error is fatal; later transient ones   *)
(* are retried (by the library, with its own backoff), others end the task. *)
Refused ==
  /\ task = "connecting"
  /\ IF future = "pending"
     THEN /\ future' = "failed" /\ task' = "ended" /\ hopeless' = TRUE
          /\ UNCHANGED drops
     ELSE /\ drops < MaxDrops /\ drops' = drops + 1
          /\ \/ UNCHANGED <<task, hopeless>>
             \/ task' = "ended" /\ hopeless' = TRUE
          /\ UNCHANGED future
  /\ UNCHANGED <<refs, persisting, websocket, primed, user, open, rapid, overlapped, unsaved,
                 entries, migrations>>

NeverPrimed(healthy) == primed' = FALSE /\ task' = "connecting"

(* After a healthy connection, and after the first rapid drop, reconnect at *)
(* once; after each rapid drop in a row sleep first.                        *)
ReconnectsAfter(healthy) ==
  /\ primed' = ~healthy
  /\ task' = IF ~healthy /\ primed THEN "backoff" ELSE "connecting"

(* The connection ends, cleanly or lost, with a code worth retrying or not. *)
Dropped ==
  /\ task = "open" /\ drops < MaxDrops /\ drops' = drops + 1
  /\ open' = open - 1
  /\ \/ \E healthy \in BOOLEAN :
          /\ ReconnectsAfter(healthy)
          /\ rapid' = IF healthy THEN 0 ELSE rapid + 1
          /\ UNCHANGED hopeless
     \/ task' = "ended" /\ hopeless' = TRUE /\ UNCHANGED <<primed, rapid>>
  /\ UNCHANGED <<refs, persisting, future, websocket, user, overlapped, unsaved, entries, migrations>>

Slept ==
  /\ task = "backoff"
  /\ task' = "connecting" /\ rapid' = 0
  /\ UNCHANGED <<refs, persisting, future, websocket, primed, user, open, hopeless, overlapped,
                 unsaved, bounds>>

(* A MIGRATING message: emit it, stop the periodic PERSIST_STATE, which     *)
(* suspends, and emit PERSIST_STATE once.  Other messages, malformed ones   *)
(* included, leave nothing behind in the manager.                           *)
Migrating ==
  /\ task = "open" /\ migrations < MaxMigrations /\ migrations' = migrations + 1
  /\ task' = "stopping" /\ unsaved' = TRUE /\ persisting' = FALSE
  /\ UNCHANGED <<refs, future, websocket, primed, user, open, rapid, hopeless, overlapped,
                 entries, drops>>

MigrationHandled ==
  /\ task = "stopping"
  /\ task' = "open" /\ unsaved' = FALSE
  /\ UNCHANGED <<refs, persisting, future, websocket, primed, user, open, rapid, hopeless, overlapped,
                 bounds>>

-----------------------------------------------------------------------------
Resume(u) == Entered(u) \/ EntryFails(u) \/ TornDown(u) \/ Left(u)

Task == TaskEnds \/ Connected \/ Slept \/ MigrationHandled

Next ==
  \/ \E u \in Users : Enter(u) \/ EntryCancelled(u) \/ Exit(u) \/ Resume(u)
  \/ Task \/ Refused \/ Dropped \/ Migrating

Spec == Init /\ [][Next]_vars

(* The loop resumes what can go on, and a connection attempt ends within    *)
(* its timeout.                                                             *)
Fairness ==
  /\ WF_vars(Task \/ (Refused /\ future = "pending"))
  /\ \A u \in Users : WF_vars(Resume(u))

FairSpec == Spec /\ Fairness

-----------------------------------------------------------------------------
(* Properties.                                                              *)

TypeOK ==
  /\ refs \in Nat /\ open \in Nat /\ rapid \in Nat
  /\ {persisting, websocket, primed, hopeless, overlapped, unsaved} \subseteq BOOLEAN
  /\ future \in {"none", "pending", "connected", "failed", "cancelled"}
  /\ task \in {"none", "connecting", "open", "stopping", "backoff", "cancelled", "ended"}
  /\ user \in [Users -> {"out", "waiting", "in", "tearing_down", "persisting"}]
  /\ entries \in 0..MaxEntries /\ drops \in 0..MaxDrops /\ migrations \in 0..MaxMigrations

(* The platform limits the connections of a run: however users come and go, *)
(* fail to enter or are cancelled, the process has one connection at most,  *)
(* and none, no task and no periodic event once everybody is out.           *)
NothingLeftBehind ==
  /\ open <= 1
  /\ (\A u \in Users : user[u] = "out") =>
       refs = 0 /\ open = 0 /\ task = "none" /\ future = "none" /\ ~persisting

(* Whoever is in has a task that receives the platform's events or is about *)
(* to, unless the platform ended it for good, or somebody came while the    *)
(* outermost user was on its way in or out.                                 *)
EventsArrive ==
  ~overlapped /\ ~hopeless /\ (\E u \in Users : user[u] = "in") =>
    task \in {"connecting", "open", "stopping", "backoff"}

(* A platform that accepts connections and drops them soon is not hammered: *)
(* of two rapid drops in a row the second is slept upon.                    *)
BacksOff == [][Connected => rapid <= 1]_vars

(* Every MIGRATING is followed by a PERSIST_STATE, also when the manager is *)
(* left between the two; unless somebody else then came while it was.       *)
MigrationPersists == unsaved ~> ~unsaved \/ overlapped

(* Nobody stays on the way in or out, whatever the connection does.         *)
UsersSettle == \A u \in Users : user[u] \notin {"in", "out"} ~> user[u] \in {"in", "out"}
=============================================================================
