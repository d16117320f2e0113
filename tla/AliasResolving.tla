--------------------------- MODULE AliasResolving ---------------------------
(***************************************************************************)
(* Opening storages on the platform: by ID, by name, the default one, and   *)
(* by alias.  A run finds the unnamed storage behind an alias again through *)
(* a mapping it keeps in its memory and in a record of its default          *)
(* key-value store.                                                         *)
(*                                                                          *)
(* Each process has its memory and a lock its tasks take to resolve an      *)
(* alias; several processes may share the record (containers of one run     *)
(* overlap in a migration).  A process may be restarted at any point, and   *)
(* any API call may fail.  Storages of one type are numbered as they are    *)
(* created; the default one without an ID is the alias __default__.         *)
(***************************************************************************)
EXTENDS Naturals, FiniteSets

CONSTANTS
  Processes, Tasks, ProcessOf, NoTask,
  Aliases,
  Predefined,   \* configuration.actor_storages: the storage of an alias, or 0
  DefaultId,    \* the configured default storage
  MaxCreated, MaxCalls, MaxFailures, MaxRestarts, MaxDrops  \* bounds

Storages == 1..MaxCreated
NoId == 0

ASSUME ResolvingAssumption ==
  /\ ProcessOf \in [Tasks -> Processes] /\ NoTask \notin Tasks
  /\ DefaultId \in Storages /\ Predefined \in [Aliases -> {NoId, DefaultId}]
  /\ {MaxCreated, MaxCalls, MaxFailures, MaxRestarts, MaxDrops} \subseteq Nat

VARIABLES
  is_at_home,
  existing,  \* storages the platform has
  created,   \* how many it ever had
  named,     \* the storage the platform has under a name, or NoId
  record,    \* __STORAGE_ALIASES_MAPPING in the default key-value store
  alias_map, loaded, lock,  \* _alias_map, _alias_map_loaded, _alias_init_lock of each process
  pc, op,    \* where each task is suspended; the alias, the ID and the record it read
  last,      \* history: what each process opened an alias as since it started
  ever,      \* history: what an alias was opened as last
  users,     \* history: processes that opened an alias
  calls, failures, restarts, drops

platform == <<existing, created, named>>
memory == <<alias_map, loaded>>
history == <<last, ever, users>>
bounds == <<calls, failures, restarts, drops>>
vars == <<is_at_home, platform, record, memory, lock, pc, op, history, bounds>>

NoAliases == [a \in Aliases |-> NoId]
NoOp == [alias |-> CHOOSE a \in Aliases : TRUE, id |-> NoId, seen |-> NoAliases]

Init ==
  /\ is_at_home \in BOOLEAN
  /\ existing = {DefaultId} /\ created = DefaultId /\ named = NoId
  /\ record = NoAliases
  /\ alias_map = [p \in Processes |-> NoAliases] /\ loaded = [p \in Processes |-> FALSE]
  /\ lock = [p \in Processes |-> NoTask]
  /\ pc = [t \in Tasks |-> "idle"] /\ op = [t \in Tasks |-> NoOp]
  /\ last = [p \in Processes |-> NoAliases] /\ ever = NoAliases
  /\ users = {}
  /\ calls = 0 /\ failures = 0 /\ restarts = 0 /\ drops = 0

Mine(t) == alias_map[ProcessOf[t]]

Goes(t, at, id) ==
  /\ pc' = [pc EXCEPT ![t] = at]
  /\ op' = [op EXCEPT ![t] = IF at = "idle" THEN NoOp ELSE [@ EXCEPT !.id = id]]

Call(t) == pc[t] = "idle" /\ calls < MaxCalls /\ calls' = calls + 1

Release(t) == lock' = [lock EXCEPT ![ProcessOf[t]] = NoTask]

(* get_or_create of a collection, without a name.                           *)
Creates(id) ==
  /\ created < MaxCreated
  /\ id = created + 1 /\ created' = id /\ existing' = existing \cup {id}
  /\ UNCHANGED named

-----------------------------------------------------------------------------
(* create_storage_api_client.                                               *)

OpenAlias(t) ==
  /\ Call(t)
  /\ \E a \in Aliases : op' = [op EXCEPT ![t] = [NoOp EXCEPT !.alias = a]]
  /\ pc' = [pc EXCEPT ![t] = "lock"]
  /\ UNCHANGED <<is_at_home, platform, record, memory, lock, history, failures, restarts, drops>>

OpenDefault(t) ==
  /\ Call(t)
  /\ Goes(t, IF DefaultId \in existing THEN "idle" ELSE "create_default", DefaultId)
  /\ UNCHANGED <<is_at_home, platform, record, memory, lock, history, failures, restarts, drops>>

(* A missing default storage is replaced, but not remembered.               *)
CreateDefault(t) ==
  /\ pc[t] = "create_default"
  /\ \E id \in Storages : Creates(id) /\ Goes(t, "idle", id)
  /\ UNCHANGED <<is_at_home, record, memory, lock, history, bounds>>

OpenNamed(t) ==
  /\ Call(t)
  /\ \/ named \in existing /\ Goes(t, "idle", named) /\ UNCHANGED platform
     \/ /\ named \notin existing /\ created < MaxCreated
        /\ created' = created + 1 /\ named' = created' /\ existing' = existing \cup {created'}
        /\ Goes(t, "idle", created')
  /\ UNCHANGED <<is_at_home, record, memory, lock, history, failures, restarts, drops>>

-----------------------------------------------------------------------------
(* open_by_alias.                                                           *)

(* With the ID in hand: does it exist?  Without one: create a storage.      *)
Looks(t, id) == Goes(t, IF id = NoId THEN "create" ELSE "get", id)

TakesAnyway(t) == TRUE

LockFree(t) == lock[ProcessOf[t]] = NoTask

(* resolve_id: the platform's own mapping first, then the memory, which is  *)
(* filled from the record the first time.                                   *)
Locked(t) ==
  /\ pc[t] = "lock" /\ LockFree(t)
  /\ lock' = [lock EXCEPT ![ProcessOf[t]] = t]
  /\ users' = users \cup {ProcessOf[t]}
  /\ IF Predefined[op[t].alias] # NoId THEN Looks(t, Predefined[op[t].alias])
     ELSE IF is_at_home /\ ~loaded[ProcessOf[t]] THEN Goes(t, "load", NoId)
     ELSE Looks(t, Mine(t)[op[t].alias])
  /\ UNCHANGED <<is_at_home, platform, record, memory, last, ever, bounds>>

Loaded(t) ==
  /\ pc[t] = "load"
  /\ alias_map' = [alias_map EXCEPT ![ProcessOf[t]] = record]
  /\ loaded' = [loaded EXCEPT ![ProcessOf[t]] = TRUE]
  /\ Looks(t, record[op[t].alias])
  /\ UNCHANGED <<is_at_home, platform, record, lock, history, bounds>>

Returns(t, id) ==
  /\ Goes(t, "idle", id) /\ Release(t)
  /\ last' = [last EXCEPT ![ProcessOf[t]][op[t].alias] = id]
  /\ ever' = [ever EXCEPT ![op[t].alias] = id]
  /\ UNCHANGED users

Got(t) ==
  /\ pc[t] = "get"
  /\ IF op[t].id \in existing THEN Returns(t, op[t].id)
     ELSE Goes(t, "create", NoId) /\ UNCHANGED <<lock, history>>
  /\ UNCHANGED <<is_at_home, platform, record, memory, bounds>>

Created(t) ==
  /\ pc[t] = "create"
  /\ \E id \in Storages :
       /\ Creates(id)
       /\ Goes(t, IF is_at_home /\ ~loaded[ProcessOf[t]] THEN "reload" ELSE "remember", id)
  /\ UNCHANGED <<is_at_home, record, memory, lock, history, bounds>>

LoadedToStore(t) ==
  /\ pc[t] = "reload"
  /\ alias_map' = [alias_map EXCEPT ![ProcessOf[t]] = record]
  /\ loaded' = [loaded EXCEPT ![ProcessOf[t]] = TRUE]
  /\ Goes(t, "remember", op[t].id)
  /\ UNCHANGED <<is_at_home, platform, record, lock, history, bounds>>

Remembers(t) == [Mine(t) EXCEPT ![op[t].alias] = op[t].id]

(* store_mapping: the memory first; on the platform the record, which is    *)
(* read again.                                                              *)
Remembered(t) ==
  /\ pc[t] = "remember"
  /\ alias_map' = [alias_map EXCEPT ![ProcessOf[t]] = Remembers(t)]
  /\ IF is_at_home THEN Goes(t, "read", op[t].id) /\ UNCHANGED <<lock, history>>
     ELSE Returns(t, op[t].id)
  /\ UNCHANGED <<is_at_home, platform, record, loaded, bounds>>

Read(t) ==
  /\ pc[t] = "read"
  /\ op' = [op EXCEPT ![t].seen = record] /\ pc' = [pc EXCEPT ![t] = "write"]
  /\ UNCHANGED <<is_at_home, platform, record, memory, lock, history, bounds>>

WritesAlone(t) == [NoAliases EXCEPT ![op[t].alias] = op[t].id]

Writes(t) == [op[t].seen EXCEPT ![op[t].alias] = op[t].id]

Written(t) ==
  /\ pc[t] = "write"
  /\ record' = Writes(t)
  /\ Returns(t, op[t].id)
  /\ UNCHANGED <<is_at_home, platform, memory, bounds>>

(* Failing to load, to look or to create raises; failing to store the       *)
(* mapping is logged, and the storage is returned.                          *)
FailsLocked(t) ==
  /\ failures < MaxFailures /\ failures' = failures + 1
  /\ \/ pc[t] \in {"load", "get", "create"} /\ Goes(t, "idle", NoId) /\ UNCHANGED <<lock, history>>
     \/ pc[t] \in {"read", "write"} /\ Returns(t, op[t].id)
  /\ UNCHANGED <<is_at_home, platform, record, memory, calls, restarts, drops>>

Fails(t) ==
  /\ failures < MaxFailures /\ failures' = failures + 1
  /\ \/ /\ pc[t] \in {"load", "get", "create", "reload"}
        /\ Goes(t, "idle", NoId) /\ Release(t) /\ UNCHANGED history
     \/ pc[t] \in {"read", "write"} /\ Returns(t, op[t].id)
  /\ UNCHANGED <<is_at_home, platform, record, memory, calls, restarts, drops>>

-----------------------------------------------------------------------------
(* The process is restarted, with the same default key-value store.         *)
Restart(p) ==
  /\ restarts < MaxRestarts /\ restarts' = restarts + 1
  /\ alias_map' = [alias_map EXCEPT ![p] = NoAliases] /\ loaded' = [loaded EXCEPT ![p] = FALSE]
  /\ lock' = [lock EXCEPT ![p] = NoTask]
  /\ pc' = [t \in Tasks |-> IF ProcessOf[t] = p THEN "idle" ELSE pc[t]]
  /\ last' = [last EXCEPT ![p] = NoAliases]
  /\ op' = [t \in Tasks |-> IF ProcessOf[t] = p THEN NoOp ELSE op[t]]
  /\ UNCHANGED <<is_at_home, platform, record, ever, users, calls, failures, drops>>

Drop(s) ==
  /\ s \in existing /\ existing' = existing \ {s}
  /\ drops < MaxDrops /\ drops' = drops + 1
  /\ UNCHANGED <<is_at_home, created, named, record, memory, lock, pc, op, history, calls, failures,
                 restarts>>

Resume(t) ==
  \/ CreateDefault(t) \/ Loaded(t) \/ Got(t) \/ Created(t) \/ LoadedToStore(t)
  \/ Remembered(t) \/ Read(t) \/ Written(t)

Next ==
  \/ \E t \in Tasks : OpenAlias(t) \/ OpenDefault(t) \/ OpenNamed(t) \/ Locked(t) \/ Resume(t) \/ Fails(t)
  \/ \E p \in Processes : Restart(p)
  \/ \E s \in existing : Drop(s)

Spec == Init /\ [][Next]_vars

-----------------------------------------------------------------------------
(* Properties.                                                              *)

TypeOK ==
  /\ is_at_home \in BOOLEAN
  /\ created \in Storages /\ existing \subseteq 1..created /\ named \in Storages \cup {NoId}
  /\ record \in [Aliases -> Storages \cup {NoId}]
  /\ alias_map \in [Processes -> [Aliases -> Storages \cup {NoId}]]
  /\ loaded \in [Processes -> BOOLEAN] /\ lock \in [Processes -> Tasks \cup {NoTask}]
  /\ op \in [Tasks -> [alias : Aliases, id : Storages \cup {NoId},
                       seen : [Aliases -> Storages \cup {NoId}]]]

(* t's opening of its alias returns a storage: it was found, or created,    *)
(* and nothing but storing the mapping failed.                              *)
Opens(t) ==
  /\ pc'[t] = "idle" /\ restarts' = restarts
  /\ \/ pc[t] = "get" /\ failures' = failures
     \/ pc[t] \in {"remember", "read", "write"}
Opened(t) == last'[ProcessOf[t]][op[t].alias]

(* The storage predefined for an alias was dropped: each opening makes a    *)
(* new one.                                                                 *)
Orphaned(a) == Predefined[a] # NoId /\ Predefined[a] \notin existing

(* While a process runs and the storage exists, an alias is that storage,   *)
(* whatever other tasks and processes open and whichever calls fail.        *)
AliasIsStable ==
  [][\A t \in Tasks : Opens(t) /\ ~Orphaned(op[t].alias) =>
       LET before == last[ProcessOf[t]][op[t].alias]
       IN  before \in existing => Opened(t) = before]_vars

(* On the platform it is that storage after a restart too, at whatever      *)
(* point the process was restarted, if nobody else shares the mapping and   *)
(* no call failed.                                                          *)
AliasSurvivesRestart ==
  [][\A t \in Tasks :
       /\ Opens(t) /\ ~Orphaned(op[t].alias)
       /\ is_at_home /\ failures = 0 /\ users = {ProcessOf[t]}
       => (ever[op[t].alias] \in existing => Opened(t) = ever[op[t].alias])]_vars

(* The lock is free, or a task is between taking and releasing it: no      *)
(* failure leaves it locked, which would block every later opening.         *)
LockIsHeld ==
  \A p \in Processes : lock[p] # NoTask =>
    ProcessOf[lock[p]] = p /\ pc[lock[p]] \notin {"idle", "lock", "create_default"}
=============================================================================
