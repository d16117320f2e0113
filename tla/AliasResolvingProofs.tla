------------------------ MODULE AliasResolvingProofs ------------------------
(***************************************************************************)
(* Proofs about AliasResolving, for any number of processes, tasks, aliases *)
(* and failures: the lock of a process is held by a task that resolves an   *)
(* alias, an alias stays the storage it was opened as, and on the platform  *)
(* a restart does not change that.                                          *)
(***************************************************************************)
EXTENDS AliasResolving, TLAPS

Places == {"idle", "create_default", "lock", "load", "get", "create", "reload", "remember",
           "read", "write"}

(* The places with the lock, those after a look that found nothing, and     *)
(* those where the memory has the new storage already.                      *)
Held == {"load", "get", "create", "reload", "remember", "read", "write"}
Making == {"create", "reload", "remember", "read", "write"}
Storing == {"read", "write"}

(* Every ID anybody has is that of a storage created before.                *)
Ids == 0..created

Op(n) == [alias : Aliases \cup {NoOp.alias}, id : 0..n, seen : [Aliases -> 0..n]]

TypeInv ==
  /\ created \in Nat /\ existing \subseteq 1..created /\ DefaultId <= created
  /\ record \in [Aliases -> Ids]
  /\ alias_map \in [Processes -> [Aliases -> Ids]]
  /\ loaded \in [Processes -> BOOLEAN]
  /\ lock \in [Processes -> Tasks \cup {NoTask}]
  /\ pc \in [Tasks -> Places]
  /\ op \in [Tasks -> Op(created)]
  /\ last \in [Processes -> [Aliases -> Ids]] /\ ever \in [Aliases -> Ids]
  /\ failures \in Nat /\ restarts \in Nat
  /\ \A t \in Tasks : pc[t] \in Held \cup {"lock"} => op[t].alias \in Aliases

(* A lock that is taken and the task that took it know of each other.       *)
LockInv ==
  /\ \A p \in Processes : lock[p] # NoTask => ProcessOf[lock[p]] = p /\ pc[lock[p]] \in Held
  /\ \A t \in Tasks : pc[t] \in Held => lock[ProcessOf[t]] = t

Unset(a) == Predefined[a] = NoId

Stores(p, a) ==
  \E t \in Tasks : ProcessOf[t] = p /\ pc[t] \in Storing /\ op[t].alias = a

(* What an alias was opened as is in the memory, except while it is being   *)
(* replaced; the record is loaded before, so loading forgets nothing.       *)
MemoryKnows(p, a) ==
  IF Unset(a)
  THEN /\ is_at_home /\ ~loaded[p] => last[p][a] = NoId
       /\ last[p][a] # NoId => alias_map[p][a] = last[p][a] \/ Stores(p, a)
  ELSE ~Orphaned(a) => last[p][a] \in {NoId, Predefined[a]}

MemoryInv == \A p \in Processes, a \in Aliases : MemoryKnows(p, a)

(* What the task that has the lock knows about its alias.                   *)
HolderKnows(t, p, a) ==
  /\ pc[t] \in {"load", "reload"} => is_at_home /\ ~loaded[p]
  /\ pc[t] = "load" => Unset(a)
  /\ pc[t] = "get" => op[t].id = IF Unset(a) THEN alias_map[p][a] ELSE Predefined[a]
  /\ pc[t] \in Making => IF Unset(a) THEN last[p][a] \notin existing ELSE Orphaned(a)
  /\ pc[t] \in Storing => is_at_home /\ alias_map[p][a] = op[t].id
  /\ is_at_home /\ Unset(a) /\ pc[t] \in {"get"} \cup Making => loaded[p]
  /\ is_at_home /\ pc[t] \in {"remember"} \cup Storing => loaded[p]

HolderInv ==
  \A t \in Tasks : pc[t] \in Held => HolderKnows(t, ProcessOf[t], op[t].alias)

(* While one process alone opens aliases and no call fails, the record has  *)
(* what they were opened as, and the memory has the record.                 *)
RecordKnows(p) ==
  /\ \A a \in Aliases : Unset(a) => record[a] = ever[a]
  /\ \A a \in Aliases : Unset(a) /\ loaded[p] => alias_map[p][a] = record[a] \/ Stores(p, a)
  /\ \A t \in Tasks : pc[t] = "write" => op[t].seen = record
  /\ \A t \in Tasks : pc[t] \in Making /\ Unset(op[t].alias) => ever[op[t].alias] \notin existing

EverKnows(a) == ~Unset(a) /\ ~Orphaned(a) => ever[a] \in {NoId, Predefined[a]}

RecordInv ==
  /\ \A t \in Tasks : pc[t] \in Held => ProcessOf[t] \in users
  /\ \A a \in Aliases : EverKnows(a)
  /\ \A p \in Processes : is_at_home /\ failures = 0 /\ users \subseteq {p} => RecordKnows(p)

-----------------------------------------------------------------------------
(* How a task that goes on changes its record of the opening.               *)
LEMMA NoOpType ==
  ASSUME NEW n \in Nat
  PROVE  NoOp \in Op(n) /\ NoAliases \in [Aliases -> 0..n]
<1>1. NoAliases \in [Aliases -> 0..n]
  BY DEF NoAliases, NoId
<1> DEFINE any == CHOOSE a \in Aliases : TRUE
<1> HIDE DEF any
<1>2. NoOp = [alias |-> any, id |-> NoId, seen |-> NoAliases]
  BY DEF NoOp, any
<1>3. NoOp.alias = any
  BY <1>2
<1>4. NoId \in 0..n
  BY DEF NoId
<1>5. NoOp \in [alias : Aliases \cup {NoOp.alias}, id : 0..n, seen : [Aliases -> 0..n]]
  BY <1>1, <1>2, <1>3, <1>4
<1> QED
  BY <1>1, <1>5 DEF Op

LEMMA Widens ==
  ASSUME NEW m \in Nat, NEW n \in Nat, m <= n
  PROVE  0..m \subseteq 0..n /\ Op(m) \subseteq Op(n)
BY DEF Op

LEMMA GoesType ==
  ASSUME NEW n \in Nat, pc \in [Tasks -> Places], op \in [Tasks -> Op(n)],
         NEW t \in Tasks, NEW at \in Places, NEW id \in 0..n, Goes(t, at, id)
  PROVE  pc' \in [Tasks -> Places] /\ op' \in [Tasks -> Op(n)]
<1>1. NoOp \in Op(n)
  BY NoOpType
<1>2. [op[t] EXCEPT !.id = id] \in Op(n)
  BY DEF Op
<1> HIDE DEF Op
<1>3. op' \in [Tasks -> Op(n)]
  BY <1>1, <1>2 DEF Goes
<1> QED
  BY <1>3 DEF Goes

LEMMA Going ==
  ASSUME TypeInv, NEW t \in Tasks, NEW at \in Places, NEW id, Goes(t, at, id)
  PROVE  /\ pc'[t] = at
         /\ at # "idle" => /\ op'[t].alias = op[t].alias /\ op'[t].id = id
                           /\ op'[t].seen = op[t].seen
         /\ \A u \in Tasks \ {t} : pc'[u] = pc[u] /\ op'[u] = op[u]
<1>1. op[t] \in Op(created) /\ op \in [Tasks -> Op(created)]
  BY DEF TypeInv
<1>2. pc'[t] = at /\ \A u \in Tasks \ {t} : pc'[u] = pc[u] /\ op'[u] = op[u]
  BY <1>1 DEF Goes, TypeInv
<1>3. ASSUME at # "idle" PROVE op'[t] = [op[t] EXCEPT !.id = id]
  BY <1>1, <1>3 DEF Goes
<1>4. ASSUME at # "idle"
      PROVE  op'[t].alias = op[t].alias /\ op'[t].id = id /\ op'[t].seen = op[t].seen
  BY <1>1, <1>3, <1>4 DEF Op
<1> QED
  BY <1>2, <1>4

-----------------------------------------------------------------------------
(* Types.                                                                   *)

(* A step of one task keeps the alias of whoever needs one.                 *)
AliasesKnown == \A t \in Tasks : pc[t] \in Held \cup {"lock"} => op[t].alias \in Aliases

LEMMA GoesKnown ==
  ASSUME TypeInv, NEW t \in Tasks, NEW at \in Places, NEW id, Goes(t, at, id),
         pc[t] \in Held \cup {"lock"} \/ at \in {"idle", "create_default"}
  PROVE  AliasesKnown'
<1>1. /\ pc'[t] = at
      /\ at # "idle" => op'[t].alias = op[t].alias
      /\ \A u \in Tasks \ {t} : pc'[u] = pc[u] /\ op'[u] = op[u]
  BY Going
<1>2. AliasesKnown
  BY DEF TypeInv, AliasesKnown
<1> QED
  BY <1>1, <1>2 DEF AliasesKnown, Held

(* A step that creates no storage.                                          *)
LEMMA TypeKept ==
  ASSUME TypeInv, UNCHANGED <<created>>, existing' \subseteq existing,
         record' \in [Aliases -> Ids], alias_map' \in [Processes -> [Aliases -> Ids]],
         loaded' \in [Processes -> BOOLEAN], lock' \in [Processes -> Tasks \cup {NoTask}],
         pc' \in [Tasks -> Places], op' \in [Tasks -> Op(created)],
         last' \in [Processes -> [Aliases -> Ids]], ever' \in [Aliases -> Ids],
         failures' \in Nat, restarts' \in Nat, AliasesKnown'
  PROVE  TypeInv'
<1>1. Ids' = Ids /\ Op(created') = Op(created)
  BY DEF Ids, Op
<1> QED
  BY <1>1 DEF TypeInv, AliasesKnown

(* A step that creates one.                                                 *)
LEMMA TypeWidened ==
  ASSUME TypeInv, created' = created + 1, existing' = existing \cup {created'},
         UNCHANGED <<record, alias_map, loaded, lock, last, ever, failures, restarts>>,
         pc' \in [Tasks -> Places], op' \in [Tasks -> Op(created')], AliasesKnown'
  PROVE  TypeInv'
<1>1. created \in Nat /\ created' \in Nat /\ Ids \subseteq Ids'
  BY DEF TypeInv, Ids
<1>2. existing' \subseteq 1..created' /\ DefaultId <= created'
  BY ResolvingAssumption DEF TypeInv, Storages
<1>3. /\ record' \in [Aliases -> Ids'] /\ alias_map' \in [Processes -> [Aliases -> Ids']]
      /\ last' \in [Processes -> [Aliases -> Ids']] /\ ever' \in [Aliases -> Ids']
  BY <1>1 DEF TypeInv
<1> QED
  BY <1>1, <1>2, <1>3 DEF TypeInv, AliasesKnown

LEMMA ReturnsType ==
  ASSUME TypeInv, NEW t \in Tasks, NEW id \in Ids, Returns(t, id), pc[t] \in Held
  PROVE  /\ pc' \in [Tasks -> Places] /\ op' \in [Tasks -> Op(created)] /\ AliasesKnown'
         /\ lock' \in [Processes -> Tasks \cup {NoTask}]
         /\ last' \in [Processes -> [Aliases -> Ids]] /\ ever' \in [Aliases -> Ids]
<1>1. ProcessOf[t] \in Processes /\ op[t].alias \in Aliases
  BY ResolvingAssumption DEF TypeInv
<1>2. Goes(t, "idle", id) /\ id \in 0..created /\ created \in Nat
  BY DEF Returns, Ids, TypeInv
<1>3. pc' \in [Tasks -> Places] /\ op' \in [Tasks -> Op(created)]
  BY <1>2, GoesType DEF Places, TypeInv
<1>4. AliasesKnown'
  BY <1>2, GoesKnown DEF Places
<1>5. lock' \in [Processes -> Tasks \cup {NoTask}]
  BY <1>1 DEF Returns, Release, TypeInv
<1>6. last' \in [Processes -> [Aliases -> Ids]] /\ ever' \in [Aliases -> Ids]
  BY <1>1 DEF Returns, TypeInv
<1> QED
  BY <1>3, <1>4, <1>5, <1>6

LEMMA TypeStep == TypeInv /\ [Next]_vars => TypeInv'
<1> SUFFICES ASSUME TypeInv, [Next]_vars PROVE TypeInv'
  OBVIOUS
<1> USE DEF platform, memory, history, bounds
<1>0. /\ created \in Nat /\ Ids = 0..created /\ NoId \in Ids
      /\ pc \in [Tasks -> Places] /\ op \in [Tasks -> Op(created)]
      /\ \A t \in Tasks : ProcessOf[t] \in Processes
      /\ \A t \in Tasks : op[t].id \in Ids /\ op[t].seen \in [Aliases -> Ids]
  BY ResolvingAssumption DEF TypeInv, Ids, NoId, Op
(* A step of t to a place with an ID, that changes nothing else but what is *)
(* shown to keep its type.                                                  *)
<1>1. ASSUME NEW t \in Tasks, NEW at \in Places, NEW id \in Ids, Goes(t, at, id),
             pc[t] \in Held \cup {"lock"} \/ at \in {"idle", "create_default"}
      PROVE  pc' \in [Tasks -> Places] /\ op' \in [Tasks -> Op(created)] /\ AliasesKnown'
  BY <1>0, <1>1, GoesType, GoesKnown
<1>2. ASSUME NEW t \in Tasks, NEW id \in Ids, Looks(t, id)
      PROVE  \E at \in {"get", "create"} : Goes(t, at, id)
  BY <1>2 DEF Looks
<1>3. ASSUME NEW t \in Tasks, OpenAlias(t) PROVE TypeInv'
  <2>1. PICK a \in Aliases : op' = [op EXCEPT ![t] = [NoOp EXCEPT !.alias = a]]
    BY <1>3 DEF OpenAlias
  <2>2. [NoOp EXCEPT !.alias = a] \in Op(created) /\ [NoOp EXCEPT !.alias = a].alias = a
    BY <1>0, NoOpType DEF Op
  <2> DEFINE new == [NoOp EXCEPT !.alias = a]
  <2> HIDE DEF new
  <2>3. op' = [op EXCEPT ![t] = new] /\ pc' = [pc EXCEPT ![t] = "lock"] /\ new.alias = a
    BY <1>3, <2>1, <2>2 DEF OpenAlias, new
  <2>4. op' \in [Tasks -> Op(created)] /\ pc' \in [Tasks -> Places]
    BY <1>0, <2>2, <2>3 DEF Places, new
  <2>5. op'[t].alias = a /\ \A u \in Tasks \ {t} : op'[u] = op[u] /\ pc'[u] = pc[u]
    BY <1>0, <2>3
  <2>6. AliasesKnown'
    BY <2>5 DEF AliasesKnown, TypeInv
  <2> QED
    BY <1>3, <2>4, <2>6, TypeKept DEF OpenAlias, TypeInv
<1>4. ASSUME NEW t \in Tasks, OpenDefault(t) PROVE TypeInv'
  <2>1. PICK at \in {"idle", "create_default"} : Goes(t, at, DefaultId)
    BY <1>4 DEF OpenDefault
  <2>2. DefaultId \in Ids
    BY ResolvingAssumption DEF TypeInv, Ids, Storages
  <2>3. pc' \in [Tasks -> Places] /\ op' \in [Tasks -> Op(created)] /\ AliasesKnown'
    BY <1>1, <2>1, <2>2 DEF Places
  <2> QED
    BY <1>4, <2>3, TypeKept DEF OpenDefault, TypeInv
<1>5. ASSUME NEW t \in Tasks, CreateDefault(t) PROVE TypeInv'
  <2>1. created' = created + 1 /\ existing' = existing \cup {created'} /\ created' \in Nat
        /\ Goes(t, "idle", created')
    BY <1>0, <1>5 DEF CreateDefault, Creates
  <2>2. created' \in 0..created' /\ op \in [Tasks -> Op(created')]
    BY <1>0, <2>1, Widens
  <2>3. pc' \in [Tasks -> Places] /\ op' \in [Tasks -> Op(created')] /\ AliasesKnown'
    BY <1>0, <2>1, <2>2, GoesType, GoesKnown DEF Places
  <2> QED
    BY <1>5, <2>1, <2>3, TypeWidened DEF CreateDefault
<1>6. ASSUME NEW t \in Tasks, OpenNamed(t) PROVE TypeInv'
  <2>1. CASE named \in existing /\ Goes(t, "idle", named) /\ UNCHANGED platform
    <3>1. named \in Ids
      BY <2>1 DEF TypeInv, Ids
    <3>2. pc' \in [Tasks -> Places] /\ op' \in [Tasks -> Op(created)] /\ AliasesKnown'
      BY <1>1, <2>1, <3>1 DEF Places
    <3> QED
      BY <1>6, <2>1, <3>2, TypeKept DEF OpenNamed, TypeInv
  <2>2. CASE created' = created + 1 /\ existing' = existing \cup {created'}
             /\ Goes(t, "idle", created')
    <3>1. created' \in 0..created' /\ op \in [Tasks -> Op(created')] /\ created' \in Nat
      BY <1>0, <2>2, Widens
    <3>2. pc' \in [Tasks -> Places] /\ op' \in [Tasks -> Op(created')] /\ AliasesKnown'
      BY <1>0, <2>2, <3>1, GoesType, GoesKnown DEF Places
    <3> QED
      BY <1>6, <2>2, <3>2, TypeWidened DEF OpenNamed
  <2> QED
    BY <1>6, <2>1, <2>2 DEF OpenNamed
<1>7. ASSUME NEW t \in Tasks, Locked(t) PROVE TypeInv'
  <2>1. PICK at \in {"load", "get", "create"}, id \in Ids : Goes(t, at, id)
    <3>1. op[t].alias \in Aliases
      BY <1>7 DEF Locked, TypeInv
    <3>2. Mine(t)[op[t].alias] \in Ids
      BY <1>0, <3>1 DEF Mine, TypeInv
    <3>3. Predefined[op[t].alias] \in Ids
      <4>1. DefaultId \in Nat
        BY ResolvingAssumption DEF Storages
      <4>2. DefaultId \in Ids
        BY <4>1 DEF TypeInv, Ids
      <4> QED
        BY <1>0, <3>1, <4>2, ResolvingAssumption
    <3> QED
      BY <1>0, <1>2, <1>7, <3>2, <3>3 DEF Locked
  <2>2. pc' \in [Tasks -> Places] /\ op' \in [Tasks -> Op(created)] /\ AliasesKnown'
    BY <1>1, <1>7, <2>1 DEF Places, Locked
  <2>3. lock' \in [Processes -> Tasks \cup {NoTask}]
    BY <1>0, <1>7 DEF Locked, TypeInv
  <2> QED
    BY <1>7, <2>2, <2>3, TypeKept DEF Locked, TypeInv
<1>8. ASSUME NEW t \in Tasks, Loaded(t) PROVE TypeInv'
  <2>1. record[op[t].alias] \in Ids
    BY <1>8 DEF Loaded, TypeInv, Held
  <2>2. PICK at \in {"get", "create"} : Goes(t, at, record[op[t].alias])
    BY <1>2, <1>8, <2>1 DEF Loaded
  <2>3. pc' \in [Tasks -> Places] /\ op' \in [Tasks -> Op(created)] /\ AliasesKnown'
    BY <1>1, <1>8, <2>1, <2>2 DEF Places, Held, Loaded
  <2>4. alias_map' \in [Processes -> [Aliases -> Ids]] /\ loaded' \in [Processes -> BOOLEAN]
    BY <1>8 DEF Loaded, TypeInv
  <2> QED
    BY <1>8, <2>3, <2>4, TypeKept DEF Loaded, TypeInv
<1>9. ASSUME NEW t \in Tasks, Got(t) PROVE TypeInv'
  <2>1. CASE Returns(t, op[t].id)
    BY <1>0, <1>9, <2>1, ReturnsType, TypeKept DEF Got, Held, TypeInv
  <2>2. CASE Goes(t, "create", NoId) /\ UNCHANGED <<lock, history>>
    <3>1. pc' \in [Tasks -> Places] /\ op' \in [Tasks -> Op(created)] /\ AliasesKnown'
      BY <1>0, <1>1, <1>9, <2>2 DEF Places, Held, Got
    <3> QED
      BY <1>9, <2>2, <3>1, TypeKept DEF Got, TypeInv
  <2> QED
    BY <1>9, <2>1, <2>2 DEF Got
<1>10. ASSUME NEW t \in Tasks, Created(t) PROVE TypeInv'
  <2>1. PICK at \in {"reload", "remember"} :
          created' = created + 1 /\ existing' = existing \cup {created'} /\ Goes(t, at, created')
    BY <1>0, <1>10 DEF Created, Creates
  <2>2. created' \in 0..created' /\ op \in [Tasks -> Op(created')] /\ created' \in Nat
    BY <1>0, <2>1, Widens
  <2>3. pc' \in [Tasks -> Places] /\ op' \in [Tasks -> Op(created')] /\ AliasesKnown'
    BY <1>0, <1>10, <2>1, <2>2, GoesType, GoesKnown DEF Places, Held, Created
  <2> QED
    BY <1>10, <2>1, <2>3, TypeWidened DEF Created
<1>11. ASSUME NEW t \in Tasks, LoadedToStore(t) PROVE TypeInv'
  <2>1. pc' \in [Tasks -> Places] /\ op' \in [Tasks -> Op(created)] /\ AliasesKnown'
    BY <1>0, <1>1, <1>11 DEF Places, Held, LoadedToStore
  <2>2. alias_map' \in [Processes -> [Aliases -> Ids]] /\ loaded' \in [Processes -> BOOLEAN]
    BY <1>11 DEF LoadedToStore, TypeInv
  <2> QED
    BY <1>11, <2>1, <2>2, TypeKept DEF LoadedToStore, TypeInv
<1>12. ASSUME NEW t \in Tasks, Remembered(t) PROVE TypeInv'
  <2>1. alias_map' \in [Processes -> [Aliases -> Ids]]
    BY <1>0, <1>12 DEF Remembered, Remembers, Mine, TypeInv
  <2>2. CASE Goes(t, "read", op[t].id) /\ UNCHANGED <<lock, history>>
    <3>1. pc' \in [Tasks -> Places] /\ op' \in [Tasks -> Op(created)] /\ AliasesKnown'
      BY <1>0, <1>1, <1>12, <2>2 DEF Places, Held, Remembered
    <3> QED
      BY <1>12, <2>1, <2>2, <3>1, TypeKept DEF Remembered, TypeInv
  <2>3. CASE Returns(t, op[t].id)
    BY <1>0, <1>12, <2>1, <2>3, ReturnsType, TypeKept DEF Remembered, Held, TypeInv
  <2> QED
    BY <1>12, <2>2, <2>3 DEF Remembered
<1>13. ASSUME NEW t \in Tasks, Read(t) PROVE TypeInv'
  <2> DEFINE new == [op[t] EXCEPT !.seen = record]
  <2>1. op' = [op EXCEPT ![t] = new] /\ pc' = [pc EXCEPT ![t] = "write"]
    BY <1>13 DEF Read
  <2>2. new \in Op(created) /\ new.alias = op[t].alias
    BY <1>0 DEF Op, TypeInv, Ids
  <2> HIDE DEF new
  <2>3. op' \in [Tasks -> Op(created)] /\ pc' \in [Tasks -> Places]
    BY <1>0, <2>1, <2>2 DEF Places
  <2>4. op'[t].alias = op[t].alias /\ \A u \in Tasks \ {t} : op'[u] = op[u] /\ pc'[u] = pc[u]
    BY <1>0, <2>1, <2>2
  <2>5. AliasesKnown'
    BY <1>13, <2>4 DEF AliasesKnown, TypeInv, Read, Held
  <2> QED
    BY <1>13, <2>3, <2>5, TypeKept DEF Read, TypeInv
<1>14. ASSUME NEW t \in Tasks, Written(t) PROVE TypeInv'
  <2>1. record' \in [Aliases -> Ids]
    BY <1>0, <1>14 DEF Written, Writes
  <2> QED
    BY <1>0, <1>14, <2>1, ReturnsType, TypeKept DEF Written, Held, TypeInv
<1>15. ASSUME NEW t \in Tasks, Fails(t) PROVE TypeInv'
  <2>1. failures' \in Nat
    BY <1>15 DEF Fails, TypeInv
  <2>2. CASE pc[t] \in Held /\ Goes(t, "idle", NoId) /\ Release(t) /\ UNCHANGED history
    <3>1. pc' \in [Tasks -> Places] /\ op' \in [Tasks -> Op(created)] /\ AliasesKnown'
      BY <1>0, <1>1, <2>2 DEF Places
    <3>2. lock' \in [Processes -> Tasks \cup {NoTask}]
      BY <1>0, <2>2 DEF Release, TypeInv
    <3> QED
      BY <1>15, <2>1, <2>2, <3>1, <3>2, TypeKept DEF Fails, TypeInv
  <2>3. CASE pc[t] \in Held /\ Returns(t, op[t].id)
    BY <1>0, <1>15, <2>1, <2>3, ReturnsType, TypeKept DEF Fails, TypeInv
  <2> QED
    BY <1>15, <2>2, <2>3 DEF Fails, Held
<1>16. ASSUME NEW p \in Processes, Restart(p) PROVE TypeInv'
  <2>1. NoOp \in Op(created) /\ NoAliases \in [Aliases -> Ids]
    BY <1>0, NoOpType
  <2>2. /\ alias_map' \in [Processes -> [Aliases -> Ids]] /\ loaded' \in [Processes -> BOOLEAN]
        /\ lock' \in [Processes -> Tasks \cup {NoTask}]
        /\ last' \in [Processes -> [Aliases -> Ids]] /\ restarts' \in Nat
    BY <1>16, <2>1 DEF Restart, TypeInv
  <2>3. pc' \in [Tasks -> Places] /\ op' \in [Tasks -> Op(created)]
    BY <1>0, <1>16, <2>1 DEF Restart, Places
  <2>4. \A t \in Tasks : pc'[t] # "idle" => pc'[t] = pc[t] /\ op'[t] = op[t]
    BY <1>16 DEF Restart
  <2>5. AliasesKnown'
    BY <2>4 DEF AliasesKnown, TypeInv, Held
  <2> QED
    BY <1>16, <2>2, <2>3, <2>5, TypeKept DEF Restart, TypeInv
<1>17. ASSUME NEW s \in existing, Drop(s) PROVE TypeInv'
  BY <1>17, TypeKept DEF Drop, TypeInv, AliasesKnown
<1>18. CASE UNCHANGED vars
  BY <1>18, TypeKept DEF vars, TypeInv, AliasesKnown
<1> QED
  BY <1>3, <1>4, <1>5, <1>6, <1>7, <1>8, <1>9, <1>10, <1>11, <1>12, <1>13, <1>14, <1>15, <1>16,
     <1>17, <1>18 DEF Next, Resume
-----------------------------------------------------------------------------
(* The lock.                                                                *)

(* Whoever has the lock is the only one of its process between taking and   *)
(* releasing it.                                                            *)
LEMMA OneHolds ==
  ASSUME TypeInv, LockInv, NEW t \in Tasks, NEW u \in Tasks,
         pc[t] \in Held, pc[u] \in Held, ProcessOf[u] = ProcessOf[t]
  PROVE  u = t
BY DEF LockInv

LEMMA NobodyHolds ==
  ASSUME TypeInv, LockInv, NEW p \in Processes, lock[p] = NoTask,
         NEW u \in Tasks, ProcessOf[u] = p
  PROVE  pc[u] \notin Held
BY ResolvingAssumption DEF LockInv

(* The steps that leave every lock as it is.                                *)
LEMMA LockKept ==
  ASSUME TypeInv, LockInv, UNCHANGED lock,
         \A u \in Tasks : pc'[u] \in Held <=> pc[u] \in Held
  PROVE  LockInv'
BY DEF LockInv, TypeInv

LEMMA GoesOnHolding ==
  ASSUME TypeInv, LockInv, NEW t \in Tasks, NEW at \in Places, NEW id, Goes(t, at, id),
         pc[t] \in Held <=> at \in Held, UNCHANGED lock
  PROVE  LockInv'
<1>1. pc'[t] = at /\ \A u \in Tasks \ {t} : pc'[u] = pc[u]
  BY Going
<1> QED
  BY <1>1, LockKept

(* The step that releases one.                                              *)
LEMMA Released ==
  ASSUME TypeInv, LockInv, NEW t \in Tasks, NEW id, Goes(t, "idle", id), Release(t),
         pc[t] \in Held
  PROVE  LockInv'
<1>1. pc'[t] = "idle" /\ \A u \in Tasks \ {t} : pc'[u] = pc[u]
  BY Going DEF Places
<1>2. ProcessOf[t] \in Processes /\ lock[ProcessOf[t]] = t
  BY ResolvingAssumption DEF LockInv
<1>3. lock' = [lock EXCEPT ![ProcessOf[t]] = NoTask]
  BY DEF Release
<1>4. ASSUME NEW p \in Processes, lock'[p] # NoTask
      PROVE  ProcessOf[lock'[p]] = p /\ pc'[lock'[p]] \in Held
  <2>1. p # ProcessOf[t] /\ lock'[p] = lock[p]
    BY <1>2, <1>3, <1>4 DEF TypeInv
  <2>2. lock[p] \in Tasks /\ lock[p] # t
    BY <1>4, <2>1 DEF TypeInv, LockInv
  <2> QED
    BY <1>1, <1>4, <2>1, <2>2 DEF LockInv
<1>5. ASSUME NEW u \in Tasks, pc'[u] \in Held PROVE lock'[ProcessOf[u]] = u
  <2>1. u # t /\ pc[u] \in Held
    BY <1>1, <1>5 DEF Held
  <2>2. lock[ProcessOf[u]] = u /\ ProcessOf[u] \in Processes
    BY <2>1, ResolvingAssumption DEF LockInv
  <2> QED
    BY <1>2, <1>3, <2>1, <2>2 DEF TypeInv
<1> QED
  BY <1>4, <1>5 DEF LockInv

(* Looking goes on to one of two places.                                    *)
LEMMA LooksAt ==
  ASSUME NEW t \in Tasks, NEW id, Looks(t, id)
  PROVE  \E at \in {"get", "create"} : Goes(t, at, id) /\ (at = "create" <=> id = NoId)
<1>1. CASE id = NoId
  BY <1>1 DEF Looks
<1>2. CASE id # NoId
  BY <1>2 DEF Looks
<1> QED
  BY <1>1, <1>2

(* Taking the lock, and what is known then of where the task looks.         *)
LEMMA LockedGoes ==
  ASSUME TypeInv, NEW t \in Tasks, Locked(t), NEW p, p = ProcessOf[t], NEW a, a = op[t].alias
  PROVE  \E at \in {"load", "get", "create"}, id \in {NoId, alias_map[p][a], Predefined[a]} :
           /\ Goes(t, at, id)
           /\ at = "load" => is_at_home /\ ~loaded[p] /\ Unset(a)
           /\ at # "load" => id = IF Unset(a) THEN alias_map[p][a] ELSE Predefined[a]
           /\ at = "create" => id = NoId
           /\ at # "load" /\ Unset(a) /\ is_at_home => loaded[p]
<1> USE DEF Locked, Unset, Mine
<1>1. CASE Predefined[a] # NoId
  <2>1. Looks(t, Predefined[a])
    BY <1>1
  <2> QED
    BY <1>1, <2>1, LooksAt
<1>2. CASE Predefined[a] = NoId /\ is_at_home /\ ~loaded[p]
  BY <1>2
<1>3. CASE Predefined[a] = NoId /\ ~(is_at_home /\ ~loaded[p])
  <2>1. Looks(t, alias_map[p][a])
    BY <1>3
  <2> QED
    BY <1>3, <2>1, LooksAt
<1> QED
  BY <1>1, <1>2, <1>3

LEMMA LockStep == TypeInv /\ LockInv /\ [Next]_vars => LockInv'
<1> SUFFICES ASSUME TypeInv, LockInv, [Next]_vars PROVE LockInv'
  OBVIOUS
<1>1. ASSUME NEW t \in Tasks, OpenAlias(t) PROVE LockInv'
  <2>1. \A u \in Tasks : pc'[u] \in Held <=> pc[u] \in Held
    BY <1>1 DEF OpenAlias, Call, TypeInv, Held
  <2> QED
    BY <1>1, <2>1, LockKept DEF OpenAlias
<1>2. ASSUME NEW t \in Tasks, OpenDefault(t) PROVE LockInv'
  <2>1. PICK at \in {"idle", "create_default"} : Goes(t, at, DefaultId)
    BY <1>2 DEF OpenDefault
  <2> QED
    BY <1>2, <2>1, GoesOnHolding DEF OpenDefault, Call, Places, Held
<1>3. ASSUME NEW t \in Tasks, CreateDefault(t) PROVE LockInv'
  <2>1. PICK id \in Storages : Goes(t, "idle", id)
    BY <1>3 DEF CreateDefault
  <2> QED
    BY <1>3, <2>1, GoesOnHolding DEF CreateDefault, Places, Held
<1>4. ASSUME NEW t \in Tasks, OpenNamed(t) PROVE LockInv'
  <2>1. PICK id : Goes(t, "idle", id)
    BY <1>4 DEF OpenNamed
  <2> QED
    BY <1>4, <2>1, GoesOnHolding DEF OpenNamed, Call, Places, Held
<1>5. ASSUME NEW t \in Tasks, Locked(t) PROVE LockInv'
  <2>1. PICK at \in {"load", "get", "create"}, id \in {NoId, alias_map[ProcessOf[t]][op[t].alias],
                                                       Predefined[op[t].alias]} : Goes(t, at, id)
    BY <1>5, LockedGoes
  <2>2. pc'[t] = at /\ \A u \in Tasks \ {t} : pc'[u] = pc[u]
    BY <2>1, Going DEF Places
  <2>3. lock' = [lock EXCEPT ![ProcessOf[t]] = t] /\ lock[ProcessOf[t]] = NoTask /\ pc[t] = "lock"
    BY <1>5 DEF Locked, LockFree
  <2>4. ProcessOf[t] \in Processes
    BY ResolvingAssumption
  <2>5. ASSUME NEW u \in Tasks, pc'[u] \in Held, u # t
        PROVE  lock[ProcessOf[u]] = u /\ ProcessOf[u] # ProcessOf[t]
    BY <2>2, <2>3, <2>4, <2>5, NobodyHolds DEF LockInv
  <2>6. ASSUME NEW u \in Tasks, pc'[u] \in Held PROVE lock'[ProcessOf[u]] = u
    BY <2>3, <2>4, <2>5, <2>6 DEF TypeInv
  <2>7. ASSUME NEW p \in Processes, lock'[p] # NoTask
        PROVE  ProcessOf[lock'[p]] = p /\ pc'[lock'[p]] \in Held
    <3>1. CASE p = ProcessOf[t]
      BY <2>1, <2>2, <2>3, <2>4, <3>1 DEF TypeInv, Held
    <3>2. CASE p # ProcessOf[t]
      <4>1. lock'[p] = lock[p] /\ lock[p] \in Tasks
        BY <2>3, <2>7, <3>2 DEF TypeInv
      <4>2. ProcessOf[lock[p]] = p /\ pc[lock[p]] \in Held /\ lock[p] # t
        BY <2>7, <3>2, <4>1 DEF LockInv
      <4> QED
        BY <2>2, <4>1, <4>2
    <3> QED
      BY <3>1, <3>2
  <2> QED
    BY <2>6, <2>7 DEF LockInv
<1>6. ASSUME NEW t \in Tasks, Loaded(t) PROVE LockInv'
  <2>1. PICK at \in {"get", "create"} : Goes(t, at, record[op[t].alias])
    BY <1>6, LooksAt DEF Loaded
  <2> QED
    BY <1>6, <2>1, GoesOnHolding DEF Loaded, Places, Held
<1>7. ASSUME NEW t \in Tasks, Got(t) PROVE LockInv'
  <2>1. CASE Returns(t, op[t].id)
    BY <1>7, <2>1, Released DEF Got, Returns, Held
  <2>2. CASE Goes(t, "create", NoId) /\ UNCHANGED lock
    BY <1>7, <2>2, GoesOnHolding DEF Got, Places, Held
  <2> QED
    BY <1>7, <2>1, <2>2 DEF Got
<1>8. ASSUME NEW t \in Tasks, Created(t) PROVE LockInv'
  <2>1. PICK at \in {"reload", "remember"}, id \in Storages : Goes(t, at, id)
    BY <1>8 DEF Created
  <2> QED
    BY <1>8, <2>1, GoesOnHolding DEF Created, Places, Held
<1>9. ASSUME NEW t \in Tasks, LoadedToStore(t) PROVE LockInv'
  BY <1>9, GoesOnHolding DEF LoadedToStore, Places, Held
<1>10. ASSUME NEW t \in Tasks, Remembered(t) PROVE LockInv'
  <2>1. CASE Returns(t, op[t].id)
    BY <1>10, <2>1, Released DEF Remembered, Returns, Held
  <2>2. CASE Goes(t, "read", op[t].id) /\ UNCHANGED lock
    BY <1>10, <2>2, GoesOnHolding DEF Remembered, Places, Held
  <2> QED
    BY <1>10, <2>1, <2>2 DEF Remembered
<1>11. ASSUME NEW t \in Tasks, Read(t) PROVE LockInv'
  <2>1. \A u \in Tasks : pc'[u] \in Held <=> pc[u] \in Held
    BY <1>11 DEF Read, TypeInv, Held
  <2> QED
    BY <1>11, <2>1, LockKept DEF Read
<1>12. ASSUME NEW t \in Tasks, Written(t) PROVE LockInv'
  BY <1>12, Released DEF Written, Returns, Held
<1>13. ASSUME NEW t \in Tasks, Fails(t) PROVE LockInv'
  BY <1>13, Released DEF Fails, Returns, Held
<1>14. ASSUME NEW p \in Processes, Restart(p) PROVE LockInv'
  <2>1. /\ lock' = [lock EXCEPT ![p] = NoTask]
        /\ \A u \in Tasks : pc'[u] = IF ProcessOf[u] = p THEN "idle" ELSE pc[u]
    BY <1>14 DEF Restart
  <2>2. ASSUME NEW u \in Tasks, pc'[u] \in Held PROVE lock'[ProcessOf[u]] = u
    <3>1. ProcessOf[u] # p /\ pc[u] \in Held /\ ProcessOf[u] \in Processes
      BY <2>1, <2>2, ResolvingAssumption DEF Held
    <3> QED
      BY <2>1, <3>1 DEF LockInv, TypeInv
  <2>3. ASSUME NEW q \in Processes, lock'[q] # NoTask
        PROVE  ProcessOf[lock'[q]] = q /\ pc'[lock'[q]] \in Held
    <3>1. q # p /\ lock'[q] = lock[q] /\ lock[q] \in Tasks
      BY <2>1, <2>3 DEF TypeInv
    <3> QED
      BY <2>1, <2>3, <3>1 DEF LockInv
  <2> QED
    BY <2>2, <2>3 DEF LockInv
<1>15. ASSUME NEW s \in existing, Drop(s) PROVE LockInv'
  BY <1>15, LockKept DEF Drop
<1>16. CASE UNCHANGED vars
  BY <1>16, LockKept DEF vars
<1> USE DEF platform, memory, history, bounds
<1> QED
  BY <1>1, <1>2, <1>3, <1>4, <1>5, <1>6, <1>7, <1>8, <1>9, <1>10, <1>11, <1>12, <1>13, <1>14,
     <1>15, <1>16 DEF Next, Resume
-----------------------------------------------------------------------------
(* What the memory, the record and whoever has the lock know.               *)
Knows == MemoryInv /\ HolderInv /\ RecordInv

(* Facts about IDs: what was created later is none of the IDs known before, *)
(* and no storage comes back.                                               *)
Fresh == \A s \in existing' : s \in Ids => s \in existing

LEMMA OrphansStay ==
  ASSUME TypeInv, Fresh, NEW a \in Aliases, Orphaned(a)
  PROVE  Orphaned(a)'
<1>1. DefaultId \in Nat /\ Predefined[a] \in {NoId, DefaultId}
  BY ResolvingAssumption DEF Storages
<1>2. Predefined[a] \in Ids
  BY <1>1 DEF Ids, TypeInv, NoId
<1> QED
  BY <1>2 DEF Orphaned, Fresh

(* Steps of tasks that have no lock and take none, and of the platform.     *)
LEMMA QuietStep ==
  ASSUME TypeInv, Knows, Fresh, UNCHANGED <<is_at_home, record, memory, history, failures>>,
         \A u \in Tasks : pc[u] \in Held \/ pc'[u] \in Held => pc'[u] = pc[u] /\ op'[u] = op[u]
  PROVE  Knows'
<1> USE DEF Knows, memory, history
<1>1. \A p \in Processes, a \in Aliases : Stores(p, a) => Stores(p, a)'
  BY DEF Stores, Storing, Held
<1>2. \A a \in Aliases : Orphaned(a) => Orphaned(a)'
  BY OrphansStay
<1>3. MemoryInv'
  BY <1>1, <1>2 DEF MemoryInv, MemoryKnows, Unset
<1>4. ASSUME NEW u \in Tasks, pc'[u] \in Held PROVE HolderKnows(u, ProcessOf[u], op[u].alias)'
  <2>1. pc'[u] = pc[u] /\ op'[u] = op[u] /\ pc[u] \in Held
    BY <1>4
  <2>2. HolderKnows(u, ProcessOf[u], op[u].alias)
    BY <2>1 DEF HolderInv
  <2>3. op[u].alias \in Aliases /\ ProcessOf[u] \in Processes
    BY <2>1, ResolvingAssumption DEF TypeInv
  <2>4. last[ProcessOf[u]][op[u].alias] \in Ids
    BY <2>3 DEF TypeInv
  <2>5. last[ProcessOf[u]][op[u].alias] \notin existing
          => last[ProcessOf[u]][op[u].alias] \notin existing'
    BY <2>4 DEF Fresh
  <2> QED
    BY <1>2, <2>1, <2>2, <2>3, <2>5 DEF HolderKnows, Unset
<1>5. HolderInv'
  BY <1>4 DEF HolderInv
<1>6. ASSUME NEW p \in Processes, RecordKnows(p) PROVE RecordKnows(p)'
  <2>1. ASSUME NEW u \in Tasks, pc'[u] \in Making, Unset(op'[u].alias)
        PROVE  ever'[op'[u].alias] \notin existing'
    <3>1. pc'[u] = pc[u] /\ op'[u] = op[u] /\ op[u].alias \in Aliases
      BY <2>1 DEF Held, Making, TypeInv
    <3>2. ever[op[u].alias] \in Ids /\ ever[op[u].alias] \notin existing
      BY <1>6, <2>1, <3>1 DEF RecordKnows, TypeInv
    <3> QED
      BY <3>1, <3>2 DEF Fresh
  <2>2. \A u \in Tasks : pc'[u] = "write" => pc[u] = "write" /\ op'[u] = op[u]
    BY DEF Held
  <2> QED
    BY <1>1, <1>6, <2>1, <2>2 DEF RecordKnows, Unset
<1>7. RecordInv'
  BY <1>2, <1>6 DEF RecordInv, EverKnows, Unset
<1> QED
  BY <1>3, <1>5, <1>7
(* Steps of the task t that has the lock of p: the others stay as they are, *)
(* so that it is enough to show what is known about p and to t.             *)
LEMMA OthersKnow ==
  ASSUME TypeInv, HolderInv, Fresh, UNCHANGED is_at_home, NEW t \in Tasks,
         NEW u \in Tasks \ {t}, pc'[u] \in Held, ProcessOf[u] # ProcessOf[t],
         pc'[u] = pc[u], op'[u] = op[u],
         \A q \in Processes \ {ProcessOf[t]} :
           alias_map'[q] = alias_map[q] /\ loaded'[q] = loaded[q] /\ last'[q] = last[q]
  PROVE  HolderKnows(u, ProcessOf[u], op[u].alias)'
<1>1. HolderKnows(u, ProcessOf[u], op[u].alias)
  BY DEF HolderInv
<1>2. op[u].alias \in Aliases /\ ProcessOf[u] \in Processes \ {ProcessOf[t]}
  BY ResolvingAssumption DEF TypeInv
<1>3. last[ProcessOf[u]][op[u].alias] \in Ids
  BY <1>2 DEF TypeInv
<1>4. last[ProcessOf[u]][op[u].alias] \notin existing
        => last[ProcessOf[u]][op[u].alias] \notin existing'
  BY <1>3 DEF Fresh
<1>5. Orphaned(op[u].alias) => Orphaned(op[u].alias)'
  BY <1>2, OrphansStay
<1>6. Orphaned(op[u].alias) => Predefined[op[u].alias] \notin existing'
  BY <1>5 DEF Orphaned
<1>7. /\ alias_map'[ProcessOf[u]] = alias_map[ProcessOf[u]]
      /\ loaded'[ProcessOf[u]] = loaded[ProcessOf[u]]
      /\ last'[ProcessOf[u]] = last[ProcessOf[u]]
  BY <1>2
<1> QED
  BY <1>1, <1>4, <1>6, <1>7 DEF HolderKnows, Unset, Orphaned

LEMMA ActiveStep ==
  ASSUME TypeInv, Knows, Fresh, UNCHANGED is_at_home,
         NEW t \in Tasks, NEW p \in Processes, p = ProcessOf[t],
         \A u \in Tasks \ {t} : pc'[u] = pc[u] /\ op'[u] = op[u],
         \A u \in Tasks \ {t} : pc[u] \in Held => ProcessOf[u] # p,
         \A q \in Processes \ {p} :
           alias_map'[q] = alias_map[q] /\ loaded'[q] = loaded[q] /\ last'[q] = last[q],
         pc'[t] \in Held => HolderKnows(t, p, op[t].alias)',
         \A b \in Aliases : MemoryKnows(p, b)' /\ EverKnows(b)',
         users \subseteq users', p \in users',
         is_at_home /\ failures' = 0 /\ (\A u \in Tasks \ {t} : pc'[u] \notin Held)
           /\ users' \subseteq {p} => RecordKnows(p)'
  PROVE  Knows'
<1> USE DEF Knows
<1>1. HolderInv'
  <2> SUFFICES ASSUME NEW u \in Tasks, pc'[u] \in Held
               PROVE  HolderKnows(u, ProcessOf[u], op[u].alias)'
    BY DEF HolderInv
  <2>1. CASE u = t
    BY <2>1
  <2>2. CASE u # t
    BY <2>2, OthersKnow
  <2> QED
    BY <2>1, <2>2
<1>2. MemoryInv'
  <2> SUFFICES ASSUME NEW q \in Processes, NEW b \in Aliases PROVE MemoryKnows(q, b)'
    BY DEF MemoryInv
  <2>1. CASE q = p
    BY <2>1
  <2>2. CASE q # p
    <3>1. Stores(q, b) => Stores(q, b)'
      BY <2>2 DEF Stores
    <3>2. Orphaned(b) => Orphaned(b)'
      BY OrphansStay
    <3>3. alias_map'[q] = alias_map[q] /\ loaded'[q] = loaded[q] /\ last'[q] = last[q]
      BY <2>2
    <3>4. MemoryKnows(q, b)
      BY DEF MemoryInv
    <3> QED
      BY <3>1, <3>2, <3>3, <3>4 DEF MemoryKnows, Unset
  <2> QED
    BY <2>1, <2>2
<1>3. RecordInv'
  <2>1. \A u \in Tasks : pc'[u] \in Held => ProcessOf[u] \in users'
    BY DEF RecordInv
  <2>2. ASSUME NEW q \in Processes, is_at_home', failures' = 0, users' \subseteq {q}
        PROVE  RecordKnows(q)'
    <3>1. q = p /\ \A u \in Tasks \ {t} : pc'[u] \notin Held
      BY <2>1, <2>2
    <3> QED
      BY <2>2, <3>1
  <2> QED
    BY <2>1, <2>2 DEF RecordInv
<1> QED
  BY <1>1, <1>2, <1>3
(* What is known before such a step, and what returning changes.            *)
LEMMA HolderFacts ==
  ASSUME TypeInv, LockInv, Knows, NEW t \in Tasks, pc[t] \in Held,
         NEW p, p = ProcessOf[t], NEW a, a = op[t].alias
  PROVE  /\ p \in Processes /\ a \in Aliases /\ p \in users /\ HolderKnows(t, p, a)
         /\ \A u \in Tasks \ {t} : pc[u] \in Held => ProcessOf[u] # p
         /\ \A b \in Aliases : Stores(p, b) => pc[t] \in Storing /\ b = a
         /\ \A b \in Aliases : MemoryKnows(p, b) /\ EverKnows(b)
         /\ is_at_home /\ failures = 0 /\ users \subseteq {p} => RecordKnows(p)
<1>1. p \in Processes /\ a \in Aliases
  BY ResolvingAssumption DEF TypeInv
<1>2. \A u \in Tasks \ {t} : pc[u] \in Held => ProcessOf[u] # p
  BY OneHolds
<1>3. \A b \in Aliases : Stores(p, b) => pc[t] \in Storing /\ b = a
  BY <1>2 DEF Stores, Storing, Held
<1> QED
  BY <1>1, <1>2, <1>3 DEF Knows, HolderInv, MemoryInv, RecordInv

LEMMA ReturnsFacts ==
  ASSUME TypeInv, NEW t \in Tasks, NEW id, Returns(t, id),
         NEW p \in Processes, p = ProcessOf[t], NEW a \in Aliases, a = op[t].alias
  PROVE  /\ pc'[t] = "idle" /\ \A u \in Tasks \ {t} : pc'[u] = pc[u] /\ op'[u] = op[u]
         /\ last'[p][a] = id /\ \A b \in Aliases \ {a} : last'[p][b] = last[p][b]
         /\ \A q \in Processes \ {p} : last'[q] = last[q]
         /\ ever'[a] = id /\ \A b \in Aliases \ {a} : ever'[b] = ever[b]
         /\ users' = users
<1>1. Goes(t, "idle", id)
  BY DEF Returns
<1>2. pc'[t] = "idle" /\ \A u \in Tasks \ {t} : pc'[u] = pc[u] /\ op'[u] = op[u]
  BY <1>1, Going DEF Places
<1>3. last \in [Processes -> [Aliases -> Ids]] /\ ever \in [Aliases -> Ids]
  BY DEF TypeInv
<1>4. last' = [last EXCEPT ![p][a] = id] /\ ever' = [ever EXCEPT ![a] = id]
  BY DEF Returns
<1> QED
  BY <1>2, <1>3, <1>4 DEF Returns

LEMMA NoIdNew == TypeInv => NoId \notin existing
BY DEF TypeInv, NoId

LEMMA LockedKnows ==
  ASSUME TypeInv, LockInv, Knows, NEW t \in Tasks, Locked(t)
  PROVE  Knows'
<1>1. PICK p, a : p = ProcessOf[t] /\ a = op[t].alias
  OBVIOUS
<1>2. p \in Processes /\ a \in Aliases
  BY <1>1, ResolvingAssumption DEF TypeInv, Locked
<1>3. /\ pc[t] = "lock" /\ lock[p] = NoTask /\ users' = users \cup {p}
      /\ UNCHANGED <<is_at_home, existing, record, alias_map, loaded, last, ever, failures>>
  BY <1>1 DEF Locked, LockFree, platform, memory, bounds
<1>4. PICK at \in {"load", "get", "create"}, id \in {NoId, alias_map[p][a], Predefined[a]} :
        /\ Goes(t, at, id)
        /\ at = "load" => is_at_home /\ ~loaded[p] /\ Unset(a)
        /\ at # "load" => id = IF Unset(a) THEN alias_map[p][a] ELSE Predefined[a]
        /\ at = "create" => id = NoId
        /\ at # "load" /\ Unset(a) /\ is_at_home => loaded[p]
  BY <1>1, <1>2, LockedGoes
<1>5. /\ pc'[t] = at /\ op'[t].alias = a /\ op'[t].id = id
      /\ \A u \in Tasks \ {t} : pc'[u] = pc[u] /\ op'[u] = op[u]
  BY <1>1, <1>2, <1>4, Going DEF Places
<1>6. \A u \in Tasks : ProcessOf[u] = p => pc[u] \notin Held
  BY <1>2, <1>3, NobodyHolds
<1>7. \A b \in Aliases : ~Stores(p, b)
  BY <1>6 DEF Stores, Storing, Held
<1>8. \A b \in Aliases : MemoryKnows(p, b) /\ EverKnows(b)
  BY <1>2 DEF Knows, MemoryInv, RecordInv
<1>9. at = "create" => Unset(a) /\ alias_map[p][a] = NoId /\ last[p][a] = NoId
  BY <1>2, <1>4, <1>7, <1>8 DEF MemoryKnows, Unset
<1>10. HolderKnows(t, p, a)'
  BY <1>3, <1>4, <1>5, <1>9, NoIdNew DEF HolderKnows, Unset, Making, Storing
<1>11. \A b \in Aliases : MemoryKnows(p, b)' /\ EverKnows(b)'
  BY <1>3, <1>7, <1>8 DEF MemoryKnows, EverKnows, Unset, Orphaned
<1>12. ASSUME is_at_home, failures' = 0, \A u \in Tasks \ {t} : pc'[u] \notin Held,
              users' \subseteq {p}
       PROVE  RecordKnows(p)'
  <2>1. RecordKnows(p)
    BY <1>2, <1>3, <1>12 DEF Knows, RecordInv
  <2>2. at = "create" => ever[a] = NoId
    BY <1>2, <1>4, <1>7, <1>9, <1>12, <2>1 DEF RecordKnows
  <2>3. \A u \in Tasks : pc'[u] \in Making => u = t /\ at = "create"
    BY <1>5, <1>12 DEF Making, Held
  <2>4. \A u \in Tasks : pc'[u] # "write"
    BY <1>5, <1>12 DEF Held
  <2> QED
    BY <1>3, <1>5, <1>7, <2>1, <2>2, <2>3, <2>4, NoIdNew DEF RecordKnows, Unset
<1> QED
  BY <1>1, <1>2, <1>3, <1>5, <1>6, <1>10, <1>11, <1>12, ActiveStep DEF Fresh

LEMMA LoadedKnows ==
  ASSUME TypeInv, LockInv, Knows, NEW t \in Tasks, Loaded(t)
  PROVE  Knows'
<1>1. PICK p, a : p = ProcessOf[t] /\ a = op[t].alias
  OBVIOUS
<1>2. pc[t] = "load" /\ pc[t] \in Held /\ pc[t] \notin Storing
  BY DEF Loaded, Held, Storing
<1>3. /\ p \in Processes /\ a \in Aliases /\ p \in users /\ HolderKnows(t, p, a)
      /\ \A u \in Tasks \ {t} : pc[u] \in Held => ProcessOf[u] # p
      /\ \A b \in Aliases : ~Stores(p, b)
      /\ \A b \in Aliases : MemoryKnows(p, b) /\ EverKnows(b)
      /\ is_at_home /\ failures = 0 /\ users \subseteq {p} => RecordKnows(p)
  BY <1>1, <1>2, HolderFacts
<1>4. /\ alias_map'[p] = record /\ loaded'[p] = TRUE
      /\ \A q \in Processes \ {p} : alias_map'[q] = alias_map[q] /\ loaded'[q] = loaded[q]
      /\ UNCHANGED <<is_at_home, existing, record, last, ever, users, failures>>
  BY <1>1, <1>3 DEF Loaded, TypeInv, platform, history, bounds
<1>5. PICK at \in {"get", "create"} : Goes(t, at, record[a]) /\ (at = "create" <=> record[a] = NoId)
  BY <1>1, LooksAt DEF Loaded
<1>6. /\ pc'[t] = at /\ op'[t].alias = a /\ op'[t].id = record[a]
      /\ \A u \in Tasks \ {t} : pc'[u] = pc[u] /\ op'[u] = op[u]
  BY <1>1, <1>5, Going DEF Places
<1>7. is_at_home /\ ~loaded[p] /\ Unset(a)
  BY <1>2, <1>3 DEF HolderKnows
<1>8. \A b \in Aliases : Unset(b) => last[p][b] = NoId
  BY <1>3, <1>7 DEF MemoryKnows
<1>9. HolderKnows(t, p, a)'
  BY <1>3, <1>4, <1>5, <1>6, <1>7, <1>8, NoIdNew DEF HolderKnows, Unset, Making, Storing
<1>10. \A b \in Aliases : MemoryKnows(p, b)' /\ EverKnows(b)'
  BY <1>3, <1>4, <1>8 DEF MemoryKnows, EverKnows, Unset, Orphaned
<1>11. ASSUME is_at_home, failures' = 0, \A u \in Tasks \ {t} : pc'[u] \notin Held,
              users' \subseteq {p}
       PROVE  RecordKnows(p)'
  <2>1. RecordKnows(p)
    BY <1>3, <1>4, <1>11
  <2>2. at = "create" => ever[a] = NoId
    BY <1>3, <1>5, <1>7, <2>1 DEF RecordKnows
  <2>3. \A u \in Tasks : pc'[u] \in Making => u = t /\ at = "create"
    BY <1>6, <1>11 DEF Making, Held
  <2>4. \A u \in Tasks : pc'[u] # "write"
    BY <1>6, <1>11 DEF Held
  <2> QED
    BY <1>4, <1>6, <2>1, <2>2, <2>3, <2>4, NoIdNew DEF RecordKnows, Unset
<1> QED
  BY <1>1, <1>3, <1>4, <1>6, <1>9, <1>10, <1>11, ActiveStep DEF Fresh
LEMMA GotKnows ==
  ASSUME TypeInv, LockInv, Knows, NEW t \in Tasks, Got(t)
  PROVE  Knows'
<1>1. PICK p, a : p = ProcessOf[t] /\ a = op[t].alias
  OBVIOUS
<1>2. pc[t] = "get" /\ pc[t] \in Held /\ pc[t] \notin Storing
  BY DEF Got, Held, Storing
<1>3. /\ p \in Processes /\ a \in Aliases /\ p \in users /\ HolderKnows(t, p, a)
      /\ \A u \in Tasks \ {t} : pc[u] \in Held => ProcessOf[u] # p
      /\ \A b \in Aliases : ~Stores(p, b)
      /\ \A b \in Aliases : MemoryKnows(p, b) /\ EverKnows(b)
      /\ is_at_home /\ failures = 0 /\ users \subseteq {p} => RecordKnows(p)
  BY <1>1, <1>2, HolderFacts
<1>4. UNCHANGED <<is_at_home, existing, record, alias_map, loaded, failures>>
  BY DEF Got, platform, memory, bounds
<1>5. op[t].id = IF Unset(a) THEN alias_map[p][a] ELSE Predefined[a]
  BY <1>2, <1>3 DEF HolderKnows
<1>6. is_at_home /\ Unset(a) => loaded[p]
  BY <1>2, <1>3 DEF HolderKnows
<1>7. CASE op[t].id \in existing
  <2>1. Returns(t, op[t].id)
    BY <1>7 DEF Got
  <2>2. /\ pc'[t] = "idle" /\ \A u \in Tasks \ {t} : pc'[u] = pc[u] /\ op'[u] = op[u]
        /\ last'[p][a] = op[t].id /\ \A b \in Aliases \ {a} : last'[p][b] = last[p][b]
        /\ \A q \in Processes \ {p} : last'[q] = last[q]
        /\ ever'[a] = op[t].id /\ \A b \in Aliases \ {a} : ever'[b] = ever[b]
        /\ users' = users
    BY <1>1, <1>3, <2>1, ReturnsFacts
  <2>3. \A b \in Aliases : MemoryKnows(p, b)' /\ EverKnows(b)'
    <3> SUFFICES ASSUME NEW b \in Aliases PROVE MemoryKnows(p, b)' /\ EverKnows(b)'
      OBVIOUS
    <3>1. CASE b = a
      BY <1>4, <1>5, <1>6, <2>2, <3>1 DEF MemoryKnows, EverKnows, Unset, Orphaned
    <3>2. CASE b # a
      BY <1>3, <1>4, <2>2, <3>2 DEF MemoryKnows, EverKnows, Unset, Orphaned
    <3> QED
      BY <3>1, <3>2
  <2>4. ASSUME is_at_home, failures' = 0, \A u \in Tasks \ {t} : pc'[u] \notin Held,
               users' \subseteq {p}
        PROVE  RecordKnows(p)'
    <3>1. RecordKnows(p)
      BY <1>3, <1>4, <2>2, <2>4
    <3>2. Unset(a) => op[t].id = record[a]
      BY <1>3, <1>5, <1>6, <2>4, <3>1 DEF RecordKnows
    <3>3. \A u \in Tasks : pc'[u] \notin Making /\ pc'[u] # "write"
      BY <2>2, <2>4 DEF Making, Held
    <3> QED
      BY <1>3, <1>4, <2>2, <3>1, <3>2, <3>3 DEF RecordKnows, Unset
  <2>5. pc'[t] \notin Held
    BY <2>2 DEF Held
  <2> QED
    BY <1>1, <1>3, <1>4, <2>2, <2>3, <2>4, <2>5, ActiveStep DEF Fresh
<1>8. CASE op[t].id \notin existing
  <2>1. Goes(t, "create", NoId) /\ UNCHANGED history
    BY <1>8 DEF Got
  <2>2. /\ pc'[t] = "create" /\ op'[t].alias = a
        /\ \A u \in Tasks \ {t} : pc'[u] = pc[u] /\ op'[u] = op[u]
        /\ UNCHANGED <<last, ever, users>>
    BY <1>1, <2>1, Going DEF Places, history
  <2>3. IF Unset(a) THEN last[p][a] \notin existing ELSE Orphaned(a)
    BY <1>3, <1>5, <1>8, NoIdNew DEF MemoryKnows, Unset, Orphaned
  <2>4. HolderKnows(t, p, a)'
    BY <1>4, <1>6, <2>2, <2>3 DEF HolderKnows, Unset, Orphaned, Making, Storing
  <2>5. \A b \in Aliases : MemoryKnows(p, b)' /\ EverKnows(b)'
    BY <1>3, <1>4, <2>2 DEF MemoryKnows, EverKnows, Unset, Orphaned
  <2>6. ASSUME is_at_home, failures' = 0, \A u \in Tasks \ {t} : pc'[u] \notin Held,
               users' \subseteq {p}
        PROVE  RecordKnows(p)'
    <3>1. RecordKnows(p)
      BY <1>3, <1>4, <2>2, <2>6
    <3>2. Unset(a) => ever[a] \notin existing
      BY <1>3, <1>5, <1>6, <1>8, <2>6, <3>1 DEF RecordKnows
    <3>3. \A u \in Tasks : pc'[u] \in Making => u = t
      BY <2>6 DEF Making, Held
    <3>4. \A u \in Tasks : pc'[u] # "write"
      BY <2>2, <2>6 DEF Held
    <3> QED
      BY <1>3, <1>4, <2>2, <3>1, <3>2, <3>3, <3>4 DEF RecordKnows, Unset
  <2> QED
    BY <1>1, <1>3, <1>4, <2>2, <2>4, <2>5, <2>6, ActiveStep DEF Fresh
<1> QED
  BY <1>7, <1>8

LEMMA CreatedKnows ==
  ASSUME TypeInv, LockInv, Knows, NEW t \in Tasks, Created(t)
  PROVE  Knows'
<1>1. PICK p, a : p = ProcessOf[t] /\ a = op[t].alias
  OBVIOUS
<1>2. pc[t] = "create" /\ pc[t] \in Held /\ pc[t] \notin Storing /\ pc[t] \in Making
  BY DEF Created, Held, Storing, Making
<1>3. /\ p \in Processes /\ a \in Aliases /\ p \in users /\ HolderKnows(t, p, a)
      /\ \A u \in Tasks \ {t} : pc[u] \in Held => ProcessOf[u] # p
      /\ \A b \in Aliases : ~Stores(p, b)
      /\ \A b \in Aliases : MemoryKnows(p, b) /\ EverKnows(b)
      /\ is_at_home /\ failures = 0 /\ users \subseteq {p} => RecordKnows(p)
  BY <1>1, <1>2, HolderFacts
<1>4. PICK id \in Nat, at \in {"reload", "remember"} :
        /\ id = created + 1 /\ existing' = existing \cup {id} /\ Goes(t, at, id)
        /\ (at = "reload") <=> (is_at_home /\ ~loaded[p])
  <2> DEFINE next == IF is_at_home /\ ~loaded[p] THEN "reload" ELSE "remember"
  <2>1. PICK id : id = created + 1 /\ existing' = existing \cup {id} /\ Goes(t, next, id)
    BY <1>1 DEF Created, Creates
  <2>2. next \in {"reload", "remember"} /\ ((next = "reload") <=> (is_at_home /\ ~loaded[p]))
    OBVIOUS
  <2> HIDE DEF next
  <2> QED
    BY <2>1, <2>2 DEF TypeInv
<1>5. UNCHANGED <<is_at_home, record, alias_map, loaded, last, ever, users, failures>>
  BY DEF Created, memory, history, bounds
<1>6. Fresh
  BY <1>4 DEF Fresh, Ids, TypeInv
<1>7. /\ pc'[t] = at /\ op'[t].alias = a
      /\ \A u \in Tasks \ {t} : pc'[u] = pc[u] /\ op'[u] = op[u]
  BY <1>1, <1>4, Going DEF Places
<1>8. last[p][a] \in Ids /\ ever[a] \in Ids
  BY <1>3 DEF TypeInv
<1>9. /\ Unset(a) => last[p][a] \notin existing'
      /\ ~Unset(a) => Orphaned(a)'
      /\ is_at_home /\ Unset(a) => loaded[p]
  BY <1>2, <1>3, <1>6, <1>8, OrphansStay DEF HolderKnows, Fresh
<1>10. HolderKnows(t, p, a)'
  BY <1>4, <1>5, <1>7, <1>9 DEF HolderKnows, Unset, Orphaned, Making, Storing
<1>11. \A b \in Aliases : Orphaned(b) => Orphaned(b)'
  BY <1>6, OrphansStay
<1>12. \A b \in Aliases : MemoryKnows(p, b)' /\ EverKnows(b)'
  BY <1>3, <1>5, <1>11 DEF MemoryKnows, EverKnows, Unset
<1>13. ASSUME is_at_home, failures' = 0, \A u \in Tasks \ {t} : pc'[u] \notin Held,
              users' \subseteq {p}
       PROVE  RecordKnows(p)'
  <2>1. RecordKnows(p)
    BY <1>3, <1>5, <1>13
  <2>2. Unset(a) => ever[a] \notin existing
    BY <1>1, <1>2, <2>1 DEF RecordKnows
  <2>3. Unset(a) => ever[a] \notin existing'
    BY <1>6, <1>8, <2>2 DEF Fresh
  <2>4. \A u \in Tasks : pc'[u] \in Making => u = t
    BY <1>13 DEF Making, Held
  <2>5. \A u \in Tasks : pc'[u] # "write"
    BY <1>7, <1>13 DEF Held
  <2> QED
    BY <1>3, <1>5, <1>7, <2>1, <2>3, <2>4, <2>5 DEF RecordKnows, Unset
<1> QED
  BY <1>1, <1>3, <1>5, <1>6, <1>7, <1>10, <1>12, <1>13, ActiveStep

LEMMA LoadedToStoreKnows ==
  ASSUME TypeInv, LockInv, Knows, NEW t \in Tasks, LoadedToStore(t)
  PROVE  Knows'
<1>1. PICK p, a : p = ProcessOf[t] /\ a = op[t].alias
  OBVIOUS
<1>2. pc[t] = "reload" /\ pc[t] \in Held /\ pc[t] \notin Storing /\ pc[t] \in Making
  BY DEF LoadedToStore, Held, Storing, Making
<1>3. /\ p \in Processes /\ a \in Aliases /\ p \in users /\ HolderKnows(t, p, a)
      /\ \A u \in Tasks \ {t} : pc[u] \in Held => ProcessOf[u] # p
      /\ \A b \in Aliases : ~Stores(p, b)
      /\ \A b \in Aliases : MemoryKnows(p, b) /\ EverKnows(b)
      /\ is_at_home /\ failures = 0 /\ users \subseteq {p} => RecordKnows(p)
  BY <1>1, <1>2, HolderFacts
<1>4. /\ alias_map'[p] = record /\ loaded'[p] = TRUE
      /\ \A q \in Processes \ {p} : alias_map'[q] = alias_map[q] /\ loaded'[q] = loaded[q]
      /\ UNCHANGED <<is_at_home, existing, record, last, ever, users, failures>>
      /\ Goes(t, "remember", op[t].id)
  BY <1>1, <1>3 DEF LoadedToStore, TypeInv, platform, history, bounds
<1>5. /\ pc'[t] = "remember" /\ op'[t].alias = a
      /\ \A u \in Tasks \ {t} : pc'[u] = pc[u] /\ op'[u] = op[u]
  BY <1>1, <1>4, Going DEF Places
<1>6. /\ is_at_home /\ ~loaded[p]
      /\ IF Unset(a) THEN last[p][a] \notin existing ELSE Orphaned(a)
  BY <1>2, <1>3 DEF HolderKnows
<1>7. \A b \in Aliases : Unset(b) => last[p][b] = NoId
  BY <1>3, <1>6 DEF MemoryKnows
<1>8. HolderKnows(t, p, a)'
  BY <1>4, <1>5, <1>6 DEF HolderKnows, Unset, Orphaned, Making, Storing
<1>9. \A b \in Aliases : MemoryKnows(p, b)' /\ EverKnows(b)'
  BY <1>3, <1>4, <1>7 DEF MemoryKnows, EverKnows, Unset, Orphaned
<1>10. ASSUME is_at_home, failures' = 0, \A u \in Tasks \ {t} : pc'[u] \notin Held,
              users' \subseteq {p}
       PROVE  RecordKnows(p)'
  <2>1. RecordKnows(p)
    BY <1>3, <1>4, <1>10
  <2>2. Unset(a) => ever[a] \notin existing
    BY <1>1, <1>2, <2>1 DEF RecordKnows
  <2>3. \A u \in Tasks : pc'[u] \in Making => u = t
    BY <1>10 DEF Making, Held
  <2>4. \A u \in Tasks : pc'[u] # "write"
    BY <1>5, <1>10 DEF Held
  <2> QED
    BY <1>4, <1>5, <2>1, <2>2, <2>3, <2>4 DEF RecordKnows, Unset
<1> QED
  BY <1>1, <1>3, <1>4, <1>5, <1>8, <1>9, <1>10, ActiveStep DEF Fresh
LEMMA RememberedKnows ==
  ASSUME TypeInv, LockInv, Knows, NEW t \in Tasks, Remembered(t)
  PROVE  Knows'
<1>1. PICK p, a : p = ProcessOf[t] /\ a = op[t].alias
  OBVIOUS
<1>2. pc[t] = "remember" /\ pc[t] \in Held /\ pc[t] \notin Storing /\ pc[t] \in Making
  BY DEF Remembered, Held, Storing, Making
<1>3. /\ p \in Processes /\ a \in Aliases /\ p \in users /\ HolderKnows(t, p, a)
      /\ \A u \in Tasks \ {t} : pc[u] \in Held => ProcessOf[u] # p
      /\ \A b \in Aliases : ~Stores(p, b)
      /\ \A b \in Aliases : MemoryKnows(p, b) /\ EverKnows(b)
      /\ is_at_home /\ failures = 0 /\ users \subseteq {p} => RecordKnows(p)
  BY <1>1, <1>2, HolderFacts
<1>4. UNCHANGED <<is_at_home, existing, record, loaded, failures>>
  BY DEF Remembered, platform, bounds
<1>5. /\ alias_map'[p][a] = op[t].id
      /\ \A b \in Aliases \ {a} : alias_map'[p][b] = alias_map[p][b]
      /\ \A q \in Processes \ {p} : alias_map'[q] = alias_map[q]
  BY <1>1, <1>3 DEF Remembered, Remembers, Mine, TypeInv
<1>6. /\ is_at_home => loaded[p]
      /\ IF Unset(a) THEN last[p][a] \notin existing ELSE Orphaned(a)
  BY <1>2, <1>3 DEF HolderKnows
<1>7. CASE is_at_home
  <2>1. Goes(t, "read", op[t].id) /\ UNCHANGED history
    BY <1>7 DEF Remembered
  <2>2. /\ pc'[t] = "read" /\ op'[t].alias = a /\ op'[t].id = op[t].id
        /\ \A u \in Tasks \ {t} : pc'[u] = pc[u] /\ op'[u] = op[u]
        /\ UNCHANGED <<last, ever, users>>
    BY <1>1, <2>1, Going DEF Places, history
  <2>3. Stores(p, a)'
    BY <1>1, <2>2 DEF Stores, Storing
  <2>4. HolderKnows(t, p, a)'
    BY <1>4, <1>5, <1>6, <1>7, <2>2 DEF HolderKnows, Unset, Orphaned, Making, Storing
  <2>5. \A b \in Aliases : MemoryKnows(p, b)' /\ EverKnows(b)'
    BY <1>3, <1>4, <1>5, <1>6, <1>7, <2>2, <2>3 DEF MemoryKnows, EverKnows, Unset, Orphaned
  <2>6. ASSUME is_at_home, failures' = 0, \A u \in Tasks \ {t} : pc'[u] \notin Held,
               users' \subseteq {p}
        PROVE  RecordKnows(p)'
    <3>1. RecordKnows(p)
      BY <1>3, <1>4, <2>2, <2>6
    <3>2. Unset(a) => ever[a] \notin existing
      BY <1>1, <1>2, <3>1 DEF RecordKnows
    <3>3. \A u \in Tasks : pc'[u] \in Making => u = t
      BY <2>6 DEF Making, Held
    <3>4. \A u \in Tasks : pc'[u] # "write"
      BY <2>2, <2>6 DEF Held
    <3> QED
      BY <1>3, <1>4, <1>5, <2>2, <2>3, <3>1, <3>2, <3>3, <3>4 DEF RecordKnows, Unset
  <2> QED
    BY <1>1, <1>3, <1>4, <1>5, <2>2, <2>4, <2>5, <2>6, ActiveStep DEF Fresh
<1>8. CASE ~is_at_home
  <2>1. Returns(t, op[t].id)
    BY <1>8 DEF Remembered
  <2>2. /\ pc'[t] = "idle" /\ \A u \in Tasks \ {t} : pc'[u] = pc[u] /\ op'[u] = op[u]
        /\ last'[p][a] = op[t].id /\ \A b \in Aliases \ {a} : last'[p][b] = last[p][b]
        /\ \A q \in Processes \ {p} : last'[q] = last[q]
        /\ ever'[a] = op[t].id /\ \A b \in Aliases \ {a} : ever'[b] = ever[b]
        /\ users' = users
    BY <1>1, <1>3, <2>1, ReturnsFacts
  <2>3. \A b \in Aliases : MemoryKnows(p, b)' /\ EverKnows(b)'
    <3> SUFFICES ASSUME NEW b \in Aliases PROVE MemoryKnows(p, b)' /\ EverKnows(b)'
      OBVIOUS
    <3>1. CASE b = a
      BY <1>4, <1>5, <1>6, <1>8, <2>2, <3>1 DEF MemoryKnows, EverKnows, Unset, Orphaned
    <3>2. CASE b # a
      BY <1>3, <1>4, <1>5, <1>8, <2>2, <3>2 DEF MemoryKnows, EverKnows, Unset, Orphaned
    <3> QED
      BY <3>1, <3>2
  <2>4. pc'[t] \notin Held
    BY <2>2 DEF Held
  <2> QED
    BY <1>1, <1>3, <1>4, <1>5, <1>8, <2>2, <2>3, <2>4, ActiveStep DEF Fresh
<1> QED
  BY <1>7, <1>8

LEMMA ReadKnows ==
  ASSUME TypeInv, LockInv, Knows, NEW t \in Tasks, Read(t)
  PROVE  Knows'
<1>1. PICK p, a : p = ProcessOf[t] /\ a = op[t].alias
  OBVIOUS
<1>2. pc[t] = "read" /\ pc[t] \in Held /\ pc[t] \in Storing /\ pc[t] \in Making
  BY DEF Read, Held, Storing, Making
<1>3. /\ p \in Processes /\ a \in Aliases /\ p \in users /\ HolderKnows(t, p, a)
      /\ \A u \in Tasks \ {t} : pc[u] \in Held => ProcessOf[u] # p
      /\ \A b \in Aliases : Stores(p, b) => b = a
      /\ \A b \in Aliases : MemoryKnows(p, b) /\ EverKnows(b)
      /\ is_at_home /\ failures = 0 /\ users \subseteq {p} => RecordKnows(p)
  BY <1>1, <1>2, HolderFacts
<1>4. UNCHANGED <<is_at_home, existing, record, alias_map, loaded, last, ever, users, failures>>
  BY DEF Read, platform, memory, history, bounds
<1>5. /\ pc'[t] = "write" /\ op'[t].alias = a /\ op'[t].id = op[t].id /\ op'[t].seen = record
      /\ \A u \in Tasks \ {t} : pc'[u] = pc[u] /\ op'[u] = op[u]
  BY <1>1 DEF Read, TypeInv, Op
<1>6. Stores(p, a)'
  BY <1>1, <1>5 DEF Stores, Storing
<1>7. HolderKnows(t, p, a)'
  BY <1>2, <1>3, <1>4, <1>5 DEF HolderKnows, Unset, Orphaned, Making, Storing
<1>8. \A b \in Aliases : MemoryKnows(p, b)' /\ EverKnows(b)'
  BY <1>3, <1>4, <1>6 DEF MemoryKnows, EverKnows, Unset, Orphaned
<1>9. ASSUME is_at_home, failures' = 0, \A u \in Tasks \ {t} : pc'[u] \notin Held,
             users' \subseteq {p}
      PROVE  RecordKnows(p)'
  <2>1. RecordKnows(p)
    BY <1>3, <1>4, <1>9
  <2>2. Unset(a) => ever[a] \notin existing
    BY <1>1, <1>2, <2>1 DEF RecordKnows
  <2>3. \A u \in Tasks : pc'[u] \in Making \/ pc'[u] = "write" => u = t
    BY <1>9 DEF Making, Held
  <2>4. \A b \in Aliases : Unset(b) /\ loaded[p] => alias_map[p][b] = record[b] \/ Stores(p, b)'
    BY <1>3, <1>6, <2>1 DEF RecordKnows
  <2> QED
    BY <1>4, <1>5, <2>1, <2>2, <2>3, <2>4 DEF RecordKnows, Unset
<1> QED
  BY <1>1, <1>3, <1>4, <1>5, <1>7, <1>8, <1>9, ActiveStep DEF Fresh

(* Returning from storing the mapping, with the record written or not.      *)
LEMMA StoredKnows ==
  ASSUME TypeInv, LockInv, Knows, NEW t \in Tasks, pc[t] \in Storing, Returns(t, op[t].id),
         UNCHANGED <<is_at_home, platform, memory>>,
         \/ pc[t] = "write" /\ record' = Writes(t) /\ failures' = failures
         \/ failures' = failures + 1
  PROVE  Knows'
<1>1. PICK p, a : p = ProcessOf[t] /\ a = op[t].alias
  OBVIOUS
<1>2. pc[t] \in Held /\ pc[t] \in Making
  BY DEF Held, Storing, Making
<1>3. /\ p \in Processes /\ a \in Aliases /\ p \in users /\ HolderKnows(t, p, a)
      /\ \A u \in Tasks \ {t} : pc[u] \in Held => ProcessOf[u] # p
      /\ \A b \in Aliases : Stores(p, b) => b = a
      /\ \A b \in Aliases : MemoryKnows(p, b) /\ EverKnows(b)
      /\ is_at_home /\ failures = 0 /\ users \subseteq {p} => RecordKnows(p)
  BY <1>1, <1>2, HolderFacts
<1>4. UNCHANGED <<is_at_home, existing, alias_map, loaded>>
  BY DEF platform, memory
<1>5. /\ pc'[t] = "idle" /\ \A u \in Tasks \ {t} : pc'[u] = pc[u] /\ op'[u] = op[u]
      /\ last'[p][a] = op[t].id /\ \A b \in Aliases \ {a} : last'[p][b] = last[p][b]
      /\ \A q \in Processes \ {p} : last'[q] = last[q]
      /\ ever'[a] = op[t].id /\ \A b \in Aliases \ {a} : ever'[b] = ever[b]
      /\ users' = users
  BY <1>1, <1>3, ReturnsFacts
<1>6. /\ alias_map[p][a] = op[t].id /\ loaded[p]
      /\ ~Unset(a) => Orphaned(a)
  BY <1>2, <1>3 DEF HolderKnows
<1>7. \A b \in Aliases : MemoryKnows(p, b)' /\ EverKnows(b)'
  <2> SUFFICES ASSUME NEW b \in Aliases PROVE MemoryKnows(p, b)' /\ EverKnows(b)'
    OBVIOUS
  <2>1. CASE b = a
    BY <1>4, <1>5, <1>6, <2>1 DEF MemoryKnows, EverKnows, Unset, Orphaned
  <2>2. CASE b # a
    BY <1>3, <1>4, <1>5, <2>2 DEF MemoryKnows, EverKnows, Unset, Orphaned
  <2> QED
    BY <2>1, <2>2
<1>8. ASSUME is_at_home, failures' = 0, \A u \in Tasks \ {t} : pc'[u] \notin Held,
             users' \subseteq {p}
      PROVE  RecordKnows(p)'
  <2>1. pc[t] = "write" /\ record' = Writes(t) /\ failures = 0
    BY <1>8 DEF TypeInv
  <2>2. RecordKnows(p)
    BY <1>3, <1>5, <1>8, <2>1
  <2>3. op[t].seen = record /\ record \in [Aliases -> Ids]
    BY <2>1, <2>2 DEF RecordKnows, TypeInv
  <2>4. record'[a] = op[t].id /\ \A b \in Aliases \ {a} : record'[b] = record[b]
    BY <1>1, <1>3, <2>1, <2>3 DEF Writes
  <2>5. \A u \in Tasks : pc'[u] \notin Making /\ pc'[u] # "write"
    BY <1>5, <1>8 DEF Making, Held
  <2>6. ASSUME NEW b \in Aliases, Unset(b)
        PROVE  record'[b] = ever'[b] /\ (loaded[p] => alias_map[p][b] = record'[b])
    <3>1. CASE b = a
      BY <1>5, <1>6, <2>4, <3>1
    <3>2. CASE b # a
      BY <1>3, <1>5, <2>2, <2>4, <2>6, <3>2 DEF RecordKnows
    <3> QED
      BY <3>1, <3>2
  <2> QED
    BY <1>4, <2>5, <2>6 DEF RecordKnows, Unset
<1>9. pc'[t] \notin Held
  BY <1>5 DEF Held
<1> QED
  BY <1>1, <1>3, <1>4, <1>5, <1>7, <1>8, <1>9, ActiveStep DEF Fresh

LEMMA FailsKnows ==
  ASSUME TypeInv, LockInv, Knows, NEW t \in Tasks, Fails(t)
  PROVE  Knows'
<1>1. CASE pc[t] \in Storing
  BY <1>1, StoredKnows DEF Fails, Storing
<1>2. CASE pc[t] \notin Storing
  <2>1. PICK p, a : p = ProcessOf[t] /\ a = op[t].alias
    OBVIOUS
  <2>2. pc[t] \in Held /\ Goes(t, "idle", NoId) /\ failures' = failures + 1
        /\ UNCHANGED <<is_at_home, existing, record, alias_map, loaded, last, ever, users>>
    BY <1>2 DEF Fails, Storing, Held, platform, memory, history
  <2>3. /\ p \in Processes /\ p \in users
        /\ \A u \in Tasks \ {t} : pc[u] \in Held => ProcessOf[u] # p
        /\ \A b \in Aliases : ~Stores(p, b)
        /\ \A b \in Aliases : MemoryKnows(p, b) /\ EverKnows(b)
    BY <1>2, <2>1, <2>2, HolderFacts
  <2>4. pc'[t] = "idle" /\ \A u \in Tasks \ {t} : pc'[u] = pc[u] /\ op'[u] = op[u]
    BY <2>2, Going DEF Places
  <2>5. \A b \in Aliases : MemoryKnows(p, b)' /\ EverKnows(b)'
    BY <2>2, <2>3 DEF MemoryKnows, EverKnows, Unset, Orphaned
  <2>6. failures' # 0 /\ pc'[t] \notin Held
    BY <2>2, <2>4 DEF TypeInv, Held
  <2> QED
    BY <2>1, <2>2, <2>3, <2>4, <2>5, <2>6, ActiveStep DEF Fresh
<1> QED
  BY <1>1, <1>2

LEMMA RestartKnows ==
  ASSUME TypeInv, LockInv, Knows, NEW q \in Processes, Restart(q)
  PROVE  Knows'
<1>1. /\ \A u \in Tasks : ProcessOf[u] = q => pc'[u] = "idle"
      /\ \A u \in Tasks : ProcessOf[u] # q => pc'[u] = pc[u] /\ op'[u] = op[u]
      /\ UNCHANGED <<is_at_home, existing, record, ever, users, failures>>
  BY DEF Restart, platform
<1>2. /\ last'[q] = NoAliases /\ loaded'[q] = FALSE
      /\ \A p \in Processes \ {q} :
           alias_map'[p] = alias_map[p] /\ loaded'[p] = loaded[p] /\ last'[p] = last[p]
  BY DEF Restart, TypeInv
<1>3. \A p \in Processes \ {q}, a \in Aliases : Stores(p, a) => Stores(p, a)'
  BY <1>1 DEF Stores
<1>4. \A u \in Tasks : pc'[u] \in Held => ProcessOf[u] # q /\ ProcessOf[u] \in Processes
  BY <1>1, ResolvingAssumption DEF Held
<1>5. MemoryInv'
  <2> SUFFICES ASSUME NEW p \in Processes, NEW a \in Aliases PROVE MemoryKnows(p, a)'
    BY DEF MemoryInv
  <2>1. CASE p = q
    BY <1>2, <2>1 DEF MemoryKnows, NoAliases
  <2>2. CASE p # q
    BY <1>1, <1>2, <1>3, <2>2 DEF Knows, MemoryInv, MemoryKnows, Unset, Orphaned
  <2> QED
    BY <2>1, <2>2
<1>6. HolderInv'
  <2> SUFFICES ASSUME NEW u \in Tasks, pc'[u] \in Held
               PROVE  HolderKnows(u, ProcessOf[u], op[u].alias)'
    BY DEF HolderInv
  <2>1. ProcessOf[u] \in Processes \ {q} /\ pc'[u] = pc[u] /\ op'[u] = op[u]
    BY <1>1, <1>4
  <2>2. HolderKnows(u, ProcessOf[u], op[u].alias)
    BY <2>1 DEF Knows, HolderInv
  <2> QED
    BY <1>1, <1>2, <2>1, <2>2 DEF HolderKnows, Unset, Orphaned
<1>7. RecordInv'
  <2>1. \A u \in Tasks : pc'[u] \in Held => ProcessOf[u] \in users'
    BY <1>1, <1>4 DEF Knows, RecordInv
  <2>2. \A a \in Aliases : EverKnows(a)'
    BY <1>1 DEF Knows, RecordInv, EverKnows, Unset, Orphaned
  <2>3. ASSUME NEW p \in Processes, is_at_home', failures' = 0, users' \subseteq {p}
        PROVE  RecordKnows(p)'
    <3>1. RecordKnows(p)
      BY <1>1, <2>3 DEF Knows, RecordInv
    <3>2. \A u \in Tasks : pc'[u] \in Making \/ pc'[u] = "write" => pc'[u] = pc[u] /\ op'[u] = op[u]
      BY <1>1, <1>4 DEF Making, Held
    <3>3. \A a \in Aliases : Unset(a) /\ loaded'[p] => alias_map'[p][a] = record[a] \/ Stores(p, a)'
      BY <1>2, <1>3, <3>1 DEF RecordKnows
    <3> QED
      BY <1>1, <3>1, <3>2, <3>3 DEF RecordKnows, Unset
  <2> QED
    BY <2>1, <2>2, <2>3 DEF RecordInv
<1> QED
  BY <1>5, <1>6, <1>7 DEF Knows
-----------------------------------------------------------------------------
(* All of them hold initially, and go on together.                          *)
IInv == TypeInv /\ LockInv /\ Knows

LEMMA Initially == Init => IInv
<1> SUFFICES ASSUME Init PROVE IInv
  OBVIOUS
<1> USE DEF Init
<1>1. DefaultId \in Nat /\ DefaultId >= 1
  BY ResolvingAssumption DEF Storages
<1>2. NoOp \in Op(created) /\ NoAliases \in [Aliases -> Ids]
  BY <1>1, NoOpType DEF Ids
<1>3. existing \subseteq 1..created
  BY <1>1
<1>4. TypeInv
  BY <1>1, <1>2, <1>3 DEF TypeInv, Places, Held
<1>5. \A t \in Tasks : pc[t] \notin Held /\ pc[t] \notin Making /\ pc[t] # "write"
  BY DEF Held, Making
<1>6. LockInv /\ HolderInv
  BY <1>5 DEF LockInv, HolderInv
<1>7. MemoryInv
  BY DEF MemoryInv, MemoryKnows, NoAliases
<1>8. \A p \in Processes : RecordKnows(p)
  BY <1>5 DEF RecordKnows, NoAliases
<1>9. RecordInv
  BY <1>5, <1>8 DEF RecordInv, EverKnows, NoAliases
<1> QED
  BY <1>4, <1>6, <1>7, <1>9 DEF IInv, Knows

LEMMA KnowsStep == IInv /\ [Next]_vars => Knows'
<1> SUFFICES ASSUME IInv, [Next]_vars PROVE Knows'
  OBVIOUS
<1> USE DEF IInv
<1>1. ASSUME NEW t \in Tasks, OpenAlias(t) PROVE Knows'
  <2>1. \A u \in Tasks : pc[u] \in Held \/ pc'[u] \in Held => pc'[u] = pc[u] /\ op'[u] = op[u]
    BY <1>1 DEF OpenAlias, Call, TypeInv, Held
  <2> QED
    BY <1>1, <2>1, QuietStep DEF OpenAlias, Fresh, platform
<1>2. ASSUME NEW t \in Tasks, NEW at \in {"idle", "create_default"}, NEW id, Goes(t, at, id),
             pc[t] \in {"idle", "create_default"}
      PROVE  \A u \in Tasks : pc[u] \in Held \/ pc'[u] \in Held => pc'[u] = pc[u] /\ op'[u] = op[u]
  <2>1. pc'[t] = at /\ \A u \in Tasks \ {t} : pc'[u] = pc[u] /\ op'[u] = op[u]
    BY <1>2, Going DEF Places
  <2> QED
    BY <1>2, <2>1 DEF Held
<1>3. created' = created + 1 /\ existing' = existing \cup {created'} => Fresh
  BY DEF Fresh, Ids, TypeInv
<1>4. ASSUME NEW t \in Tasks, OpenDefault(t) PROVE Knows'
  <2>1. PICK at \in {"idle", "create_default"} : Goes(t, at, DefaultId)
    BY <1>4 DEF OpenDefault
  <2>2. \A u \in Tasks : pc[u] \in Held \/ pc'[u] \in Held => pc'[u] = pc[u] /\ op'[u] = op[u]
    BY <1>2, <1>4, <2>1 DEF OpenDefault, Call
  <2> QED
    BY <1>4, <2>2, QuietStep DEF OpenDefault, Fresh, platform
<1>5. ASSUME NEW t \in Tasks, CreateDefault(t) PROVE Knows'
  <2>1. PICK id \in Storages : Creates(id) /\ Goes(t, "idle", id)
    BY <1>5 DEF CreateDefault
  <2>2. \A u \in Tasks : pc[u] \in Held \/ pc'[u] \in Held => pc'[u] = pc[u] /\ op'[u] = op[u]
    BY <1>2, <1>5, <2>1 DEF CreateDefault
  <2>3. Fresh
    BY <1>3, <2>1 DEF Creates
  <2> QED
    BY <1>5, <2>2, <2>3, QuietStep DEF CreateDefault, bounds
<1>6. ASSUME NEW t \in Tasks, OpenNamed(t) PROVE Knows'
  <2>1. PICK id : Goes(t, "idle", id)
    BY <1>6 DEF OpenNamed
  <2>2. \A u \in Tasks : pc[u] \in Held \/ pc'[u] \in Held => pc'[u] = pc[u] /\ op'[u] = op[u]
    BY <1>2, <1>6, <2>1 DEF OpenNamed, Call
  <2>3. Fresh
    BY <1>3, <1>6 DEF OpenNamed, Fresh, platform
  <2> QED
    BY <1>6, <2>2, <2>3, QuietStep DEF OpenNamed
<1>7. ASSUME NEW s \in existing, Drop(s) PROVE Knows'
  BY <1>7, QuietStep DEF Drop, Fresh
<1>8. CASE UNCHANGED vars
  BY <1>8, QuietStep DEF vars, platform, bounds, Fresh
<1>9. ASSUME NEW t \in Tasks, Written(t) PROVE Knows'
  <2>1. pc[t] = "write" /\ record' = Writes(t) /\ Returns(t, op[t].id)
        /\ UNCHANGED <<is_at_home, platform, memory, failures>>
    BY <1>9 DEF Written, bounds
  <2> QED
    BY <2>1, StoredKnows DEF Storing
<1> QED
  BY <1>1, <1>4, <1>5, <1>6, <1>7, <1>8, <1>9, LockedKnows, LoadedKnows, GotKnows, CreatedKnows,
     LoadedToStoreKnows, RememberedKnows, ReadKnows, FailsKnows, RestartKnows DEF Next, Resume

LEMMA Inductive == IInv /\ [Next]_vars => IInv'
BY TypeStep, LockStep, KnowsStep DEF IInv

LEMMA Always == Spec => []IInv
<1>1. IInv /\ [Next]_vars => IInv'
  BY Inductive
<1> QED
  BY Initially, <1>1, PTL DEF Spec

-----------------------------------------------------------------------------
(* A task that is done with an alias has returned the storage it had the ID *)
(* of, and has seen that it exists unless it made it.                       *)
LEMMA OpensReturns ==
  ASSUME TypeInv, [Next]_vars, NEW t \in Tasks, Opens(t)
  PROVE  /\ Returns(t, op[t].id) /\ pc[t] \in {"get"} \cup Making
         /\ pc[t] = "get" => op[t].id \in existing
<1>1. pc'[t] = "idle" /\ restarts' = restarts /\ pc[t] \in {"get", "remember", "read", "write"}
      /\ (pc[t] = "get" => failures' = failures)
  BY DEF Opens
<1>2. ASSUME NEW u \in Tasks, NEW at \in Places, NEW id, Goes(u, at, id) PROVE at = "idle" /\ u = t
  BY <1>1, <1>2, Going
<1>3. ASSUME NEW u \in Tasks, OpenAlias(u) \/ Read(u) PROVE FALSE
  BY <1>1, <1>3 DEF OpenAlias, Read, TypeInv
<1>4. ASSUME NEW u \in Tasks, OpenDefault(u) PROVE FALSE
  <2>1. PICK at \in {"idle", "create_default"} : Goes(u, at, DefaultId)
    BY <1>4 DEF OpenDefault
  <2> QED
    BY <1>1, <1>2, <1>4, <2>1 DEF OpenDefault, Call, Places
<1>5. ASSUME NEW u \in Tasks, CreateDefault(u) PROVE FALSE
  <2>1. PICK id : Goes(u, "idle", id)
    BY <1>5 DEF CreateDefault
  <2> QED
    BY <1>1, <1>2, <1>5, <2>1 DEF CreateDefault, Places
<1>6. ASSUME NEW u \in Tasks, OpenNamed(u) PROVE FALSE
  <2>1. PICK id : Goes(u, "idle", id)
    BY <1>6 DEF OpenNamed
  <2> QED
    BY <1>1, <1>2, <1>6, <2>1 DEF OpenNamed, Call, Places
<1>7. ASSUME NEW u \in Tasks, Locked(u) PROVE FALSE
  <2>1. PICK p, a : p = ProcessOf[u] /\ a = op[u].alias
    OBVIOUS
  <2>2. PICK at \in {"load", "get", "create"}, id \in {NoId, alias_map[p][a], Predefined[a]} :
          Goes(u, at, id)
    BY <1>7, <2>1, LockedGoes
  <2> QED
    BY <1>2, <2>2 DEF Places
<1>8. ASSUME NEW u \in Tasks, Loaded(u) PROVE FALSE
  <2>1. PICK at \in {"get", "create"} : Goes(u, at, record[op[u].alias])
    BY <1>8, LooksAt DEF Loaded
  <2> QED
    BY <1>2, <2>1 DEF Places
<1>9. ASSUME NEW u \in Tasks, Created(u) PROVE FALSE
  <2>1. PICK at \in {"reload", "remember"}, id \in Storages : Goes(u, at, id)
    BY <1>9 DEF Created
  <2> QED
    BY <1>2, <2>1 DEF Places
<1>10. ASSUME NEW u \in Tasks, LoadedToStore(u) PROVE FALSE
  BY <1>2, <1>10 DEF LoadedToStore, Places
<1>11. ASSUME NEW u \in Tasks, Got(u)
       PROVE  u = t /\ Returns(t, op[t].id) /\ pc[t] = "get" /\ op[t].id \in existing
  <2>1. CASE op[u].id \in existing
    BY <1>2, <1>11, <2>1 DEF Got, Returns, Places
  <2>2. CASE op[u].id \notin existing
    BY <1>2, <1>11, <2>2 DEF Got, Places
  <2> QED
    BY <2>1, <2>2
<1>12. ASSUME NEW u \in Tasks, Remembered(u)
       PROVE  u = t /\ Returns(t, op[t].id) /\ pc[t] = "remember"
  BY <1>2, <1>12 DEF Remembered, Returns, Places
<1>13. ASSUME NEW u \in Tasks, Written(u)
       PROVE  u = t /\ Returns(t, op[t].id) /\ pc[t] = "write"
  BY <1>2, <1>13 DEF Written, Returns, Places
<1>14. ASSUME NEW u \in Tasks, Fails(u)
       PROVE  u = t /\ Returns(t, op[t].id) /\ pc[t] \in {"read", "write"}
  <2>1. u = t
    BY <1>2, <1>14 DEF Fails, Returns, Places
  <2>2. failures' # failures
    BY <1>14 DEF Fails, TypeInv
  <2> QED
    BY <1>1, <1>14, <2>1, <2>2 DEF Fails
<1>15. ASSUME NEW p \in Processes, Restart(p) PROVE FALSE
  BY <1>1, <1>15 DEF Restart, TypeInv
<1>16. ASSUME NEW s \in existing, Drop(s) PROVE FALSE
  BY <1>1, <1>16 DEF Drop
<1>17. CASE UNCHANGED vars
  BY <1>1, <1>17 DEF vars
<1> QED
  BY <1>3, <1>4, <1>5, <1>6, <1>7, <1>8, <1>9, <1>10, <1>11, <1>12, <1>13, <1>14, <1>15, <1>16,
     <1>17 DEF Next, Resume, Making

(* _alias_resolving.py open_by_alias, resolve_id, store_mapping: while a    *)
(* process runs and the storage exists, an alias is that storage.           *)
THEOREM Stable == Spec => AliasIsStable
<1>1. ASSUME IInv, [Next]_vars, NEW t \in Tasks, Opens(t), ~Orphaned(op[t].alias),
             last[ProcessOf[t]][op[t].alias] \in existing
      PROVE  Opened(t) = last[ProcessOf[t]][op[t].alias]
  <2>1. PICK p, a : p = ProcessOf[t] /\ a = op[t].alias
    OBVIOUS
  <2>2. /\ Returns(t, op[t].id) /\ pc[t] \in {"get"} \cup Making
        /\ pc[t] = "get" => op[t].id \in existing
    BY <1>1, OpensReturns DEF IInv
  <2>3. pc[t] \in Held
    BY <2>2 DEF Held, Making
  <2>4. /\ p \in Processes /\ a \in Aliases /\ HolderKnows(t, p, a) /\ MemoryKnows(p, a)
        /\ Stores(p, a) => pc[t] \in Storing
    BY <1>1, <2>1, <2>3, HolderFacts DEF IInv
  <2>5. last'[p][a] = op[t].id
    BY <1>1, <2>1, <2>2, <2>4, ReturnsFacts DEF IInv
  <2>6. pc[t] = "get"
    BY <1>1, <2>1, <2>2, <2>4 DEF HolderKnows
  <2>7. op[t].id = IF Unset(a) THEN alias_map[p][a] ELSE Predefined[a]
    BY <2>4, <2>6 DEF HolderKnows
  <2>8. last[p][a] # NoId
    BY <1>1, <2>1, NoIdNew DEF IInv
  <2>9. op[t].id = last[p][a]
    BY <1>1, <2>1, <2>4, <2>6, <2>7, <2>8 DEF MemoryKnows, Storing
  <2> QED
    BY <2>1, <2>5, <2>9 DEF Opened
<1>2. IInv /\ [Next]_vars =>
        [\A t \in Tasks : Opens(t) /\ ~Orphaned(op[t].alias) =>
           LET before == last[ProcessOf[t]][op[t].alias]
           IN  before \in existing => Opened(t) = before]_vars
  BY <1>1
<1> QED
  BY <1>2, Always, PTL DEF Spec, AliasIsStable

(* _alias_resolving.py store_mapping, _load_alias_map: on the platform the  *)
(* record brings an alias back after a restart.                             *)
THEOREM Survives == Spec => AliasSurvivesRestart
<1>1. ASSUME IInv, [Next]_vars, NEW t \in Tasks, Opens(t), ~Orphaned(op[t].alias),
             is_at_home, failures = 0, users = {ProcessOf[t]}, ever[op[t].alias] \in existing
      PROVE  Opened(t) = ever[op[t].alias]
  <2>1. PICK p, a : p = ProcessOf[t] /\ a = op[t].alias
    OBVIOUS
  <2>2. /\ Returns(t, op[t].id) /\ pc[t] \in {"get"} \cup Making
        /\ pc[t] = "get" => op[t].id \in existing
    BY <1>1, OpensReturns DEF IInv
  <2>3. pc[t] \in Held
    BY <2>2 DEF Held, Making
  <2>4. /\ p \in Processes /\ a \in Aliases /\ HolderKnows(t, p, a) /\ EverKnows(a)
        /\ Stores(p, a) => pc[t] \in Storing
        /\ RecordKnows(p)
    BY <1>1, <2>1, <2>3, HolderFacts DEF IInv
  <2>5. last'[p][a] = op[t].id
    BY <1>1, <2>1, <2>2, <2>4, ReturnsFacts DEF IInv
  <2>6. pc[t] = "get"
    BY <1>1, <2>1, <2>2, <2>4 DEF HolderKnows, RecordKnows
  <2>7. /\ op[t].id = IF Unset(a) THEN alias_map[p][a] ELSE Predefined[a]
        /\ Unset(a) => loaded[p]
    BY <1>1, <2>4, <2>6 DEF HolderKnows
  <2>8. ever[a] # NoId
    BY <1>1, <2>1, NoIdNew DEF IInv
  <2>9. ASSUME Unset(a) PROVE op[t].id = ever[a]
    BY <2>4, <2>6, <2>7, <2>9 DEF RecordKnows, Storing
  <2>10. ASSUME ~Unset(a) PROVE op[t].id = ever[a]
    BY <1>1, <2>1, <2>4, <2>7, <2>8, <2>10 DEF EverKnows
  <2>11. op[t].id = ever[a]
    BY <2>9, <2>10
  <2> QED
    BY <2>1, <2>5, <2>11 DEF Opened
<1>2. IInv /\ [Next]_vars =>
        [\A t \in Tasks :
           /\ Opens(t) /\ ~Orphaned(op[t].alias)
           /\ is_at_home /\ failures = 0 /\ users = {ProcessOf[t]}
           => (ever[op[t].alias] \in existing => Opened(t) = ever[op[t].alias])]_vars
  BY <1>1
<1> QED
  BY <1>2, Always, PTL DEF Spec, AliasSurvivesRestart

(* _alias_resolving.py __aenter__, __aexit__: however an opening fails, it  *)
(* gives the lock back.                                                     *)
THEOREM LockReturned == Spec => []LockIsHeld
<1>1. IInv => LockIsHeld
  BY DEF IInv, LockInv, LockIsHeld, Held
<1> QED
  BY <1>1, Always, PTL
=============================================================================
