---------------------- MODULE ApifyEventManagerProofs ----------------------
(***************************************************************************)
(* Proofs about ApifyEventManager, for any number of users, connections and *)
(* messages: the count of users is right, the last one out leaves nothing   *)
(* behind, and whoever is in is served by a task.                           *)
(***************************************************************************)
EXTENDS ApifyEventManager, FiniteSetTheorems, TLAPS

Places == {"out", "waiting", "in", "tearing_down", "persisting"}
Alive == {"connecting", "open", "stopping", "backoff"}

TypeInv == user \in [Users -> Places]

(* The count is the number of users that have not left.                     *)
Inside == {u \in Users : user[u] # "out"}

CountInv == IsFiniteSet(Inside) /\ refs = Cardinality(Inside)

(* The connection belongs to the task, and both to somebody inside that has *)
(* not torn them down.                                                      *)
ConnectionInv ==
  /\ open \in {0, 1}
  /\ task \in {"none", "connecting", "backoff"} => open = 0
  /\ task \in {"open", "stopping"} => open = 1
  /\ Inside = {} \/ (\E u \in Users : user[u] = "persisting") =>
       task = "none" /\ future = "none" /\ ~persisting

(* Without an overlap, a user on the way in or out is the only one.         *)
AloneInv ==
  ~overlapped => \A u, v \in Inside : user[u] # "in" => u = v

ServedInv ==
  ~overlapped /\ ~hopeless /\ (\E u \in Users : user[u] \in {"in", "waiting"}) => task \in Alive

IInv == TypeInv /\ CountInv /\ ConnectionInv /\ AloneInv /\ ServedInv

-----------------------------------------------------------------------------
(* The count follows users that come, go, or move inside.                   *)
LEMMA Comes ==
  ASSUME TypeInv, CountInv, NEW u \in Users, NEW at \in Places \ {"out"},
         user[u] = "out", Moves(u, at), refs' = refs + 1
  PROVE  CountInv'
<1>1. Inside' = Inside \cup {u} /\ u \notin Inside
  BY DEF Inside, Moves, TypeInv
<1> QED
  BY <1>1, FS_AddElement DEF CountInv

LEMMA Goes ==
  ASSUME TypeInv, CountInv, NEW u \in Users, user[u] # "out", Moves(u, "out"), refs' = refs - 1
  PROVE  CountInv'
<1>1. Inside' = Inside \ {u} /\ u \in Inside
  BY DEF Inside, Moves, TypeInv
<1> QED
  BY <1>1, FS_RemoveElement DEF CountInv

LEMMA Stays ==
  ASSUME TypeInv, CountInv, NEW u \in Users, NEW at \in Places \ {"out"},
         user[u] # "out", Moves(u, at), refs' = refs
  PROVE  CountInv' /\ Inside' = Inside
<1>1. Inside' = Inside
  BY DEF Inside, Moves, TypeInv
<1> QED
  BY <1>1 DEF CountInv

(* What the count says of who is inside.                                    *)
LEMMA CountNone ==
  ASSUME CountInv
  PROVE  refs \in Nat /\ (refs = 0 <=> Inside = {})
BY FS_CardinalityType, FS_EmptySet DEF CountInv

LEMMA CountOne ==
  ASSUME CountInv, refs = 1, NEW u \in Inside
  PROVE  Inside = {u}
<1>1. PICK x : Inside = {x}
  BY FS_Singleton DEF CountInv
<1> QED
  BY <1>1

LEMMA CountMany ==
  ASSUME CountInv, refs # 1, NEW u \in Inside
  PROVE  \E w \in Inside : w # u
<1>1. Inside # {u}
  BY FS_Singleton DEF CountInv
<1> QED
  BY <1>1

(* Leaving takes a user out, unless it is the last: then it tears down.     *)
LEMMA LeavesStep ==
  ASSUME IInv, NEW u \in Users, user[u] \in {"in", "waiting"}, Leaves(u),
         UNCHANGED <<persisting, open, hopeless, overlapped>>,
         future = "none" => future' = "none"
  PROVE  IInv'
<1> USE DEF IInv, Places
<1>1. u \in Inside /\ refs \in Nat /\ refs # 0
  BY CountNone DEF Inside
<1>2. CASE refs = 1
  <2>1. Inside = {u}
    BY <1>1, <1>2, CountOne
  <2>2. user' = [user EXCEPT ![u] = "tearing_down"] /\ refs' = refs
    BY <1>2 DEF Leaves, Moves
  <2>3. CountInv' /\ Inside' = {u}
    BY <2>1, <2>2, Stays DEF Moves
  <2>4. user' \in [Users -> Places] /\ \A v \in Users : user'[v] \in {"out", "tearing_down"}
    BY <2>1, <2>2 DEF TypeInv, Inside
  <2>5. ConnectionInv'
    BY <1>2, <2>3, <2>4 DEF ConnectionInv, Leaves, Running
  <2> QED
    BY <2>3, <2>4, <2>5 DEF TypeInv, AloneInv, ServedInv
<1>3. CASE refs # 1
  <2>1. user' = [user EXCEPT ![u] = "out"] /\ refs' = refs - 1 /\ task' = task
    BY <1>3 DEF Leaves, Moves
  <2>2. CountInv'
    BY <2>1, Goes DEF Moves
  <2>3. Inside' # {}
    <3>1. PICK w \in Inside : w # u
      BY <1>1, <1>3, CountMany
    <3> QED
      BY <2>1, <3>1 DEF Inside, TypeInv
  <2>4. user' \in [Users -> Places] /\ \A v \in Users : user'[v] # "out" => user'[v] = user[v]
    BY <2>1 DEF TypeInv
  <2>5. ConnectionInv'
    BY <2>1, <2>3, <2>4 DEF ConnectionInv
  <2>6. AloneInv' /\ ServedInv'
    BY <2>1, <2>4 DEF AloneInv, ServedInv, Inside
  <2> QED
    BY <2>2, <2>4, <2>5, <2>6 DEF TypeInv
<1> QED
  BY <1>2, <1>3

(* A step of the task alone moves no user.                                  *)
LEMMA TaskStep ==
  ASSUME IInv, UNCHANGED <<user, refs, overlapped>>, ConnectionInv', ServedInv'
  PROVE  IInv'
<1>1. TypeInv' /\ CountInv' /\ AloneInv'
  BY DEF IInv, TypeInv, CountInv, AloneInv, Inside
<1> QED
  BY <1>1 DEF IInv

-----------------------------------------------------------------------------
LEMMA Initially == Init => IInv
<1> SUFFICES ASSUME Init PROVE IInv
  OBVIOUS
<1>1. Inside = {} /\ CountInv
  BY FS_EmptySet DEF Init, Inside, CountInv
<1> QED
  BY <1>1 DEF Init, IInv, TypeInv, Places, ConnectionInv, AloneInv, ServedInv, Inside

LEMMA Inductive == IInv /\ [Next]_vars => IInv'
<1> SUFFICES ASSUME IInv, [Next]_vars PROVE IInv'
  OBVIOUS
<1>0. TypeInv /\ CountInv /\ ConnectionInv /\ AloneInv /\ ServedInv /\ refs \in Nat
  BY CountNone DEF IInv
<1>1. ASSUME NEW u \in Users, Enter(u) PROVE IInv'
  <2>0. user[u] = "out" /\ refs' = refs + 1
    BY <1>1 DEF Enter
  <2>1. CASE refs = 0
    <3>1. Moves(u, "waiting") /\ task' = "connecting" /\ open' = open
      BY <1>1, <2>1 DEF Enter, Connect
    <3>2. CountInv'
      BY <1>0, <2>0, <3>1, Comes DEF Places
    <3>3. Inside = {}
      BY <1>0, <2>1, CountNone
    <3>4. user' \in [Users -> Places] /\ user'[u] = "waiting"
          /\ \A v \in Users \ {u} : user'[v] = "out"
      BY <1>0, <3>1, <3>3 DEF TypeInv, Places, Moves, Inside
    <3>5. ConnectionInv'
      <4>1. u \in Inside'
        BY <3>4 DEF Inside
      <4>2. \A v \in Users : user'[v] # "persisting"
        BY <3>4
      <4>3. open' = 0
        BY <1>0, <3>1, <3>3 DEF ConnectionInv
      <4> QED
        BY <3>1, <4>1, <4>2, <4>3 DEF ConnectionInv
    <3> QED
      BY <3>1, <3>2, <3>4, <3>5 DEF IInv, TypeInv, AloneInv, ServedInv, Inside, Alive
  <2>2. CASE refs # 0
    <3>1. Moves(u, "in") /\ UNCHANGED <<persisting, connection>>
          /\ overlapped' = (overlapped \/ \E v \in Users : user[v] \notin {"out", "in"})
      BY <1>1, <2>2 DEF Enter
    <3>2. CountInv'
      BY <1>0, <2>0, <3>1, Comes DEF Places
    <3>3. PICK w \in Inside : TRUE
      BY <1>0, <2>2, CountNone
    <3>4. user' \in [Users -> Places] /\ user'[u] = "in"
          /\ \A v \in Users \ {u} : user'[v] = user[v]
      BY <1>0, <3>1 DEF TypeInv, Places, Moves
    <3>5. ConnectionInv'
      BY <1>0, <2>0, <3>1, <3>3, <3>4 DEF ConnectionInv, connection, Inside
    <3>6. ASSUME ~overlapped' PROVE ~overlapped /\ \A v \in Users : user'[v] \in {"out", "in"}
      BY <3>1, <3>4, <3>6
    <3>7. AloneInv'
      BY <3>6 DEF AloneInv, Inside
    <3>8. ServedInv'
      <4> SUFFICES ASSUME ~overlapped', ~hopeless' PROVE task' \in Alive
        BY DEF ServedInv
      <4>1. user[w] = "in"
        BY <2>0, <3>3, <3>4, <3>6 DEF Inside
      <4> QED
        BY <1>0, <3>1, <3>3, <3>6, <4>1 DEF ServedInv, connection, Inside
    <3> QED
      BY <3>2, <3>4, <3>5, <3>7, <3>8 DEF IInv, TypeInv
  <2> QED
    BY <2>1, <2>2
<1>2. ASSUME NEW u \in Users, Entered(u) PROVE IInv'
  <2>1. user[u] = "waiting" /\ Moves(u, "in") /\ UNCHANGED <<refs, persisting, connection, overlapped>>
    BY <1>2 DEF Entered
  <2>2. CountInv' /\ Inside' = Inside
    BY <1>0, <2>1, Stays DEF Places
  <2>3. user' \in [Users -> Places] /\ user'[u] = "in" /\ \A v \in Users \ {u} : user'[v] = user[v]
    BY <1>0, <2>1 DEF TypeInv, Places, Moves
  <2>4. ConnectionInv'
    BY <1>0, <2>1, <2>2, <2>3 DEF ConnectionInv, connection
  <2>5. AloneInv' /\ ServedInv'
    BY <1>0, <2>1, <2>2, <2>3 DEF AloneInv, ServedInv, connection, Inside
  <2> QED
    BY <2>2, <2>3, <2>4, <2>5 DEF IInv, TypeInv
<1>3. ASSUME NEW u \in Users, Exit(u) PROVE IInv'
  BY <1>3, LeavesStep DEF Exit
<1>4. ASSUME NEW u \in Users, EntryFails(u) PROVE IInv'
  BY <1>4, LeavesStep DEF EntryFails
<1>5. ASSUME NEW u \in Users, EntryCancelled(u) PROVE IInv'
  BY <1>5, LeavesStep DEF EntryCancelled
<1>6. ASSUME NEW u \in Users, TornDown(u) PROVE IInv'
  <2>1. user[u] = "tearing_down" /\ future' = "none" /\ task' = "none" /\ open' = 0
        /\ UNCHANGED <<hopeless, overlapped>>
    BY <1>6 DEF TornDown
  <2>2. u \in Inside
    BY <2>1 DEF Inside
  <2>3. CASE refs = 1
    <3>1. Moves(u, "persisting") /\ refs' = refs /\ ~persisting'
      BY <1>6, <2>3 DEF TornDown
    <3>2. CountInv' /\ Inside' = Inside
      BY <1>0, <2>1, <3>1, Stays DEF Places
    <3>3. Inside = {u}
      BY <1>0, <2>2, <2>3, CountOne
    <3>4. user' \in [Users -> Places] /\ \A v \in Users : user'[v] \in {"out", "persisting"}
      BY <1>0, <3>1, <3>3 DEF TypeInv, Places, Moves, Inside
    <3> QED
      BY <2>1, <3>1, <3>2, <3>3, <3>4 DEF IInv, TypeInv, ConnectionInv, AloneInv, ServedInv
  <2>4. CASE refs # 1
    <3>1. Moves(u, "out") /\ refs' = refs - 1 /\ persisting' = persisting
      BY <1>6, <2>4 DEF TornDown
    <3>2. CountInv'
      BY <1>0, <2>1, <3>1, Goes DEF Places
    <3>3. Inside' # {}
      <4>1. PICK w \in Inside : w # u
        BY <1>0, <2>2, <2>4, CountMany
      <4> QED
        BY <1>0, <3>1, <4>1 DEF Inside, TypeInv, Moves
    <3>4. user' \in [Users -> Places] /\ \A v \in Users : user'[v] # "out" => user'[v] = user[v]
      BY <1>0, <3>1 DEF TypeInv, Places, Moves
    <3>5. ConnectionInv'
      BY <1>0, <2>1, <3>1, <3>3, <3>4 DEF ConnectionInv
    <3>6. AloneInv'
      BY <1>0, <2>1, <3>4 DEF AloneInv, Inside
    <3>7. ServedInv'
      BY <1>0, <2>1, <2>2, <3>4 DEF AloneInv, ServedInv, Inside
    <3> QED
      BY <3>2, <3>4, <3>5, <3>6, <3>7 DEF IInv, TypeInv
  <2> QED
    BY <2>3, <2>4
<1>7. ASSUME NEW u \in Users, Left(u) PROVE IInv'
  <2>1. user[u] = "persisting" /\ Moves(u, "out") /\ refs' = refs - 1
        /\ UNCHANGED <<persisting, connection, overlapped>>
    BY <1>7 DEF Left
  <2>2. CountInv'
    BY <1>0, <2>1, Goes
  <2>3. user' \in [Users -> Places] /\ \A v \in Users : user'[v] # "out" => user'[v] = user[v]
    BY <1>0, <2>1 DEF TypeInv, Places, Moves
  <2>4. ConnectionInv' /\ AloneInv' /\ ServedInv'
    BY <1>0, <2>1, <2>3 DEF ConnectionInv, AloneInv, ServedInv, Inside, connection
  <2> QED
    BY <2>2, <2>3, <2>4 DEF IInv, TypeInv
<1> USE <1>0 DEF ConnectionInv, ServedInv, Alive, Inside
<1>8. CASE TaskEnds
  <2>1. ConnectionInv' /\ ServedInv' /\ UNCHANGED <<user, refs, overlapped>>
    BY <1>8 DEF TaskEnds
  <2> QED
    BY <2>1, TaskStep
<1>9. CASE Connected
  <2>1. ConnectionInv' /\ ServedInv' /\ UNCHANGED <<user, refs, overlapped>>
    BY <1>9 DEF Connected
  <2> QED
    BY <2>1, TaskStep
<1>10. CASE Slept
  <2>1. ConnectionInv' /\ ServedInv' /\ UNCHANGED <<user, refs, overlapped>>
    BY <1>10 DEF Slept
  <2> QED
    BY <2>1, TaskStep
<1>11. CASE MigrationHandled
  <2>1. ConnectionInv' /\ ServedInv' /\ UNCHANGED <<user, refs, overlapped>>
    BY <1>11 DEF MigrationHandled
  <2> QED
    BY <2>1, TaskStep
<1>12. CASE Refused
  <2>1. ConnectionInv' /\ ServedInv' /\ UNCHANGED <<user, refs, overlapped>>
    BY <1>12 DEF Refused
  <2> QED
    BY <2>1, TaskStep
<1>13. CASE Dropped
  <2>1. ConnectionInv' /\ ServedInv' /\ UNCHANGED <<user, refs, overlapped>>
    BY <1>13 DEF Dropped, ReconnectsAfter
  <2> QED
    BY <2>1, TaskStep
<1>14. CASE Migrating
  <2>1. ConnectionInv' /\ ServedInv' /\ UNCHANGED <<user, refs, overlapped>>
    BY <1>14 DEF Migrating
  <2> QED
    BY <2>1, TaskStep
<1>15. CASE UNCHANGED vars
  <2>1. ConnectionInv' /\ ServedInv' /\ UNCHANGED <<user, refs, overlapped>>
    BY <1>15 DEF vars, connection
  <2> QED
    BY <2>1, TaskStep
<1> QED
  BY <1>1, <1>2, <1>3, <1>4, <1>5, <1>6, <1>7, <1>8, <1>9, <1>10, <1>11, <1>12, <1>13, <1>14, <1>15
     DEF Next, Resume, Task

LEMMA Always == Spec => []IInv
<1>1. IInv /\ [Next]_vars => IInv'
  BY Inductive
<1> QED
  BY Initially, <1>1, PTL DEF Spec

-----------------------------------------------------------------------------
(* _apify_event_manager.py __aenter__ and __aexit__: one connection at most,*)
(* and nothing at all once everybody is out.                                *)
THEOREM LeavesNothing == Spec => []NothingLeftBehind
<1>1. IInv => NothingLeftBehind
  <2> SUFFICES ASSUME IInv PROVE NothingLeftBehind
    OBVIOUS
  <2>1. open <= 1
    BY DEF IInv, ConnectionInv
  <2>2. ASSUME \A u \in Users : user[u] = "out"
        PROVE  refs = 0 /\ open = 0 /\ task = "none" /\ future = "none" /\ ~persisting
    <3>1. Inside = {}
      BY <2>2 DEF Inside
    <3>2. refs = 0
      BY <3>1, CountNone DEF IInv
    <3> QED
      BY <3>1, <3>2 DEF IInv, ConnectionInv
  <2> QED
    BY <2>1, <2>2 DEF NothingLeftBehind
<1> QED
  BY Always, <1>1, PTL

(* _apify_event_manager.py _process_platform_messages: whoever is in has a  *)
(* task that receives events or is about to.                                *)
THEOREM Served == Spec => []EventsArrive
<1>1. IInv => EventsArrive
  BY DEF IInv, ServedInv, EventsArrive, Alive
<1> QED
  BY Always, <1>1, PTL

-----------------------------------------------------------------------------
(* Rapid drops in a row are counted from the delays: none before they are   *)
(* set, and one at most whenever the task connects or is connected.         *)
BackoffInv ==
  /\ rapid \in Nat
  /\ ~primed => rapid = 0
  /\ task \in {"connecting", "open", "stopping"} => rapid <= 1

LEMMA BackoffStep == BackoffInv /\ [Next]_vars => BackoffInv'
<1> SUFFICES ASSUME BackoffInv, [Next]_vars PROVE BackoffInv'
  OBVIOUS
<1> USE DEF BackoffInv, connection
<1>1. ASSUME NEW u \in Users, Enter(u) PROVE BackoffInv'
  BY <1>1 DEF Enter, Connect
<1>2. ASSUME NEW u \in Users, Entered(u) PROVE BackoffInv'
  BY <1>2 DEF Entered
<1>3. ASSUME NEW u \in Users, Exit(u) PROVE BackoffInv'
  BY <1>3 DEF Exit, Leaves
<1>4. ASSUME NEW u \in Users, EntryFails(u) PROVE BackoffInv'
  BY <1>4 DEF EntryFails, Leaves
<1>5. ASSUME NEW u \in Users, EntryCancelled(u) PROVE BackoffInv'
  BY <1>5 DEF EntryCancelled, Leaves
<1>6. ASSUME NEW u \in Users, TornDown(u) PROVE BackoffInv'
  BY <1>6 DEF TornDown
<1>7. ASSUME NEW u \in Users, Left(u) PROVE BackoffInv'
  BY <1>7 DEF Left
<1>8. CASE TaskEnds
  BY <1>8 DEF TaskEnds
<1>9. CASE Connected
  BY <1>9 DEF Connected
<1>10. CASE Slept
  BY <1>10 DEF Slept
<1>11. CASE MigrationHandled
  BY <1>11 DEF MigrationHandled
<1>12. CASE Refused
  BY <1>12 DEF Refused
<1>13. CASE Dropped
  <2>1. CASE task' = "ended" /\ UNCHANGED <<primed, rapid>>
    BY <2>1
  <2>2. ASSUME NEW healthy \in BOOLEAN, ReconnectsAfter(healthy),
               rapid' = IF healthy THEN 0 ELSE rapid + 1
        PROVE  BackoffInv'
    <3>1. task = "open"
      BY <1>13 DEF Dropped
    <3>2. CASE healthy
      BY <2>2, <3>2 DEF ReconnectsAfter
    <3>3. CASE ~healthy
      <4>1. rapid' = rapid + 1 /\ primed'
        BY <2>2, <3>3 DEF ReconnectsAfter
      <4>2. task' = "connecting" => ~primed
        BY <2>2, <3>3 DEF ReconnectsAfter
      <4>3. task' \in {"connecting", "backoff"}
        BY <2>2 DEF ReconnectsAfter
      <4> QED
        BY <4>1, <4>2, <4>3
    <3> QED
      BY <3>2, <3>3
  <2> QED
    BY <1>13, <2>1, <2>2 DEF Dropped
<1>14. CASE Migrating
  BY <1>14 DEF Migrating
<1>15. CASE UNCHANGED vars
  BY <1>15 DEF vars
<1> QED
  BY <1>1, <1>2, <1>3, <1>4, <1>5, <1>6, <1>7, <1>8, <1>9, <1>10, <1>11, <1>12, <1>13, <1>14, <1>15
     DEF Next, Resume, Task

(* _apify_event_manager.py _process_platform_messages: of two rapid drops   *)
(* in a row the second is slept upon before the next connection.            *)
THEOREM BackedOff == Spec => BacksOff
<1>1. Init => BackoffInv
  BY DEF Init, BackoffInv
<1>2. BackoffInv => [Connected => rapid <= 1]_vars
  BY DEF BackoffInv, Connected
<1> QED
  BY <1>1, <1>2, BackoffStep, PTL DEF Spec, BacksOff
=============================================================================
