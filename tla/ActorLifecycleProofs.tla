------------------------ MODULE ActorLifecycleProofs ------------------------
(***************************************************************************)
(* Proofs about ActorLifecycle, for any number of tasks, stores, calls and  *)
(* failures: a failed initialization or a reboot leaves nothing behind that *)
(* blocks the next, failures reach the exit code, and what use_state holds  *)
(* is saved.                                                                *)
(*                                                                          *)
(* The invariants build on one another: types, who initializes, exits and   *)
(* reboots (one task each at a time), and on those the count of managers,   *)
(* the exit code and the owed stores.                                       *)
(***************************************************************************)
EXTENDS ActorLifecycle, TLAPS

Places == {"idle", "entering_events", "entering_charging", "undoing", "opening",
           "status", "sleep", "event_manager", "saving", "listeners", "rebooting"}

(* What the proofs need of the types.                                       *)
TypeInv ==
  /\ exit_code \in Nat /\ process \in Nat \cup {Running}
  /\ reboots \in Nat
  /\ owed \subseteq stores
  /\ pc \in [Tasks -> Places]
  /\ raised \in [Tasks -> Exceptions]

Starting(t) == pc[t] \in {"entering_events", "entering_charging", "undoing"}
Rebooting(t) == pc[t] \in {"listeners", "rebooting"}

(* One task at a time initializes the Actor, exits it, or reboots the run:  *)
(* each of them is announced by a flag before the first await.              *)
OneInits ==
  /\ \A t, u \in Tasks : Entering(t) /\ Entering(u) => t = u
  /\ \A t \in Tasks : Starting(t) => ~active /\ ~is_exiting

OneExits ==
  /\ \A t, u \in Tasks : Exiting(t) /\ Exiting(u) => t = u
  /\ \A t \in Tasks : Exiting(t) => active /\ is_exiting

OneReboots ==
  /\ \A t, u \in Tasks : Rebooting(t) /\ Rebooting(u) => t = u
  /\ \A t \in Tasks : Rebooting(t) => is_rebooting
  /\ reboots > 0 => is_rebooting /\ \A t \in Tasks : ~Rebooting(t)

(* The managers are entered exactly while the Actor is active, but for the  *)
(* steps in between and for a cleanup that was cut short: after that the    *)
(* charging manager refuses every further initialization.                   *)
CountInv ==
  /\ refs \in Nat
  /\ active /\ (\A t \in Tasks : pc[t] # "saving") => charging /\ refs = 1
  /\ \A t \in Tasks : pc[t] = "saving" => ~charging /\ refs = 0
  /\ ~active /\ (\A t \in Tasks : pc[t] \notin {"entering_charging", "undoing"}) =>
       refs = 0 \/ (cut /\ charging)
  /\ \A t \in Tasks : pc[t] = "entering_charging" => charging /\ refs = 1
  /\ \A t \in Tasks : pc[t] = "undoing" => charging /\ refs > 0 /\ (cut \/ refs = 1)

(* A failure begins an exit with a code that is not 0, and as long as the   *)
(* process runs the task that took it on is still exiting: __aexit__ ends   *)
(* without sys.exit only where the block's exception goes on instead.       *)
FailureInv ==
  /\ leaving \in BOOLEAN
  /\ exit_process /\ ~overlapped /\ ~called_off =>
       /\ \A t \in Tasks : Exiting(t) /\ raised[t] = "interrupt" => leaving
       /\ process = Running /\ is_exiting => \E t \in Tasks : Exiting(t)
       /\ process = Running /\ failed => is_exiting /\ exit_code # 0
       /\ process # Running /\ failed => process # 0

(* Nothing more can be owed once somebody saved before an end.              *)
Settled ==
  \/ process # Running \/ reboots > 0
  \/ \E t \in Tasks : pc[t] = "rebooting"
  \/ is_exiting /\ \A t \in Tasks : ~Exiting(t)

SavedInv == ~cut /\ Settled => owed \subseteq lost

-----------------------------------------------------------------------------
(* What a call of exit and a call of fail have in common.                   *)
AexitCalled(t, exc, code) ==
  CallAexit(t, exc, code) /\ (called_off' <=> called_off \/ exc = "interrupt")

LEMMA EitherCall ==
  /\ \A t \in Tasks, code \in Codes : CallExit(t, code) => AexitCalled(t, "nothing", code)
  /\ \A t \in Tasks, exc \in Exceptions, code \in Codes :
       CallFail(t, exc, code) => AexitCalled(t, exc, code)
  /\ "nothing" \in Exceptions
<1>1. ASSUME NEW t \in Tasks, NEW code \in Codes, CallExit(t, code)
      PROVE  AexitCalled(t, "nothing", code)
  BY <1>1 DEF CallExit, AexitCalled
<1>2. ASSUME NEW t \in Tasks, NEW exc \in Exceptions, NEW code \in Codes, CallFail(t, exc, code)
      PROVE  AexitCalled(t, exc, code)
  BY <1>2 DEF CallFail, AexitCalled
<1> QED
  BY <1>1, <1>2 DEF Exceptions

(* What the cleanup's timeout and a cancellation have in common.            *)
CutOff(t) ==
  /\ process = Running /\ Exiting(t) /\ cut'
  /\ \/ active' = FALSE /\ Goes(t, "idle") /\ LeavesManager(t)
     \/ pc[t] = "event_manager" /\ UNCHANGED <<active, pc, refs>>
  /\ UNCHANGED <<config, is_exiting, is_rebooting, exit_code, charging, stores, reboots, owed, lost>>

LEMMA EitherCutOff ==
  \A t \in Tasks : CleanupTimesOut(t) \/ CleanupCancelled(t) => CutOff(t)
BY DEF CleanupTimesOut, CleanupCancelled, CutOff, Returns, Leaves, Swallowed

LEMMA Returning ==
  ASSUME TypeInv, NEW t \in Tasks, Returns(t)
  PROVE  /\ process' \in Nat \cup {Running}
         /\ pc' \in [Tasks -> Places] /\ raised' \in [Tasks -> Exceptions]
<1>1. pc' \in [Tasks -> Places] /\ raised' \in [Tasks -> Exceptions]
  BY DEF TypeInv, Returns, Leaves, Goes, Exceptions, Places
<1>2. process' \in {exit_code, process, 0, 1, 2}
  BY DEF Returns, GoesOn, LeavesWith
<1> QED
  BY <1>1, <1>2 DEF TypeInv

(* Every step keeps the types.                                              *)
LEMMA TypeStep ==
  ASSUME TypeInv
  PROVE  [Next]_vars => TypeInv'
<1> USE DEF TypeInv, Places, Exceptions, Running, Goes, At, vars, config, flags, managers,
            aexit, history, bounds
<1>1. ASSUME NEW t \in Tasks, CallInit(t) PROVE TypeInv'
  BY <1>1 DEF CallInit, Call
<1>2. ASSUME NEW t \in Tasks, EventsEntered(t) PROVE TypeInv'
  BY <1>2 DEF EventsEntered
<1>3. ASSUME NEW t \in Tasks, EventsFail(t) PROVE TypeInv'
  BY <1>3 DEF EventsFail
<1>4. ASSUME NEW t \in Tasks, ChargingEntered(t) PROVE TypeInv'
  BY <1>4 DEF ChargingEntered
<1>5. ASSUME NEW t \in Tasks, ChargingFails(t) PROVE TypeInv'
  BY <1>5 DEF ChargingFails
<1>6. ASSUME NEW t \in Tasks, Undone(t) PROVE TypeInv'
  BY <1>6 DEF Undone
<1>7. ASSUME NEW t \in Tasks, Opened(t) PROVE TypeInv'
  BY <1>7 DEF Opened
<1>8. ASSUME NEW t \in Tasks, NEW s \in Stores, UseState(t, s) PROVE TypeInv'
  BY <1>8 DEF UseState
<1>9. ASSUME Persisted PROVE TypeInv'
  BY <1>9 DEF Persisted
<1>10. ASSUME NEW exc \in Exceptions, BlockEnds(exc) PROVE TypeInv'
  <2>1. exit_code' \in Nat /\ process' \in Nat \cup {Running} /\ UNCHANGED <<reboots, owed, stores>>
    BY <1>10 DEF BlockEnds, Ends, LeavesWith, StartsCleanup, CodeAfter, ErrorUserFunctionThrew
  <2>2. pc' \in [Tasks -> Places] /\ raised' \in [Tasks -> Exceptions]
    BY <1>10 DEF BlockEnds, Ends, LeavesWith, StartsCleanup, Tasks
  <2> QED
    BY <2>1, <2>2
<1>11. ASSUME NEW t \in Tasks, NEW exc \in Exceptions, NEW code \in Codes, AexitCalled(t, exc, code)
       PROVE TypeInv'
  <2>1. exit_code' \in Nat /\ UNCHANGED <<process, reboots, owed, stores>>
    BY <1>11 DEF AexitCalled, CallAexit, StartsCleanup, CodeAfter, Codes, ErrorUserFunctionThrew
  <2>2. pc' \in [Tasks -> Places] /\ raised' \in [Tasks -> Exceptions]
    BY <1>11 DEF AexitCalled, CallAexit, StartsCleanup
  <2> QED
    BY <2>1, <2>2
<1>12. ASSUME NEW t \in Tasks, StatusSent(t) PROVE TypeInv'
  BY <1>12 DEF StatusSent
<1>13. ASSUME NEW t \in Tasks, ListenersDone(t) PROVE TypeInv'
  BY <1>13 DEF ListenersDone
<1>14. ASSUME NEW t \in Tasks, ManagersExited(t) PROVE TypeInv'
  BY <1>14 DEF ManagersExited
<1>15. ASSUME NEW t \in Tasks, Saved(t) PROVE TypeInv'
  <2>1. owed' \subseteq stores' /\ UNCHANGED <<exit_code, reboots>>
    BY <1>15 DEF Saved, AfterSaving
  <2>2. process' \in Nat \cup {Running} /\ pc' \in [Tasks -> Places] /\ raised' \in [Tasks -> Exceptions]
    BY <1>15, Returning DEF Saved
  <2> QED
    BY <2>1, <2>2
<1>16. ASSUME NEW t \in Tasks, CleanupTimesOut(t) PROVE TypeInv'
  <2>1. UNCHANGED <<exit_code, reboots, owed, stores>>
    BY <1>16 DEF CleanupTimesOut
  <2>2. process' \in Nat \cup {Running} /\ pc' \in [Tasks -> Places] /\ raised' \in [Tasks -> Exceptions]
    BY <1>16, Returning DEF CleanupTimesOut, Swallowed
  <2> QED
    BY <2>1, <2>2
<1>17. ASSUME NEW t \in Tasks, CallReboot(t) PROVE TypeInv'
  BY <1>17 DEF CallReboot, Call
<1>18. ASSUME NEW t \in Tasks, ListenersCalled(t) PROVE TypeInv'
  BY <1>18 DEF ListenersCalled, AfterSaving
<1>19. ASSUME NEW t \in Tasks, Rebooted(t) PROVE TypeInv'
  <2>1. reboots' \in Nat /\ UNCHANGED <<exit_code, process, raised, owed, stores>>
    BY <1>19 DEF Rebooted
  <2>2. pc' \in [Tasks -> Places]
    BY <1>19 DEF Rebooted
  <2> QED
    BY <2>1, <2>2
<1>20. ASSUME NEW t \in Tasks, RebootFails(t) PROVE TypeInv'
  BY <1>20 DEF RebootFails
<1>21. CASE UNCHANGED vars
  BY <1>21
<1>22. ASSUME NEW t \in Tasks, OpeningFails(t) PROVE TypeInv'
  BY <1>22 DEF OpeningFails
<1>23. ASSUME NEW t \in Tasks, CleanupCancelled(t) PROVE TypeInv'
  <2>1. UNCHANGED <<exit_code, reboots, owed, stores>>
    BY <1>23 DEF CleanupCancelled
  <2>2. CASE Leaves(t) /\ GoesOn("interrupt")
    BY <2>1, <2>2 DEF Leaves, GoesOn, LeavesWith
  <2>3. CASE Swallowed(t) /\ raised' \in {raised, [raised EXCEPT ![t] = "interrupt"]}
    BY <2>1, <2>3 DEF Swallowed
  <2> QED
    BY <1>23, <2>2, <2>3 DEF CleanupCancelled
<1> QED
  BY <1>1, <1>2, <1>3, <1>4, <1>5, <1>6, <1>7, <1>8, <1>9, <1>10, <1>11, <1>12, <1>13, <1>14,
     <1>15, <1>16, <1>17, <1>18, <1>19, <1>20, <1>21, <1>22, <1>23, EitherCall
     DEF Next, Resume, Fail

(* Every step keeps it at one task that initializes the Actor.              *)
LEMMA InitsStep ==
  ASSUME TypeInv, OneInits
  PROVE  [Next]_vars => OneInits'
<1> USE DEF TypeInv, OneInits, Entering, Starting, Places, Goes, At, vars, config, flags,
            managers, aexit, history, bounds
<1>1. ASSUME NEW t \in Tasks, CallInit(t) PROVE OneInits'
  BY <1>1 DEF CallInit, Call
<1>2. ASSUME NEW t \in Tasks, EventsEntered(t) PROVE OneInits'
  BY <1>2 DEF EventsEntered
<1>3. ASSUME NEW t \in Tasks, EventsFail(t) PROVE OneInits'
  BY <1>3 DEF EventsFail
<1>4. ASSUME NEW t \in Tasks, ChargingEntered(t) PROVE OneInits'
  BY <1>4 DEF ChargingEntered
<1>5. ASSUME NEW t \in Tasks, ChargingFails(t) PROVE OneInits'
  BY <1>5 DEF ChargingFails
<1>6. ASSUME NEW t \in Tasks, Undone(t) PROVE OneInits'
  BY <1>6 DEF Undone
<1>7. ASSUME NEW t \in Tasks, Opened(t) PROVE OneInits'
  BY <1>7 DEF Opened
<1>8. ASSUME NEW t \in Tasks, NEW s \in Stores, UseState(t, s) PROVE OneInits'
  BY <1>8 DEF UseState
<1>9. ASSUME Persisted PROVE OneInits'
  BY <1>9 DEF Persisted
<1>10. ASSUME NEW exc \in Exceptions, BlockEnds(exc) PROVE OneInits'
  BY <1>10 DEF BlockEnds, Ends, LeavesWith, StartsCleanup
<1>11. ASSUME NEW t \in Tasks, NEW exc \in Exceptions, NEW code \in Codes, AexitCalled(t, exc, code)
       PROVE OneInits'
  BY <1>11 DEF AexitCalled, CallAexit, Call, StartsCleanup
<1>12. ASSUME NEW t \in Tasks, StatusSent(t) PROVE OneInits'
  BY <1>12 DEF StatusSent
<1>13. ASSUME NEW t \in Tasks, ListenersDone(t) PROVE OneInits'
  BY <1>13 DEF ListenersDone
<1>14. ASSUME NEW t \in Tasks, ManagersExited(t) PROVE OneInits'
  BY <1>14 DEF ManagersExited
<1>15. ASSUME NEW t \in Tasks, Saved(t) PROVE OneInits'
  BY <1>15 DEF Saved, Returns, Leaves, GoesOn
<1>16. ASSUME NEW t \in Tasks, CutOff(t) PROVE OneInits'
  BY <1>16 DEF CutOff
<1>17. ASSUME NEW t \in Tasks, CallReboot(t) PROVE OneInits'
  BY <1>17 DEF CallReboot, Call
<1>18. ASSUME NEW t \in Tasks, ListenersCalled(t) PROVE OneInits'
  BY <1>18 DEF ListenersCalled
<1>19. ASSUME NEW t \in Tasks, Rebooted(t) PROVE OneInits'
  BY <1>19 DEF Rebooted
<1>20. ASSUME NEW t \in Tasks, RebootFails(t) PROVE OneInits'
  BY <1>20 DEF RebootFails
<1>21. CASE UNCHANGED vars
  BY <1>21
<1>22. ASSUME NEW t \in Tasks, OpeningFails(t) PROVE OneInits'
  BY <1>22 DEF OpeningFails
<1> QED
  BY <1>1, <1>2, <1>3, <1>4, <1>5, <1>6, <1>7, <1>8, <1>9, <1>10, <1>11, <1>12, <1>13, <1>14,
     <1>15, <1>16, <1>17, <1>18, <1>19, <1>20, <1>21, <1>22, EitherCall, EitherCutOff
     DEF Next, Resume, Fail

(* Every step keeps it at one task that exits.                              *)
LEMMA ExitsStep ==
  ASSUME TypeInv, OneInits, OneExits
  PROVE  [Next]_vars => OneExits'
<1> USE DEF TypeInv, OneInits, OneExits, Starting, Exiting, Places, Goes, At, vars, config,
            flags, managers, aexit, history, bounds
<1>1. ASSUME NEW t \in Tasks, CallInit(t) PROVE OneExits'
  BY <1>1 DEF CallInit, Call
<1>2. ASSUME NEW t \in Tasks, EventsEntered(t) PROVE OneExits'
  BY <1>2 DEF EventsEntered
<1>3. ASSUME NEW t \in Tasks, EventsFail(t) PROVE OneExits'
  BY <1>3 DEF EventsFail
<1>4. ASSUME NEW t \in Tasks, ChargingEntered(t) PROVE OneExits'
  BY <1>4 DEF ChargingEntered
<1>5. ASSUME NEW t \in Tasks, ChargingFails(t) PROVE OneExits'
  BY <1>5 DEF ChargingFails
<1>6. ASSUME NEW t \in Tasks, Undone(t) PROVE OneExits'
  BY <1>6 DEF Undone
<1>7. ASSUME NEW t \in Tasks, Opened(t) PROVE OneExits'
  BY <1>7 DEF Opened
<1>8. ASSUME NEW t \in Tasks, NEW s \in Stores, UseState(t, s) PROVE OneExits'
  BY <1>8 DEF UseState
<1>9. ASSUME Persisted PROVE OneExits'
  BY <1>9 DEF Persisted
<1>10. ASSUME NEW exc \in Exceptions, BlockEnds(exc) PROVE OneExits'
  BY <1>10 DEF BlockEnds, Ends, LeavesWith, StartsCleanup
<1>11. ASSUME NEW t \in Tasks, NEW exc \in Exceptions, NEW code \in Codes, AexitCalled(t, exc, code)
       PROVE OneExits'
  BY <1>11 DEF AexitCalled, CallAexit, Call, StartsCleanup
<1>12. ASSUME NEW t \in Tasks, StatusSent(t) PROVE OneExits'
  BY <1>12 DEF StatusSent
<1>13. ASSUME NEW t \in Tasks, ListenersDone(t) PROVE OneExits'
  BY <1>13 DEF ListenersDone
<1>14. ASSUME NEW t \in Tasks, ManagersExited(t) PROVE OneExits'
  BY <1>14 DEF ManagersExited
<1>15. ASSUME NEW t \in Tasks, Saved(t) PROVE OneExits'
  BY <1>15 DEF Saved, Returns, Leaves, GoesOn
<1>16. ASSUME NEW t \in Tasks, CutOff(t) PROVE OneExits'
  BY <1>16 DEF CutOff
<1>17. ASSUME NEW t \in Tasks, CallReboot(t) PROVE OneExits'
  BY <1>17 DEF CallReboot, Call
<1>18. ASSUME NEW t \in Tasks, ListenersCalled(t) PROVE OneExits'
  BY <1>18 DEF ListenersCalled
<1>19. ASSUME NEW t \in Tasks, Rebooted(t) PROVE OneExits'
  BY <1>19 DEF Rebooted
<1>20. ASSUME NEW t \in Tasks, RebootFails(t) PROVE OneExits'
  BY <1>20 DEF RebootFails
<1>21. CASE UNCHANGED vars
  BY <1>21
<1>22. ASSUME NEW t \in Tasks, OpeningFails(t) PROVE OneExits'
  BY <1>22 DEF OpeningFails
<1> QED
  BY <1>1, <1>2, <1>3, <1>4, <1>5, <1>6, <1>7, <1>8, <1>9, <1>10, <1>11, <1>12, <1>13, <1>14,
     <1>15, <1>16, <1>17, <1>18, <1>19, <1>20, <1>21, <1>22, EitherCall, EitherCutOff
     DEF Next, Resume, Fail

(* Every step keeps it at one task that reboots the run.                    *)
LEMMA RebootsStep ==
  ASSUME TypeInv, OneReboots
  PROVE  [Next]_vars => OneReboots'
<1> USE DEF TypeInv, OneReboots, Rebooting, Places, Goes, At, vars, config, flags, managers,
            aexit, history, bounds
<1>1. ASSUME NEW t \in Tasks, CallInit(t) PROVE OneReboots'
  BY <1>1 DEF CallInit, Call
<1>2. ASSUME NEW t \in Tasks, EventsEntered(t) PROVE OneReboots'
  BY <1>2 DEF EventsEntered
<1>3. ASSUME NEW t \in Tasks, EventsFail(t) PROVE OneReboots'
  BY <1>3 DEF EventsFail
<1>4. ASSUME NEW t \in Tasks, ChargingEntered(t) PROVE OneReboots'
  BY <1>4 DEF ChargingEntered
<1>5. ASSUME NEW t \in Tasks, ChargingFails(t) PROVE OneReboots'
  BY <1>5 DEF ChargingFails
<1>6. ASSUME NEW t \in Tasks, Undone(t) PROVE OneReboots'
  BY <1>6 DEF Undone
<1>7. ASSUME NEW t \in Tasks, Opened(t) PROVE OneReboots'
  BY <1>7 DEF Opened
<1>8. ASSUME NEW t \in Tasks, NEW s \in Stores, UseState(t, s) PROVE OneReboots'
  BY <1>8 DEF UseState
<1>9. ASSUME Persisted PROVE OneReboots'
  BY <1>9 DEF Persisted
<1>10. ASSUME NEW exc \in Exceptions, BlockEnds(exc) PROVE OneReboots'
  BY <1>10 DEF BlockEnds, Ends, LeavesWith, StartsCleanup
<1>11. ASSUME NEW t \in Tasks, NEW exc \in Exceptions, NEW code \in Codes, AexitCalled(t, exc, code)
       PROVE OneReboots'
  BY <1>11 DEF AexitCalled, CallAexit, Call, StartsCleanup
<1>12. ASSUME NEW t \in Tasks, StatusSent(t) PROVE OneReboots'
  BY <1>12 DEF StatusSent
<1>13. ASSUME NEW t \in Tasks, ListenersDone(t) PROVE OneReboots'
  BY <1>13 DEF ListenersDone
<1>14. ASSUME NEW t \in Tasks, ManagersExited(t) PROVE OneReboots'
  BY <1>14 DEF ManagersExited
<1>15. ASSUME NEW t \in Tasks, Saved(t) PROVE OneReboots'
  BY <1>15 DEF Saved, Returns, Leaves, GoesOn
<1>16. ASSUME NEW t \in Tasks, CutOff(t) PROVE OneReboots'
  BY <1>16 DEF CutOff, Exiting
<1>17. ASSUME NEW t \in Tasks, CallReboot(t) PROVE OneReboots'
  BY <1>17 DEF CallReboot, Call
<1>18. ASSUME NEW t \in Tasks, ListenersCalled(t) PROVE OneReboots'
  BY <1>18 DEF ListenersCalled
<1>19. ASSUME NEW t \in Tasks, Rebooted(t) PROVE OneReboots'
  BY <1>19 DEF Rebooted
<1>20. ASSUME NEW t \in Tasks, RebootFails(t) PROVE OneReboots'
  BY <1>20 DEF RebootFails
<1>21. CASE UNCHANGED vars
  BY <1>21
<1>22. ASSUME NEW t \in Tasks, OpeningFails(t) PROVE OneReboots'
  BY <1>22 DEF OpeningFails
<1> QED
  BY <1>1, <1>2, <1>3, <1>4, <1>5, <1>6, <1>7, <1>8, <1>9, <1>10, <1>11, <1>12, <1>13, <1>14,
     <1>15, <1>16, <1>17, <1>18, <1>19, <1>20, <1>21, <1>22, EitherCall, EitherCutOff
     DEF Next, Resume, Fail

(* Every step keeps the count of managers.                                  *)
LEMMA CountStep ==
  ASSUME TypeInv, OneInits, OneExits, CountInv
  PROVE  [Next]_vars => CountInv'
<1> USE DEF TypeInv, OneInits, OneExits, CountInv, Starting, Entering, Exiting, Places, Goes, At,
            vars, config, flags, managers,
            aexit, history, bounds
<1>1. ASSUME NEW t \in Tasks, CallInit(t) PROVE CountInv'
  BY <1>1 DEF CallInit, Call
<1>2. ASSUME NEW t \in Tasks, EventsEntered(t) PROVE CountInv'
  <2>1. ~active
    BY <1>2 DEF EventsEntered
  <2>2. \A u \in Tasks \ {t} : ~Entering(u) /\ ~Exiting(u)
    BY <1>2, <2>1 DEF EventsEntered
  <2>3. refs = 0 \/ (cut /\ charging)
    BY <1>2, <2>1, <2>2 DEF EventsEntered
  <2>4. refs' = refs + 1 /\ charging' /\ UNCHANGED <<active, cut>>
    BY <1>2 DEF EventsEntered
  <2>5. \A u \in Tasks \ {t} : pc'[u] \notin {"entering_charging", "undoing", "saving"}
    BY <1>2, <2>2 DEF EventsEntered
  <2>6. CASE charging
    <3>1. pc'[t] = "undoing"
      BY <1>2, <2>6 DEF EventsEntered
    <3> QED
      BY <2>1, <2>3, <2>4, <2>5, <3>1
  <2>7. CASE ~charging
    <3>1. pc'[t] = "entering_charging"
      BY <1>2, <2>7 DEF EventsEntered
    <3> QED
      BY <2>1, <2>3, <2>4, <2>5, <2>7, <3>1
  <2> QED
    BY <2>6, <2>7
<1>3. ASSUME NEW t \in Tasks, EventsFail(t) PROVE CountInv'
  BY <1>3 DEF EventsFail
<1>4. ASSUME NEW t \in Tasks, ChargingEntered(t) PROVE CountInv'
  BY <1>4 DEF ChargingEntered
<1>5. ASSUME NEW t \in Tasks, ChargingFails(t) PROVE CountInv'
  <2>1. ~active /\ charging /\ refs = 1
    BY <1>5 DEF ChargingFails
  <2>2. \A u \in Tasks \ {t} : ~Entering(u) /\ ~Exiting(u)
    BY <1>5, <2>1 DEF ChargingFails
  <2>3. UNCHANGED <<refs, active, charging, cut>> /\ pc' = [pc EXCEPT ![t] = "undoing"]
    BY <1>5 DEF ChargingFails
  <2>4. pc'[t] = "undoing" /\ \A u \in Tasks \ {t} : pc'[u] \notin {"entering_charging",
     "undoing", "saving"}
    BY <2>2, <2>3
  <2> QED
    BY <2>1, <2>3, <2>4
<1>6. ASSUME NEW t \in Tasks, Undone(t) PROVE CountInv'
  <2>1. ~active /\ charging /\ refs > 0 /\ (cut \/ refs = 1)
    BY <1>6 DEF Undone
  <2>2. \A u \in Tasks \ {t} : ~Entering(u) /\ ~Exiting(u)
    BY <1>6, <2>1 DEF Undone
  <2>3. refs' = refs - 1 /\ ~active' /\ charging' /\ cut' = cut /\ pc' = [pc EXCEPT ![t] = "idle"]
    BY <1>6, <2>1 DEF Undone
  <2>4. \A u \in Tasks : pc'[u] \notin {"entering_charging", "undoing", "saving"}
    BY <2>2, <2>3
  <2> QED
    BY <2>1, <2>3, <2>4
<1>7. ASSUME NEW t \in Tasks, Opened(t) PROVE CountInv'
  BY <1>7 DEF Opened
<1>8. ASSUME NEW t \in Tasks, NEW s \in Stores, UseState(t, s) PROVE CountInv'
  BY <1>8 DEF UseState
<1>9. ASSUME Persisted PROVE CountInv'
  BY <1>9 DEF Persisted
<1>10. ASSUME NEW exc \in Exceptions, BlockEnds(exc) PROVE CountInv'
  BY <1>10 DEF BlockEnds, Ends, LeavesWith, StartsCleanup
<1>11. ASSUME NEW t \in Tasks, NEW exc \in Exceptions, NEW code \in Codes, AexitCalled(t, exc, code)
       PROVE CountInv'
  BY <1>11 DEF AexitCalled, CallAexit, Call, StartsCleanup
<1>12. ASSUME NEW t \in Tasks, StatusSent(t) PROVE CountInv'
  BY <1>12 DEF StatusSent
<1>13. ASSUME NEW t \in Tasks, ListenersDone(t) PROVE CountInv'
  BY <1>13 DEF ListenersDone
<1>14. ASSUME NEW t \in Tasks, ManagersExited(t) PROVE CountInv'
  <2>1. active /\ charging /\ refs = 1
    BY <1>14 DEF ManagersExited
  <2>2. refs' = 0 /\ ~charging' /\ active' /\ pc' = [pc EXCEPT ![t] = "saving"]
    BY <1>14, <2>1 DEF ManagersExited
  <2>3. \A u \in Tasks : ~Starting(u)
    BY <2>1
  <2> QED
    BY <2>2, <2>3
<1>15. ASSUME NEW t \in Tasks, Saved(t) PROVE CountInv'
  BY <1>15 DEF Saved, Returns, Leaves, GoesOn
<1>16. ASSUME NEW t \in Tasks, CutOff(t) PROVE CountInv'
  <2>1. CASE Goes(t, "idle") /\ active' = FALSE /\ LeavesManager(t) /\ pc[t] = "event_manager"
    BY <1>16, <2>1 DEF CutOff, LeavesManager
  <2>2. CASE Goes(t, "idle") /\ active' = FALSE /\ LeavesManager(t) /\ pc[t] = "saving"
    BY <1>16, <2>2 DEF CutOff, LeavesManager
  <2>3. CASE Goes(t, "idle") /\ active' = FALSE /\ LeavesManager(t) /\ pc[t] \in {"status", "sleep"}
    BY <1>16, <2>3 DEF CutOff, LeavesManager
  <2>4. CASE pc[t] = "event_manager" /\ UNCHANGED <<active, pc, refs>>
    BY <1>16, <2>4 DEF CutOff
  <2> QED
    BY <1>16, <2>1, <2>2, <2>3, <2>4 DEF CutOff
<1>17. ASSUME NEW t \in Tasks, CallReboot(t) PROVE CountInv'
  BY <1>17 DEF CallReboot, Call
<1>18. ASSUME NEW t \in Tasks, ListenersCalled(t) PROVE CountInv'
  BY <1>18 DEF ListenersCalled
<1>19. ASSUME NEW t \in Tasks, Rebooted(t) PROVE CountInv'
  BY <1>19 DEF Rebooted
<1>20. ASSUME NEW t \in Tasks, RebootFails(t) PROVE CountInv'
  BY <1>20 DEF RebootFails
<1>21. CASE UNCHANGED vars
  BY <1>21
<1>22. ASSUME NEW t \in Tasks, OpeningFails(t) PROVE CountInv'
  BY <1>22 DEF OpeningFails
<1> QED
  BY <1>1, <1>2, <1>3, <1>4, <1>5, <1>6, <1>7, <1>8, <1>9, <1>10, <1>11, <1>12, <1>13, <1>14,
     <1>15, <1>16, <1>17, <1>18, <1>19, <1>20, <1>21, <1>22, EitherCall, EitherCutOff
     DEF Next, Resume, Fail

(* A return of __aexit__ leaves nobody exiting; it takes a failure along.   *)
LEMMA ExitingLeft ==
  ASSUME TypeInv, OneExits, NEW t \in Tasks, Exiting(t), Leaves(t)
  PROVE  \A u \in Tasks : ~Exiting(u)'
BY DEF TypeInv, OneExits, Exiting, Leaves, Goes, Places

LEMMA ReturnKeeps ==
  ASSUME TypeInv, OneExits, FailureInv, NEW t \in Tasks, Exiting(t), Returns(t), process = Running,
         UNCHANGED <<exit_process, overlapped, called_off, failed, is_exiting>>
  PROVE  FailureInv'
<1>1. leaving' = FALSE /\ \A u \in Tasks : ~Exiting(u)'
  BY ExitingLeft DEF Returns, Leaves
<1>2. ASSUME exit_process, ~overlapped, ~called_off
      PROVE  process' # Running /\ (failed => process' # 0)
  <2>1. raised[t] = "interrupt" => leaving
    BY <1>2 DEF FailureInv
  <2>2. raised[t] = "interrupt" => process' = 1
    BY <2>1 DEF Returns, GoesOn, LeavesWith
  <2>3. raised[t] # "interrupt" => process' = exit_code
    BY <1>2 DEF Returns
  <2>4. exit_code \in Nat /\ (failed => exit_code # 0)
    BY <1>2 DEF FailureInv, TypeInv
  <2> QED
    BY <2>2, <2>3, <2>4 DEF Running
<1> QED
  BY <1>1, <1>2 DEF FailureInv, Running

(* Every step keeps a failure in the exit code.                             *)
LEMMA FailureStep ==
  ASSUME TypeInv, OneInits, OneExits, FailureInv
  PROVE  [Next]_vars => FailureInv'
<1> USE DEF TypeInv, OneInits, OneExits, FailureInv, Starting, Entering, Exiting, Places,
            Exceptions, Running, Goes, At, vars, config, flags, managers,
            aexit, history, bounds
<1>1. ASSUME NEW t \in Tasks, CallInit(t) PROVE FailureInv'
  BY <1>1 DEF CallInit, Call
<1>2. ASSUME NEW t \in Tasks, EventsEntered(t) PROVE FailureInv'
  BY <1>2 DEF EventsEntered
<1>3. ASSUME NEW t \in Tasks, EventsFail(t) PROVE FailureInv'
  BY <1>3 DEF EventsFail
<1>4. ASSUME NEW t \in Tasks, ChargingEntered(t) PROVE FailureInv'
  BY <1>4 DEF ChargingEntered
<1>5. ASSUME NEW t \in Tasks, ChargingFails(t) PROVE FailureInv'
  BY <1>5 DEF ChargingFails
<1>6. ASSUME NEW t \in Tasks, Undone(t) PROVE FailureInv'
  BY <1>6 DEF Undone
<1>7. ASSUME NEW t \in Tasks, Opened(t) PROVE FailureInv'
  BY <1>7 DEF Opened
<1>8. ASSUME NEW t \in Tasks, NEW s \in Stores, UseState(t, s) PROVE FailureInv'
  BY <1>8 DEF UseState
<1>9. ASSUME Persisted PROVE FailureInv'
  BY <1>9 DEF Persisted
<1>10. ASSUME NEW exc \in Exceptions, BlockEnds(exc) PROVE FailureInv'
  <2>1. Main \in Tasks /\ pc[Main] = "idle" /\ process = Running
    BY <1>10 DEF BlockEnds, Tasks
  <2>2. (overlapped => overlapped') /\ UNCHANGED <<exit_process, called_off>>
    BY <1>10 DEF BlockEnds
  <2>3. CASE is_exiting
    <3>1. exit_process /\ ~overlapped /\ ~called_off => overlapped'
      BY <1>10, <2>1, <2>3 DEF BlockEnds, Tasks
    <3>2. UNCHANGED leaving
      BY <1>10, <2>3 DEF BlockEnds
    <3> QED
      BY <2>2, <3>1, <3>2
  <2>4. CASE ~is_exiting
    <3>1. pc' = [pc EXCEPT ![Main] = "status"] /\ leaving' = TRUE /\ is_exiting' /\ process' = Running
      BY <1>10, <2>1, <2>4 DEF BlockEnds, StartsCleanup
    <3>2. exit_process /\ ~overlapped /\ ~called_off => ~failed
      BY <2>1, <2>4
    <3>3. ASSUME exit_process, ~overlapped, ~called_off, failed' PROVE exit_code' # 0
      <4>1. exc \in {"exception", "sys_exit"}
        BY <1>10, <3>2, <3>3 DEF BlockEnds
      <4> QED
        BY <1>10, <2>4, <4>1 DEF BlockEnds, StartsCleanup, CodeAfter, ErrorUserFunctionThrew
    <3>4. Exiting(Main)'
      BY <2>1, <3>1
    <3> QED
      BY <2>1, <2>2, <3>1, <3>3, <3>4
  <2> QED
    BY <2>3, <2>4
<1>11. ASSUME NEW t \in Tasks, NEW exc \in Exceptions, NEW code \in Codes, AexitCalled(t, exc, code)
       PROVE FailureInv'
  <2>1. pc[t] = "idle" /\ process = Running /\ process' = Running /\ exit_process' = exit_process
    BY <1>11 DEF AexitCalled, CallAexit, Call
  <2>2. (overlapped => overlapped') /\ (called_off' <=> called_off \/ exc = "interrupt")
    BY <1>11 DEF AexitCalled, CallAexit
  <2>3. CASE is_exiting
    <3>1. exit_process /\ ~overlapped /\ ~called_off => overlapped'
      BY <1>11, <2>1, <2>3 DEF AexitCalled, CallAexit
    <3>2. UNCHANGED leaving
      BY <1>11, <2>3 DEF AexitCalled, CallAexit
    <3> QED
      BY <2>2, <2>1, <3>1, <3>2
  <2>4. CASE ~is_exiting
    <3>1. /\ pc' = [pc EXCEPT ![t] = "status"] /\ leaving' = FALSE /\ is_exiting'
          /\ raised' = [raised EXCEPT ![t] = exc] /\ exit_code' = CodeAfter(exc, code)
      BY <1>11, <2>4 DEF AexitCalled, CallAexit, StartsCleanup
    <3>2. exit_process /\ ~overlapped /\ ~called_off => ~failed
      BY <2>1, <2>4
    <3>3. ASSUME exit_process, ~overlapped, ~called_off, failed' PROVE exit_code' # 0
      BY <1>11, <3>1, <3>2, <3>3 DEF AexitCalled, CallAexit
    <3>4. Exiting(t)' /\ \A u \in Tasks \ {t} : ~Exiting(u)'
      BY <2>1, <2>4, <3>1
    <3>5. ~called_off' => raised'[t] # "interrupt"
      BY <2>2, <3>1
    <3> QED
      BY <2>1, <2>2, <3>1, <3>3, <3>4, <3>5
  <2> QED
    BY <2>3, <2>4
<1>12. ASSUME NEW t \in Tasks, StatusSent(t) PROVE FailureInv'
  BY <1>12 DEF StatusSent
<1>13. ASSUME NEW t \in Tasks, ListenersDone(t) PROVE FailureInv'
  BY <1>13 DEF ListenersDone
<1>14. ASSUME NEW t \in Tasks, ManagersExited(t) PROVE FailureInv'
  BY <1>14 DEF ManagersExited
<1>15. ASSUME NEW t \in Tasks, Saved(t) PROVE FailureInv'
  <2>1. Returns(t) /\ UNCHANGED <<exit_process, overlapped, called_off, failed, is_exiting>>
    BY <1>15 DEF Saved
  <2>2. process = Running /\ Exiting(t)
    BY <1>15 DEF Saved
  <2> QED
    BY <2>1, <2>2, ReturnKeeps
<1>16. ASSUME NEW t \in Tasks, CleanupTimesOut(t) PROVE FailureInv'
  <2>1. UNCHANGED <<exit_process, overlapped, called_off, failed, is_exiting, exit_code>>
    BY <1>16 DEF CleanupTimesOut
  <2>2. process = Running /\ Exiting(t)
    BY <1>16 DEF CleanupTimesOut
  <2>3. CASE Returns(t)
    BY <2>1, <2>2, <2>3, ReturnKeeps
  <2>4. CASE Swallowed(t) /\ UNCHANGED raised
    BY <2>1, <2>4 DEF Swallowed
  <2> QED
    BY <1>16, <2>3, <2>4 DEF CleanupTimesOut
<1>17. ASSUME NEW t \in Tasks, CallReboot(t) PROVE FailureInv'
  BY <1>17 DEF CallReboot, Call
<1>18. ASSUME NEW t \in Tasks, ListenersCalled(t) PROVE FailureInv'
  BY <1>18 DEF ListenersCalled
<1>19. ASSUME NEW t \in Tasks, Rebooted(t) PROVE FailureInv'
  BY <1>19 DEF Rebooted
<1>20. ASSUME NEW t \in Tasks, RebootFails(t) PROVE FailureInv'
  BY <1>20 DEF RebootFails
<1>21. CASE UNCHANGED vars
  BY <1>21
<1>22. ASSUME NEW t \in Tasks, OpeningFails(t) PROVE FailureInv'
  BY <1>22 DEF OpeningFails
<1>23. ASSUME NEW t \in Tasks, CleanupCancelled(t) PROVE FailureInv'
  <2>1. UNCHANGED <<exit_process, overlapped, failed, is_exiting, exit_code>>
    BY <1>23 DEF CleanupCancelled
  <2>2. process = Running /\ Exiting(t) /\ (called_off' <=> called_off \/ ~leaving)
    BY <1>23 DEF CleanupCancelled
  <2>3. CASE Leaves(t) /\ GoesOn("interrupt")
    <3>1. leaving => process' = 1
      BY <2>3 DEF GoesOn, LeavesWith
    <3>2. leaving' = FALSE
      BY <2>3 DEF Leaves
    <3>3. \A u \in Tasks : ~Exiting(u)'
      BY <2>2, <2>3, ExitingLeft
    <3>4. CASE leaving
      <4>1. process' = 1
        BY <3>1, <3>4
      <4>2. \A u \in Tasks : ~(Exiting(u)' /\ raised'[u] = "interrupt")
        BY <3>3
      <4>3. process' # Running /\ process' # 0
        BY <4>1
      <4> HIDE DEF Exiting, Running
      <4> QED
        BY <3>2, <4>2, <4>3
    <3>5. CASE ~leaving
      BY <2>2, <3>2, <3>5
    <3> QED
      BY <3>4, <3>5
  <2>4. CASE Swallowed(t) /\ raised' \in {raised, [raised EXCEPT ![t] = "interrupt"]}
    BY <2>1, <2>2, <2>4 DEF Swallowed
  <2> QED
    BY <1>23, <2>3, <2>4 DEF CleanupCancelled
<1> QED
  BY <1>1, <1>2, <1>3, <1>4, <1>5, <1>6, <1>7, <1>8, <1>9, <1>10, <1>11, <1>12, <1>13, <1>14,
     <1>15, <1>16, <1>17, <1>18, <1>19, <1>20, <1>21, <1>22, <1>23, EitherCall
     DEF Next, Resume, Fail

(* Every step keeps what is owed saved.                                     *)
LEMMA SavedStep ==
  ASSUME TypeInv, OneExits, OneReboots, SavedInv
  PROVE  [Next]_vars => SavedInv'
<1> USE DEF TypeInv, OneExits, OneReboots, SavedInv, Settled, Exiting, Rebooting, Places,
            Running, Goes, At, vars, config, flags, managers,
            aexit, history, bounds
<1>1. ASSUME NEW t \in Tasks, CallInit(t) PROVE SavedInv'
  BY <1>1 DEF CallInit, Call
<1>2. ASSUME NEW t \in Tasks, EventsEntered(t) PROVE SavedInv'
  BY <1>2 DEF EventsEntered
<1>3. ASSUME NEW t \in Tasks, EventsFail(t) PROVE SavedInv'
  BY <1>3 DEF EventsFail
<1>4. ASSUME NEW t \in Tasks, ChargingEntered(t) PROVE SavedInv'
  BY <1>4 DEF ChargingEntered
<1>5. ASSUME NEW t \in Tasks, ChargingFails(t) PROVE SavedInv'
  BY <1>5 DEF ChargingFails
<1>6. ASSUME NEW t \in Tasks, Undone(t) PROVE SavedInv'
  BY <1>6 DEF Undone
<1>7. ASSUME NEW t \in Tasks, Opened(t) PROVE SavedInv'
  BY <1>7 DEF Opened
<1>8. ASSUME NEW t \in Tasks, NEW s \in Stores, UseState(t, s) PROVE SavedInv'
  BY <1>8 DEF UseState
<1>9. ASSUME Persisted PROVE SavedInv'
  BY <1>9 DEF Persisted
<1>10. ASSUME NEW exc \in Exceptions, BlockEnds(exc) PROVE SavedInv'
  <2>1. Main \in Tasks /\ pc[Main] = "idle" /\ UNCHANGED <<owed, lost, reboots, stores>>
    BY <1>10 DEF BlockEnds, Tasks
  <2>2. CASE is_exiting
    <3>1. pc' = pc /\ is_exiting' = is_exiting /\ (cut \/ (\E t \in Helpers : Exiting(t)) => cut')
      BY <1>10, <2>2 DEF BlockEnds, Ends
    <3>2. ~cut' => Settled
      BY <2>1, <2>2, <3>1 DEF Tasks
    <3> QED
      BY <2>1, <3>1, <3>2
  <2>3. CASE ~is_exiting
    <3>1. pc' = [pc EXCEPT ![Main] = "status"] /\ UNCHANGED <<process, cut>>
      BY <1>10, <2>3 DEF BlockEnds, StartsCleanup
    <3>2. Exiting(Main)'
      BY <2>1, <3>1
    <3>3. Settled' => Settled
      BY <2>1, <3>1, <3>2
    <3> QED
      BY <2>1, <3>1, <3>3
  <2> QED
    BY <2>2, <2>3
<1>11. ASSUME NEW t \in Tasks, NEW exc \in Exceptions, NEW code \in Codes, AexitCalled(t, exc, code)
       PROVE SavedInv'
  BY <1>11 DEF AexitCalled, CallAexit, Call, StartsCleanup
<1>12. ASSUME NEW t \in Tasks, StatusSent(t) PROVE SavedInv'
  BY <1>12 DEF StatusSent
<1>13. ASSUME NEW t \in Tasks, ListenersDone(t) PROVE SavedInv'
  BY <1>13 DEF ListenersDone
<1>14. ASSUME NEW t \in Tasks, ManagersExited(t) PROVE SavedInv'
  BY <1>14 DEF ManagersExited
<1>15. ASSUME NEW t \in Tasks, Saved(t) PROVE SavedInv'
  BY <1>15 DEF Saved, Returns, AfterSaving
<1>16. ASSUME NEW t \in Tasks, CutOff(t) PROVE SavedInv'
  BY <1>16 DEF CutOff
<1>17. ASSUME NEW t \in Tasks, CallReboot(t) PROVE SavedInv'
  BY <1>17 DEF CallReboot, Call
<1>18. ASSUME NEW t \in Tasks, ListenersCalled(t) PROVE SavedInv'
  <2>1. CASE cut'
    BY <2>1
  <2>2. CASE ~cut'
    <3>1. PICK failing \in SUBSET stores : owed' = AfterSaving(failing) /\ lost' = failing
      BY <1>18, <2>2 DEF ListenersCalled
    <3> QED
      BY <3>1 DEF AfterSaving
  <2> QED
    BY <2>1, <2>2
<1>19. ASSUME NEW t \in Tasks, Rebooted(t) PROVE SavedInv'
  BY <1>19 DEF Rebooted
<1>20. ASSUME NEW t \in Tasks, RebootFails(t) PROVE SavedInv'
  BY <1>20 DEF RebootFails
<1>21. CASE UNCHANGED vars
  BY <1>21
<1>22. ASSUME NEW t \in Tasks, OpeningFails(t) PROVE SavedInv'
  BY <1>22 DEF OpeningFails
<1> QED
  BY <1>1, <1>2, <1>3, <1>4, <1>5, <1>6, <1>7, <1>8, <1>9, <1>10, <1>11, <1>12, <1>13, <1>14,
     <1>15, <1>16, <1>17, <1>18, <1>19, <1>20, <1>21, <1>22, EitherCall, EitherCutOff
     DEF Next, Resume, Fail

(* Every step keeps an owner for the flag of a reboot.                      *)
LEMMA FlagStep ==
  ASSUME TypeInv, RebootCanBeRetried
  PROVE  [Next]_vars => RebootCanBeRetried'
<1> USE DEF TypeInv, RebootCanBeRetried, Places, Goes, At, vars, config, flags, managers,
            aexit, history, bounds
<1>1. ASSUME NEW t \in Tasks, CallInit(t) PROVE RebootCanBeRetried'
  BY <1>1 DEF CallInit, Call
<1>2. ASSUME NEW t \in Tasks, EventsEntered(t) PROVE RebootCanBeRetried'
  BY <1>2 DEF EventsEntered
<1>3. ASSUME NEW t \in Tasks, EventsFail(t) PROVE RebootCanBeRetried'
  BY <1>3 DEF EventsFail
<1>4. ASSUME NEW t \in Tasks, ChargingEntered(t) PROVE RebootCanBeRetried'
  BY <1>4 DEF ChargingEntered
<1>5. ASSUME NEW t \in Tasks, ChargingFails(t) PROVE RebootCanBeRetried'
  BY <1>5 DEF ChargingFails
<1>6. ASSUME NEW t \in Tasks, Undone(t) PROVE RebootCanBeRetried'
  BY <1>6 DEF Undone
<1>7. ASSUME NEW t \in Tasks, Opened(t) PROVE RebootCanBeRetried'
  BY <1>7 DEF Opened
<1>8. ASSUME NEW t \in Tasks, NEW s \in Stores, UseState(t, s) PROVE RebootCanBeRetried'
  BY <1>8 DEF UseState
<1>9. ASSUME Persisted PROVE RebootCanBeRetried'
  BY <1>9 DEF Persisted
<1>10. ASSUME NEW exc \in Exceptions, BlockEnds(exc) PROVE RebootCanBeRetried'
  BY <1>10 DEF BlockEnds, Ends, LeavesWith, StartsCleanup
<1>11. ASSUME NEW t \in Tasks, NEW exc \in Exceptions, NEW code \in Codes, AexitCalled(t, exc, code)
       PROVE RebootCanBeRetried'
  BY <1>11 DEF AexitCalled, CallAexit, Call, StartsCleanup
<1>12. ASSUME NEW t \in Tasks, StatusSent(t) PROVE RebootCanBeRetried'
  BY <1>12 DEF StatusSent
<1>13. ASSUME NEW t \in Tasks, ListenersDone(t) PROVE RebootCanBeRetried'
  BY <1>13 DEF ListenersDone
<1>14. ASSUME NEW t \in Tasks, ManagersExited(t) PROVE RebootCanBeRetried'
  BY <1>14 DEF ManagersExited
<1>15. ASSUME NEW t \in Tasks, Saved(t) PROVE RebootCanBeRetried'
  BY <1>15 DEF Saved, Returns, Leaves, GoesOn
<1>16. ASSUME NEW t \in Tasks, CutOff(t) PROVE RebootCanBeRetried'
  <2>1. \A u \in Tasks : pc[u] \in {"listeners", "rebooting"} => pc'[u] = pc[u]
    BY <1>16 DEF CutOff, Exiting
  <2> QED
    BY <1>16, <2>1 DEF CutOff
<1>17. ASSUME NEW t \in Tasks, CallReboot(t) PROVE RebootCanBeRetried'
  BY <1>17 DEF CallReboot, Call
<1>18. ASSUME NEW t \in Tasks, ListenersCalled(t) PROVE RebootCanBeRetried'
  BY <1>18 DEF ListenersCalled
<1>19. ASSUME NEW t \in Tasks, Rebooted(t) PROVE RebootCanBeRetried'
  BY <1>19 DEF Rebooted
<1>20. ASSUME NEW t \in Tasks, RebootFails(t) PROVE RebootCanBeRetried'
  BY <1>20 DEF RebootFails
<1>21. CASE UNCHANGED vars
  BY <1>21
<1>22. ASSUME NEW t \in Tasks, OpeningFails(t) PROVE RebootCanBeRetried'
  BY <1>22 DEF OpeningFails
<1> QED
  BY <1>1, <1>2, <1>3, <1>4, <1>5, <1>6, <1>7, <1>8, <1>9, <1>10, <1>11, <1>12, <1>13, <1>14,
     <1>15, <1>16, <1>17, <1>18, <1>19, <1>20, <1>21, <1>22, EitherCall, EitherCutOff
     DEF Next, Resume, Fail

-----------------------------------------------------------------------------
(* All of them hold initially, and go on together.                          *)
IInv ==
  TypeInv /\ OneInits /\ OneExits /\ OneReboots /\ CountInv /\ FailureInv /\ SavedInv

LEMMA Initially == Init => IInv
<1> SUFFICES ASSUME Init PROVE IInv
  OBVIOUS
<1> USE DEF Init, Running
<1>1. TypeInv
  BY DEF TypeInv, Places, Exceptions
<1>2. \A t \in Tasks : ~Entering(t) /\ ~Starting(t) /\ ~Exiting(t) /\ ~Rebooting(t)
  BY DEF Entering, Starting, Exiting, Rebooting
<1>3. OneInits /\ OneExits /\ OneReboots
  BY <1>2 DEF OneInits, OneExits, OneReboots
<1>4. CountInv
  BY DEF CountInv
<1>5. FailureInv
  BY DEF FailureInv
<1>6. SavedInv
  BY DEF SavedInv
<1> QED
  BY <1>1, <1>3, <1>4, <1>5, <1>6 DEF IInv

LEMMA Inductive == IInv /\ [Next]_vars => IInv'
BY TypeStep, InitsStep, ExitsStep, RebootsStep, CountStep, FailureStep, SavedStep DEF IInv

LEMMA Always == Spec => []IInv
<1>1. IInv /\ [Next]_vars => IInv'
  BY Inductive
<1> QED
  BY Initially, <1>1, PTL DEF Spec

-----------------------------------------------------------------------------
(* _actor.py reboot: the flag of a reboot in progress is reset however the  *)
(* attempt fails, so that it has an owner or the platform acts on it.       *)
THEOREM RebootsAgain == Spec => []RebootCanBeRetried
<1>1. Init => RebootCanBeRetried
  BY DEF Init, RebootCanBeRetried
<1>2. IInv /\ RebootCanBeRetried /\ [Next]_vars => RebootCanBeRetried'
  BY FlagStep DEF IInv
<1> QED
  BY Always, <1>1, <1>2, PTL DEF Spec

(* _actor.py __aenter__ and __aexit__: the managers are entered once each   *)
(* and left by who entered them, also by an init that fails half-way.       *)
THEOREM Balanced == Spec => []ManagersBalanced
<1>1. IInv => ManagersBalanced
  <2> SUFFICES ASSUME IInv PROVE ManagersBalanced
    OBVIOUS
  <2> USE DEF IInv, CountInv
  <2>1. refs >= 0
    OBVIOUS
  <2>2. ASSUME ~active, ~cut, \A t \in Tasks : ~Entering(t) PROVE refs = 0
    BY <2>2 DEF Entering
  <2>3. ASSUME active, \A t \in Tasks : ~Exiting(t) PROVE refs = 1
    BY <2>3 DEF Exiting
  <2> QED
    BY <2>1, <2>2, <2>3 DEF ManagersBalanced
<1> QED
  BY Always, <1>1, PTL

(* _actor.py __aexit__, exit and fail: a failed run does not end with 0,    *)
(* unless several tasks exited at once, or an exit was called off: a call   *)
(* of exit or fail was cancelled, or fail was given an interrupt.           *)
THEOREM Reported == Spec => []FailureReported
<1>1. IInv => FailureReported
  BY DEF IInv, FailureInv, FailureReported, Running
<1> QED
  BY Always, <1>1, PTL

(* _actor.py _save_actor_state and reboot: what use_state held when the end *)
(* began is saved, but for the stores whose saving failed.                  *)
THEOREM Kept == Spec => []StateKept
<1>1. IInv => StateKept
  BY DEF IInv, SavedInv, Settled, StateKept
<1> QED
  BY Always, <1>1, PTL
=============================================================================
