--------------------------- MODULE ActorLifecycle ---------------------------
(***************************************************************************)
(* The life of an Actor in its process: initialization, the managers it     *)
(* enters, exit and fail from any task, the cleanup with its timeout, the   *)
(* state it persists, and reboot.                                           *)
(*                                                                          *)
(* The main task runs the `async with Actor` block; when it returns,        *)
(* asyncio.run cancels the other tasks and the process ends.  Helpers are   *)
(* other tasks of the loop, event listeners among them.  A step goes from   *)
(* one await to the next.  Of the event manager the model keeps its count   *)
(* of users (ApifyEventManager has the rest), of the charging manager       *)
(* whether it is active (Charging has the rest).                            *)
(***************************************************************************)
EXTENDS Integers, FiniteSets

CONSTANTS
  Main, Helpers,
  Stores,       \* key-value stores use_state is called with
  MaxCalls,     \* bound: calls of init, exit, fail and reboot
  MaxFailures   \* bound: operations that fail, hang or are cancelled

ASSUME LifecycleAssumption == Main \notin Helpers /\ MaxCalls \in Nat /\ MaxFailures \in Nat

Tasks == {Main} \cup Helpers

ErrorUserFunctionThrew == 91
Running == -1

(* What a block ends with or fail is given: SystemExit comes with a code or *)
(* without, an interrupt is a KeyboardInterrupt or a CancelledError.        *)
Exceptions == {"nothing", "exception", "sys_exit", "sys_exit_ok", "interrupt"}
Codes == {0, 1}  \* the exit codes given to exit and fail

VARIABLES
  is_at_home, exit_process, \* the environment and the Actor's argument
  active, is_exiting, is_rebooting, exit_code,
  refs,       \* how often the event manager has been entered and not left
  charging,   \* the charging manager's active
  stores,     \* _use_state_stores
  pc,         \* the await each task is suspended at
  raised,     \* what __aexit__ of each task was called with
  leaving,    \* whether the main task's __aexit__ ends its block
  process,    \* Running, or the code the process ended with
  reboots,    \* reboots the platform executed
  owed,       \* history: stores with changes made before the end and not saved
  lost,       \* history: stores whose saving failed in the cleanup
  cut,        \* history: a cleanup or the listeners of a reboot were cut short
  overlapped, \* history: somebody exited while somebody else did
  failed,     \* history: the block raised, or an exit began with a code that is not 0
  called_off, \* history: exit or fail was cancelled, or fail was given an interrupt
  calls, failures

managers == <<refs, charging>>
flags == <<active, is_exiting, is_rebooting, exit_code>>
config == <<is_at_home, exit_process>>
aexit == <<raised, leaving>>
history == <<owed, lost, cut, overlapped, failed, called_off>>
bounds == <<calls, failures>>
vars == <<config, flags, managers, stores, pc, aexit, process, reboots, history, bounds>>

Init ==
  /\ is_at_home \in BOOLEAN /\ exit_process \in BOOLEAN
  /\ active = FALSE /\ is_exiting = FALSE /\ is_rebooting = FALSE /\ exit_code = 0
  /\ refs = 0 /\ charging = FALSE /\ stores = {}
  /\ pc = [t \in Tasks |-> "idle"]
  /\ raised = [t \in Tasks |-> "nothing"] /\ leaving = FALSE
  /\ process = Running /\ reboots = 0
  /\ owed = {} /\ lost = {} /\ cut = FALSE /\ overlapped = FALSE
  /\ failed = FALSE /\ called_off = FALSE
  /\ calls = 0 /\ failures = 0

Exiting(t) == pc[t] \in {"status", "sleep", "event_manager", "saving"}
Entering(t) == pc[t] \in {"entering_events", "entering_charging", "undoing", "opening"}

Goes(t, at) == pc' = [pc EXCEPT ![t] = at]
At(t, at) == process = Running /\ pc[t] = at

Call(t) == At(t, "idle") /\ calls < MaxCalls /\ calls' = calls + 1
Fault == failures < MaxFailures /\ failures' = failures + 1

-----------------------------------------------------------------------------
(* __aenter__.                                                              *)

(* One task initializes the Actor at a time; it may do so again after an    *)
(* exit, or after an init that failed.                                      *)
CallInit(t) ==
  /\ Call(t) /\ ~active /\ \A u \in Tasks : ~Entering(u)
  /\ is_exiting' = FALSE
  /\ Goes(t, "entering_events")
  /\ UNCHANGED <<config, active, is_rebooting, exit_code, managers, stores, aexit, process, reboots,
                 history, failures>>

(* The charging manager refuses to be entered while it is active, which it  *)
(* also is since an init that failed to enter it.                           *)
EventsEntered(t) ==
  /\ At(t, "entering_events")
  /\ refs' = refs + 1 /\ charging' = TRUE
  /\ Goes(t, IF charging THEN "undoing" ELSE "entering_charging")
  /\ UNCHANGED <<config, flags, stores, aexit, process, reboots, history, bounds>>

EventsFail(t) ==
  /\ At(t, "entering_events") /\ Fault
  /\ Goes(t, "idle")
  /\ UNCHANGED <<config, flags, managers, stores, aexit, process, reboots, history, calls>>

(* Outside the platform the input's key-value store is opened as well, with *)
(* the Actor active already.                                                *)
ChargingEntered(t) ==
  /\ At(t, "entering_charging")
  /\ active' = TRUE
  /\ Goes(t, IF is_at_home THEN "idle" ELSE "opening")
  /\ UNCHANGED <<config, is_exiting, is_rebooting, exit_code, managers, stores, aexit, process,
                 reboots, history, bounds>>

ChargingFailsAlone(t) ==
  /\ At(t, "entering_charging") /\ Fault
  /\ Goes(t, "idle")
  /\ UNCHANGED <<config, flags, managers, stores, aexit, process, reboots, history, calls>>

(* The charging manager cannot be entered; it stays active.                 *)
ChargingFails(t) ==
  /\ At(t, "entering_charging") /\ Fault
  /\ Goes(t, "undoing")
  /\ UNCHANGED <<config, flags, managers, stores, aexit, process, reboots, history, calls>>

(* The event manager entered before is left again, and init raises.         *)
Undone(t) ==
  /\ At(t, "undoing")
  /\ refs' = refs - 1
  /\ Goes(t, "idle")
  /\ UNCHANGED <<config, flags, charging, stores, aexit, process, reboots, history, bounds>>

Opened(t) ==
  /\ At(t, "opening")
  /\ Goes(t, "idle")
  /\ UNCHANGED <<config, flags, managers, stores, aexit, process, reboots, history, bounds>>

(* Opening fails: init raises, but the Actor stays as it is, active.        *)
OpeningFails(t) ==
  /\ At(t, "opening") /\ Fault
  /\ Goes(t, "idle")
  /\ UNCHANGED <<config, flags, managers, stores, aexit, process, reboots, history, calls>>

-----------------------------------------------------------------------------
(* use_state, and the value's changes: only what changed before somebody    *)
(* exits or reboots must be saved by that.                                  *)
UseState(t, s) ==
  /\ At(t, "idle") /\ active
  /\ stores' = stores \cup {s}
  /\ owed' = IF is_exiting \/ is_rebooting THEN owed ELSE owed \cup {s}
  /\ UNCHANGED <<config, flags, managers, pc, aexit, process, reboots, lost, cut,
                 overlapped, failed, called_off, bounds>>

(* PERSIST_STATE while the event manager runs, periodic or for a migration: *)
(* a listener per store saves its values, or fails.                         *)
Persisted ==
  /\ process = Running /\ refs > 0
  /\ owed' \in SUBSET owed /\ owed' # owed
  /\ UNCHANGED <<config, flags, managers, stores, pc, aexit, process, reboots, lost, cut,
                 overlapped, failed, called_off, bounds>>

-----------------------------------------------------------------------------
(* __aexit__, from the end of the main task's block, exit or fail.          *)

Ends(code) ==
  /\ process' = code
  /\ cut' = (cut \/ \E t \in Helpers : Exiting(t))

(* What the process ends with when exc goes on from the main task's block.  *)
LeavesWith(exc) ==
  CASE exc \in {"nothing", "sys_exit_ok"} -> 0
    [] exc = "sys_exit" -> 2
    [] OTHER -> 1

(* A SystemExit brings its own code, 2 or 0; any other Exception needs one. *)
CodeAfter(exc, code) ==
  CASE exc = "sys_exit" -> 2
    [] exc = "sys_exit_ok" -> 0
    [] exc = "exception" /\ code = 0 -> ErrorUserFunctionThrew
    [] OTHER -> code

StartsCleanup(t, exc, code, block) ==
  /\ exit_code' = CodeAfter(exc, code)
  /\ is_exiting' = TRUE
  /\ raised' = [raised EXCEPT ![t] = exc] /\ leaving' = block
  /\ Goes(t, "status")

(* The block of the main task ends: with nothing, an exception, sys.exit, a *)
(* KeyboardInterrupt or a cancellation.  While somebody else is exiting, or *)
(* after somebody did, there is nothing left to do.                         *)
BlockEnds(exc) ==
  /\ At(Main, "idle") /\ (active \/ is_exiting)
  /\ IF is_exiting
     THEN /\ Ends(LeavesWith(exc))
          /\ UNCHANGED <<exit_code, is_exiting, aexit, pc>>
     ELSE /\ StartsCleanup(Main, exc, exit_code, TRUE)
          /\ UNCHANGED <<process, cut>>
  /\ failed' = (failed \/ exc \in {"exception", "sys_exit"})
  /\ overlapped' = (overlapped \/ \E u \in Helpers : Exiting(u))
  /\ UNCHANGED <<config, active, is_rebooting, managers, stores, reboots, owed, lost, called_off,
                 bounds>>

(* __aexit__ called by exit or fail, in any task: the code is set before    *)
(* anything is checked; without an active Actor it raises, and while an     *)
(* exit is under way, or after one, it returns.                             *)
CallAexit(t, exc, code) ==
  /\ Call(t) /\ (active \/ is_exiting)
  /\ IF is_exiting
     THEN exit_code' = code /\ UNCHANGED <<is_exiting, aexit, pc>>
     ELSE StartsCleanup(t, exc, code, FALSE)
  /\ failed' = (failed \/ CodeAfter(exc, code) # 0)
  /\ overlapped' = (overlapped \/ \E u \in Tasks : Exiting(u))
  /\ UNCHANGED <<config, active, is_rebooting, managers, stores, process, reboots, owed, lost, cut,
                 failures>>

CallExit(t, code) == CallAexit(t, "nothing", code) /\ UNCHANGED called_off

(* The exception given to fail is treated like one of the block: with a     *)
(* KeyboardInterrupt or a CancelledError there will be no sys.exit.         *)
CallFail(t, exc, code) ==
  /\ CallAexit(t, exc, code)
  /\ called_off' = (called_off \/ exc = "interrupt")

(* The terminal status message is sent, or fails, and its failure is logged.*)
StatusSent(t) ==
  /\ At(t, "status") /\ Goes(t, "sleep")
  /\ UNCHANGED <<config, flags, managers, stores, aexit, process, reboots, history, bounds>>

(* The listeners had their time.                                            *)
ListenersDone(t) ==
  /\ At(t, "sleep") /\ Goes(t, "event_manager")
  /\ UNCHANGED <<config, flags, managers, stores, aexit, process, reboots, history, bounds>>

(* Both managers are left whatever fails in them; leaving the event manager *)
(* emits PERSIST_STATE, whose listeners save what they can.                 *)
ManagersExited(t) ==
  /\ At(t, "event_manager") /\ Goes(t, "saving")
  /\ refs' = refs - 1 /\ charging' = FALSE
  /\ owed' \in SUBSET owed
  /\ UNCHANGED <<config, flags, stores, aexit, process, reboots, lost, cut, overlapped,
                 failed, called_off, bounds>>

Leaves(t) ==
  /\ active' = FALSE
  /\ raised' = [raised EXCEPT ![t] = "nothing"] /\ leaving' = FALSE
  /\ Goes(t, "idle")

(* Without sys.exit whatever ended the main task's block goes on, and a     *)
(* task that called exit or fail goes on after the call.                    *)
GoesOn(exc) == process' = IF leaving /\ exc # "nothing" THEN LeavesWith(exc) ELSE process

(* After the cleanup: the code goes to sys.exit unless the Actor is told not*)
(* to, or __aexit__ was given a KeyboardInterrupt or a cancellation.        *)
ReturnsOnTimeout(t) ==
  /\ Leaves(t)
  /\ IF exit_process /\ raised[t] # "interrupt" /\ ~cut'
     THEN process' = exit_code
     ELSE GoesOn(raised[t])

Returns(t) ==
  /\ Leaves(t)
  /\ IF exit_process /\ raised[t] # "interrupt" THEN process' = exit_code ELSE GoesOn(raised[t])

OneFailureLosesAll(failing) == IF failing = {} THEN owed \ stores ELSE owed

(* Each store is saved under its own guard.                                 *)
AfterSaving(failing) == owed \ (stores \ failing)

Saved(t) ==
  /\ At(t, "saving")
  /\ \E failing \in SUBSET stores :
       /\ failing # {} => failures < MaxFailures
       /\ failures' = IF failing = {} THEN failures ELSE failures + 1
       /\ owed' = AfterSaving(failing)
       /\ lost' = failing
  /\ UNCHANGED cut /\ Returns(t)
  /\ UNCHANGED <<config, is_exiting, is_rebooting, exit_code, managers, stores, reboots, overlapped,
                 failed, called_off, calls>>

(* A cancellation of what the cleanup awaits.  In the event manager it ends *)
(* its exit early; it may be swallowed there, and the cleanup goes on.      *)
LeavesManager(t) == refs' = IF pc[t] = "event_manager" THEN refs - 1 ELSE refs
Swallowed(t) == pc[t] = "event_manager" /\ UNCHANGED <<active, leaving, pc, process, refs>>

(* The cleanup timeout: it is logged, and __aexit__ returns.                *)
CleanupTimesOut(t) ==
  /\ process = Running /\ Exiting(t) /\ Fault
  /\ cut' = TRUE
  /\ \/ Returns(t) /\ LeavesManager(t)
     \/ Swallowed(t) /\ UNCHANGED raised
  /\ UNCHANGED <<config, is_exiting, is_rebooting, exit_code, charging, stores, reboots, owed, lost,
                 overlapped, failed, called_off, calls>>

(* The exiting task is cancelled: the cancellation goes on out of __aexit__,*)
(* past sys.exit.  One the event manager swallowed is lost, or (wait_for of *)
(* Python 3.11) raised again when the rest of the cleanup is done.          *)
CleanupCancelled(t) ==
  /\ process = Running /\ Exiting(t) /\ Fault
  /\ cut' = TRUE
  /\ called_off' = (called_off \/ ~leaving)
  /\ \/ Leaves(t) /\ GoesOn("interrupt") /\ LeavesManager(t)
     \/ Swallowed(t) /\ raised' \in {raised, [raised EXCEPT ![t] = "interrupt"]}
  /\ UNCHANGED <<config, is_exiting, is_rebooting, exit_code, charging, stores, reboots, owed, lost,
                 overlapped, failed, calls>>

-----------------------------------------------------------------------------
(* reboot.                                                                  *)

CallReboot(t) ==
  /\ Call(t) /\ active /\ is_at_home /\ ~is_rebooting
  /\ is_rebooting' = TRUE
  /\ Goes(t, "listeners")
  /\ UNCHANGED <<config, active, is_exiting, exit_code, managers, stores, aexit, process, reboots,
                 history, failures>>

(* All PERSIST_STATE and MIGRATING listeners end, each with its own guard,  *)
(* or the timeout cuts them short.                                          *)
ListenersCalled(t) ==
  /\ At(t, "listeners")
  /\ Goes(t, "rebooting")
  /\ \/ /\ \E failing \in SUBSET stores :
             /\ failing # {} => failures < MaxFailures
             /\ failures' = IF failing = {} THEN failures ELSE failures + 1
             /\ owed' = AfterSaving(failing)
             /\ lost' = failing
        /\ UNCHANGED cut
     \/ Fault /\ cut' = TRUE /\ owed' \in SUBSET owed /\ UNCHANGED lost
  /\ UNCHANGED <<config, flags, managers, stores, aexit, process, reboots, overlapped, failed,
                 called_off, calls>>

(* The platform reboots the run: the container is stopped at some later     *)
(* time, and until then the process goes on.                                *)
Rebooted(t) ==
  /\ At(t, "rebooting")
  /\ reboots' = reboots + 1
  /\ Goes(t, "idle")
  /\ UNCHANGED <<config, flags, managers, stores, aexit, process, history, bounds>>

KeepsFlag(t) ==
  /\ At(t, "rebooting") \/ At(t, "listeners")
  /\ Fault /\ Goes(t, "idle")
  /\ is_rebooting' = IF pc[t] = "listeners" THEN is_rebooting ELSE FALSE
  /\ UNCHANGED <<config, active, is_exiting, exit_code, managers, stores, aexit, process, reboots,
                 history, calls>>

(* The call fails, or the caller is cancelled, also while listeners run: a  *)
(* later reboot is possible.                                                *)
RebootFails(t) ==
  /\ At(t, "rebooting") \/ At(t, "listeners")
  /\ Fault /\ Goes(t, "idle")
  /\ is_rebooting' = FALSE
  /\ UNCHANGED <<config, active, is_exiting, exit_code, managers, stores, aexit, process, reboots,
                 history, calls>>

-----------------------------------------------------------------------------
Resume(t) ==
  \/ EventsEntered(t) \/ ChargingEntered(t) \/ Undone(t) \/ Opened(t)
  \/ StatusSent(t) \/ ListenersDone(t) \/ ManagersExited(t) \/ Saved(t)
  \/ ListenersCalled(t) \/ Rebooted(t)

Fail(t) ==
  \/ EventsFail(t) \/ ChargingFails(t) \/ OpeningFails(t) \/ RebootFails(t)
  \/ CleanupTimesOut(t) \/ CleanupCancelled(t)

Next ==
  \/ \E t \in Tasks : Resume(t) \/ Fail(t) \/ CallInit(t) \/ CallReboot(t)
  \/ \E t \in Tasks, code \in Codes : CallExit(t, code)
  \/ \E t \in Tasks, exc \in Exceptions, code \in Codes : CallFail(t, exc, code)
  \/ \E t \in Tasks, s \in Stores : UseState(t, s)
  \/ \E exc \in Exceptions : BlockEnds(exc)
  \/ Persisted

Spec == Init /\ [][Next]_vars

-----------------------------------------------------------------------------
(* Properties.                                                              *)

TypeOK ==
  /\ {is_at_home, exit_process, active, is_exiting, is_rebooting, charging} \subseteq BOOLEAN
  /\ {leaving, cut, overlapped, failed, called_off} \subseteq BOOLEAN
  /\ exit_code \in Nat /\ process \in Nat \cup {Running}
  /\ refs \in Nat /\ reboots \in Nat
  /\ stores \subseteq Stores /\ owed \subseteq stores /\ lost \subseteq stores
  /\ pc \in [Tasks -> {"idle", "entering_events", "entering_charging", "undoing", "opening",
                       "status", "sleep", "event_manager", "saving", "listeners", "rebooting"}]
  /\ raised \in [Tasks -> Exceptions]
  /\ calls \in 0..MaxCalls /\ failures \in 0..MaxFailures

(* A run that failed does not end with code 0, whatever fails, times out or *)
(* is cancelled in its cleanup; unless tasks exited at the same time, or the*)
(* exit was called off: a call of exit or fail was cancelled, or fail was   *)
(* given a KeyboardInterrupt or CancelledError, and left sys.exit out.      *)
FailureReported == exit_process /\ failed /\ ~overlapped /\ ~called_off => process # 0

(* What use_state values were when the Actor began to exit or to reboot is  *)
(* saved when its process ends or the platform reboots it, except where     *)
(* saving that very store failed.                                           *)
StateKept == (process # Running \/ reboots > 0) /\ ~cut => owed \subseteq lost

(* The managers are entered once each: none is left behind by an exit or a  *)
(* failed init, and none is left by anybody but who entered it, however     *)
(* often the Actor is initialized and whoever exits it.                     *)
ManagersBalanced ==
  /\ refs >= 0
  /\ ~active /\ ~cut /\ (\A t \in Tasks : ~Entering(t)) => refs = 0
  /\ active => refs = 1 \/ \E t \in Tasks : Entering(t) \/ Exiting(t)

(* The flag that makes reboot calls return at once has an owner, or the     *)
(* platform is rebooting the run: no failure or cancellation disables       *)
(* reboot for good.                                                         *)
RebootCanBeRetried ==
  is_rebooting => reboots > 0 \/ \E t \in Tasks : pc[t] \in {"listeners", "rebooting"}
=============================================================================
