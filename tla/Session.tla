------------------------------ MODULE Session ------------------------------
(***************************************************************************)
(* SessionContext of engine/security/session.go: the one unlocked session, *)
(* its inactivity timer, and the AUTH.READY and AUTH.LOGOUT events it puts *)
(* on the bus.  Unlock and Lock change the state under s.mu and dispatch   *)
(* their event after releasing it; the timer's callback is a goroutine of  *)
(* its own that calls Lock, and stopping or resetting the timer does not   *)
(* call back one that has already fired.                                   *)
(*                                                                         *)
(* Time is the time left on the timer, in minutes.                         *)
(***************************************************************************)
EXTENDS Integers, FiniteSets

CONSTANTS
  Callers,    \* goroutines that call Unlock and Lock
  Firings,    \* goroutines for timer callbacks; bounds how many are under way
  Handles,    \* MVK handles
  NoHandle,   \* the empty handle
  Intervals,  \* arguments of SetAutoLockMinutes
  Default     \* the interval NewSessionContext sets

ASSUME SessionAssumption ==
  /\ Intervals \subseteq Nat
  /\ Default \in Intervals
  /\ NoHandle \notin Handles
  /\ Callers \cap Firings = {}
  /\ IsFiniteSet(Callers) /\ IsFiniteSet(Firings)

VARIABLES
  active,           \* s.active
  mvkHandle,        \* s.mvkHandle
  autoLockMinutes,  \* s.autoLockMinutes
  timer,            \* s.autoLockTimer: nil, armed, or stopped (or fired)
  remaining,        \* minutes until an armed timer fires
  dispatcher,       \* s.dispatcher # nil
  pc,               \* where each goroutine stands
  \* History of the run, read by properties only.
  guarded,          \* auto-lock has been on ever since the session was unlocked
  cancelled,        \* callbacks under way whose timer an Unlock has replaced
  debt,             \* sessions ended minus AUTH.LOGOUT events dispatched
  announced,        \* the last event that reached the bus
  clean             \* no event was skipped, no two were under way together

sessionVars == <<active, mvkHandle, guarded, debt>>
timerVars == <<timer, remaining>>
busVars == <<announced, clean>>
vars == <<sessionVars, timerVars, autoLockMinutes, dispatcher, pc, busVars, cancelled>>

Threads == Callers \cup Firings
Goto(t, step) == pc' = [pc EXCEPT ![t] = step]
Dispatching == {t \in Threads : pc[t] \in {"ready", "logout"}}
Fired == {t \in Firings : pc[t] = "fired"}

-----------------------------------------------------------------------------

\* NewSessionContext
Init ==
  /\ active = FALSE /\ mvkHandle = NoHandle
  /\ autoLockMinutes = Default
  /\ timer = "nil" /\ remaining = 0
  /\ dispatcher = FALSE
  /\ pc = [t \in Threads |-> "idle"]
  /\ guarded = FALSE /\ debt = 0 /\ announced = "none" /\ clean = TRUE
  /\ cancelled = {}

SetDispatcher ==
  /\ dispatcher' = TRUE
  /\ UNCHANGED <<sessionVars, timerVars, autoLockMinutes, pc, busVars, cancelled>>

\* SetAutoLockMinutes writes the interval and leaves the timer as it is.
SetAutoLockMinutes(m) ==
  /\ autoLockMinutes' = m
  /\ guarded' = (guarded /\ m > 0)
  /\ UNCHANGED <<active, mvkHandle, debt, timerVars, dispatcher, pc, busVars, cancelled>>

\* Timer.Reset arms a timer again whether or not it is running.
Arm == timer' = "armed" /\ remaining' = autoLockMinutes

\* Timer.Stop, under the nil check each caller makes.
Stop ==
  /\ timer' = IF timer = "nil" THEN "nil" ELSE "stopped"
  /\ remaining' = 0

\* Slip: activity stops the timer and leaves it to the next message to arm it.
ResetActivity_StopOnly ==
  /\ Stop
  /\ UNCHANGED <<sessionVars, autoLockMinutes, dispatcher, pc, busVars, cancelled>>

\* ResetActivity: called on every message of the user.
ResetActivity ==
  /\ timer # "nil" /\ Arm
  /\ UNCHANGED <<sessionVars, autoLockMinutes, dispatcher, pc, busVars, cancelled>>

\* Slip: the new timer is stopped in place of the old one.
Unlock_StopsNew(c, h) ==
  /\ pc[c] = "idle"
  /\ active' = TRUE /\ mvkHandle' = h
  /\ timer' = "stopped" /\ remaining' = 0
  /\ guarded' = (autoLockMinutes > 0)
  /\ Goto(c, "ready")
  /\ clean' = (clean /\ Dispatching = {})
  /\ cancelled' = cancelled \cup Fired
  /\ UNCHANGED <<debt, autoLockMinutes, dispatcher, announced>>

\* Unlock(mvkHandle), under the mutex: a session that is already active is
\* replaced without an event.
Unlock(c, h) ==
  /\ pc[c] = "idle"
  /\ active' = TRUE /\ mvkHandle' = h
  /\ \/ autoLockMinutes > 0 /\ Arm
     \/ autoLockMinutes <= 0 /\ Stop
  /\ guarded' = (autoLockMinutes > 0)
  /\ Goto(c, "ready")
  /\ clean' = (clean /\ Dispatching = {})
  /\ cancelled' = cancelled \cup Fired
  /\ UNCHANGED <<debt, autoLockMinutes, dispatcher, announced>>

\* What Lock() does to the session; next is what the goroutine does after it.
ClearSession(t, next) ==
  /\ active' = FALSE /\ mvkHandle' = NoHandle
  /\ guarded' = FALSE
  /\ Stop
  /\ debt' = IF active THEN debt + 1 ELSE debt
  /\ Goto(t, next)
  /\ clean' = (clean /\ (active => Dispatching = {}))
  /\ cancelled' = cancelled \ {t}
  /\ UNCHANGED <<autoLockMinutes, dispatcher, announced>>

\* Slip: the event is sent whether or not there was a session to end.
EndSession_Always(t) == ClearSession(t, "logout")

\* Slip: no event is sent.
EndSession_Silent(t) == ClearSession(t, "idle")

\* Lock(), under the mutex: only the call that ends the session goes on to
\* dispatch AUTH.LOGOUT.
EndSession(t) == ClearSession(t, IF active THEN "logout" ELSE "idle")

Lock(c) == pc[c] = "idle" /\ EndSession(c)

\* The end of Unlock and of Lock, after the mutex: the event, if there is a bus.
Dispatch(t) ==
  /\ pc[t] \in {"ready", "logout"}
  /\ debt' = IF pc[t] = "logout" THEN debt - 1 ELSE debt
  /\ Goto(t, "idle")
  /\ announced' = IF dispatcher THEN pc[t] ELSE announced
  /\ clean' = (clean /\ dispatcher)
  /\ UNCHANGED <<active, mvkHandle, guarded, timerVars, autoLockMinutes, dispatcher,
                 cancelled>>

-----------------------------------------------------------------------------

Tick ==
  /\ timer = "armed" /\ remaining > 0
  /\ remaining' = remaining - 1
  /\ UNCHANGED <<sessionVars, timer, autoLockMinutes, dispatcher, pc, busVars, cancelled>>

\* The timer runs out: its callback is now a goroutine that nothing can stop.
Fire(t) ==
  /\ timer = "armed" /\ remaining = 0
  /\ pc[t] = "idle"
  /\ timer' = "stopped"
  /\ Goto(t, "fired")
  /\ UNCHANGED <<sessionVars, remaining, autoLockMinutes, dispatcher, busVars, cancelled>>

\* The callback calls s.Lock().
AutoLock(t) == pc[t] = "fired" /\ EndSession(t)

UserStep ==
  \/ \E m \in Intervals : SetAutoLockMinutes(m)
  \/ ResetActivity
  \/ \E c \in Callers, h \in Handles : Unlock(c, h)

Next ==
  \/ SetDispatcher \/ UserStep \/ Tick
  \/ \E c \in Callers : Lock(c)
  \/ \E t \in Firings : Fire(t) \/ AutoLock(t)
  \/ \E t \in Threads : Dispatch(t)

Spec == Init /\ [][Next]_vars

\* Time passes, timers fire, and goroutines that are under way go on running;
\* the user need do nothing.
FairSpec ==
  /\ Spec
  /\ WF_vars(Tick)
  /\ WF_vars(\E t \in Firings : Fire(t))
  /\ \A t \in Firings : WF_vars(AutoLock(t))
  /\ \A t \in Threads : WF_vars(Dispatch(t))

-----------------------------------------------------------------------------

\* Type correctness of every variable.
TypeOK ==
  /\ active \in BOOLEAN /\ mvkHandle \in Handles \cup {NoHandle}
  /\ autoLockMinutes \in Intervals
  /\ timer \in {"nil", "armed", "stopped"}
  /\ remaining \in Nat
  /\ dispatcher \in BOOLEAN
  /\ pc \in [Threads -> {"idle", "ready", "logout", "fired"}]
  /\ guarded \in BOOLEAN /\ debt \in Nat
  /\ announced \in {"none", "ready", "logout"} /\ clean \in BOOLEAN
  /\ cancelled \subseteq Firings

Leaving == {t \in Threads : pc[t] = "logout"}

\* A session for which auto-lock has been on since Unlock is never left without
\* a running timer or a callback on its way, whatever races Stop, Reset and the
\* callback run.  It says nothing of a session whose interval was set to 0.
AutoLockArmed == active /\ guarded => timer = "armed" \/ Fired # {}

\* Each session ended by Lock, by the user or by any number of callbacks that
\* race with each other, is announced by one AUTH.LOGOUT and no more.
OneLogoutPerSession == debt = Cardinality(Leaving)

\* When no event is under way, the last one tells whether there is a session,
\* unless two were under way together: they are dispatched after the mutex is
\* released, and may overtake each other.
AnnouncedWhenQuiet ==
  clean /\ Dispatching = {} => (announced = "ready" <=> active)

\* If the user stops doing anything, a session for which auto-lock has been on
\* since Unlock is locked.
InactivityLocks == <>[][~UserStep]_vars => []<>~(active /\ guarded)

-----------------------------------------------------------------------------
(* Statements of the source that the code does not keep.                   *)

\* session.go:53, "Set to 0 to disable auto-lock entirely": with the interval
\* at 0 no timer fires.  The code neither stops the timer that runs nor keeps
\* ResetActivity from arming it with 0 minutes.
ZeroDisablesAutoLock ==
  [][autoLockMinutes = 0 => \A t \in Firings : ~Fire(t)]_vars

\* session.go:87, "Cancel any existing timer before creating a new one": the
\* timer that Unlock replaces does not lock the session Unlock began.  Stop
\* does not reach a callback that waits for the mutex.
OldTimerCancelled ==
  [][\A t \in Firings : active /\ AutoLock(t) => t \notin cancelled]_vars

=============================================================================
