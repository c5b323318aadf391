--------------------------- MODULE SessionProofs ---------------------------
(***************************************************************************)
(* For any number of callers and of timer callbacks under way: a session   *)
(* for which auto-lock has been on since Unlock has a timer or a callback  *)
(* on its way, and every ended session is announced exactly once.          *)
(***************************************************************************)
EXTENDS Session, FiniteSetTheorems, TLAPS

\* What the properties need to know of the types: where goroutines stand, and
\* that an interval is a number.
PcOK == pc \in [Threads -> {"idle", "ready", "logout", "fired"}]
IntervalOK == autoLockMinutes \in Intervals

\* The invariant, inductive relative to IntervalOK.
Inv == PcOK /\ AutoLockArmed /\ OneLogoutPerSession

\* The goroutines that are about to send AUTH.LOGOUT can be counted.
LEMMA LeavingFinite == IsFiniteSet(Leaving) /\ Cardinality(Leaving) \in Nat
<1>1. IsFiniteSet(Threads)
  BY SessionAssumption, FS_Union DEF SessionAssumption, Threads
<1>2. Leaving \subseteq Threads
  BY DEF Leaving
<1> QED
  BY <1>1, <1>2, FS_Subset, FS_CardinalityType

\* A new session context satisfies the invariant.
LEMMA InitInv == Init => Inv
<1> SUFFICES ASSUME Init PROVE Inv
  OBVIOUS
<1>1. PcOK
  BY DEF Init, PcOK
<1>2. AutoLockArmed
  BY Zenon DEF Init, AutoLockArmed
<1>3. Leaving = {}
  BY DEF Init, Leaving
<1>4. OneLogoutPerSession
  BY <1>3, FS_EmptySet DEF Init, OneLogoutPerSession
<1> QED
  BY <1>1, <1>2, <1>4 DEF Inv

\* A goroutine t takes a step from one place to another: it enters or leaves
\* the set of those about to send AUTH.LOGOUT, or does neither.
LEMMA LeavingStep ==
  ASSUME PcOK, NEW t \in Threads, NEW step \in {"idle", "ready", "logout", "fired"},
         Goto(t, step)
  PROVE  /\ PcOK'
         /\ pc[t] # "logout" /\ step = "logout" =>
              Cardinality(Leaving') = Cardinality(Leaving) + 1
         /\ pc[t] # "logout" /\ step # "logout" => Leaving' = Leaving
         /\ pc[t] = "logout" /\ step # "logout" =>
              Cardinality(Leaving') = Cardinality(Leaving) - 1
<1>1. pc' = [pc EXCEPT ![t] = step] /\ pc \in [Threads -> {"idle", "ready", "logout", "fired"}]
  BY DEF Goto, PcOK
<1>2. PcOK'
  BY <1>1 DEF PcOK
<1>3. ASSUME pc[t] # "logout", step = "logout"
      PROVE  Cardinality(Leaving') = Cardinality(Leaving) + 1
  <2>1. Leaving' = Leaving \cup {t} /\ t \notin Leaving
    BY <1>1, <1>3 DEF Leaving
  <2> QED
    BY <2>1, LeavingFinite, FS_AddElement
<1>4. ASSUME pc[t] # "logout", step # "logout" PROVE Leaving' = Leaving
  BY <1>1, <1>4 DEF Leaving
<1>5. ASSUME pc[t] = "logout", step # "logout"
      PROVE  Cardinality(Leaving') = Cardinality(Leaving) - 1
  <2>1. Leaving' = Leaving \ {t} /\ t \in Leaving
    BY <1>1, <1>5 DEF Leaving
  <2> QED
    BY <2>1, LeavingFinite, FS_RemoveElement
<1> QED
  BY <1>2, <1>3, <1>4, <1>5

\* Lock(), by a caller or by a callback.
LEMMA EndSessionInv ==
  ASSUME Inv, NEW t \in Threads, pc[t] # "logout", EndSession(t)
  PROVE  Inv'
<1>1. AutoLockArmed'
  BY Zenon DEF EndSession, ClearSession, AutoLockArmed
<1>2. CASE active
  <2>1. Goto(t, "logout") /\ debt' = debt + 1
    BY <1>2 DEF EndSession, ClearSession
  <2> QED
    BY <1>1, <2>1, LeavingStep DEF Inv, OneLogoutPerSession
<1>3. CASE ~active
  <2>1. Goto(t, "idle") /\ debt' = debt
    BY <1>3 DEF EndSession, ClearSession
  <2> QED
    BY <1>1, <2>1, LeavingStep DEF Inv, OneLogoutPerSession
<1> QED
  BY <1>2, <1>3

\* The interval is only ever set to one of those considered.
LEMMA IntervalHolds == Spec => []IntervalOK
<1>1. Init => IntervalOK
  BY SessionAssumption DEF SessionAssumption, Init, IntervalOK
<1>2. IntervalOK /\ [Next]_vars => IntervalOK'
  BY DEF IntervalOK, Next, UserStep, vars, SetDispatcher, SetAutoLockMinutes, ResetActivity,
         Unlock, Lock, Tick, Fire, AutoLock, EndSession, ClearSession, Dispatch
<1> QED
  BY <1>1, <1>2, PTL DEF Spec

\* One step per action of the session.
LEMMA StepInv == IntervalOK /\ Inv /\ [Next]_vars => Inv'
<1> SUFFICES ASSUME IntervalOK, Inv, [Next]_vars PROVE Inv'
  OBVIOUS
<1>0. PcOK /\ AutoLockArmed /\ OneLogoutPerSession
  BY DEF Inv
<1>1. ASSUME UNCHANGED <<active, debt, pc>>, guarded' => guarded,
             timer' = timer \/ timer' = "armed"
      PROVE  Inv'
  BY <1>0, <1>1 DEF Inv, PcOK, AutoLockArmed, Fired, OneLogoutPerSession, Leaving
<1>2. CASE SetDispatcher \/ Tick \/ \E m \in Intervals : SetAutoLockMinutes(m)
  BY <1>1, <1>2 DEF SetDispatcher, Tick, SetAutoLockMinutes, sessionVars, timerVars
<1>3. CASE ResetActivity
  BY <1>1, <1>3 DEF ResetActivity, Arm, sessionVars
<1>4. ASSUME NEW c \in Callers, NEW h \in Handles, Unlock(c, h) PROVE Inv'
  <2>1. PcOK' /\ OneLogoutPerSession'
    BY <1>0, <1>4, LeavingStep DEF Unlock, Threads, OneLogoutPerSession
  <2>2. AutoLockArmed'
    <3>1. CASE autoLockMinutes > 0 /\ Arm
      BY <3>1 DEF Arm, AutoLockArmed
    <3>2. CASE ~(autoLockMinutes > 0)
      BY <1>4, <3>2 DEF Unlock, AutoLockArmed
    <3>3. (autoLockMinutes > 0 /\ Arm) \/ ~(autoLockMinutes > 0)
      <4>1. ~(autoLockMinutes > 0 /\ autoLockMinutes <= 0)
        BY SessionAssumption DEF SessionAssumption, IntervalOK
      <4> QED
        BY <1>4, <4>1 DEF Unlock
    <3> QED
      BY <3>1, <3>2, <3>3
  <2> QED
    BY <2>1, <2>2 DEF Inv
<1>5. ASSUME NEW c \in Callers, Lock(c) PROVE Inv'
  BY <1>5, EndSessionInv DEF Lock, Threads
<1>6. ASSUME NEW t \in Firings, Fire(t) PROVE Inv'
  <2>1. t \in Threads
    BY DEF Threads
  <2>2. PcOK' /\ OneLogoutPerSession'
    BY <1>0, <1>6, <2>1, LeavingStep DEF Fire, sessionVars, OneLogoutPerSession
  <2>3. t \in Fired'
    BY <1>0, <1>6, <2>1 DEF Fire, Goto, Fired, PcOK
  <2> QED
    BY <2>2, <2>3 DEF Inv, AutoLockArmed
<1>7. ASSUME NEW t \in Firings, AutoLock(t) PROVE Inv'
  BY <1>7, EndSessionInv DEF AutoLock, Threads
<1>8. ASSUME NEW t \in Threads, Dispatch(t) PROVE Inv'
  <2>1. PcOK' /\ OneLogoutPerSession'
    BY <1>0, <1>8, LeavingStep DEF Dispatch, OneLogoutPerSession
  <2>2. Fired' = Fired
    BY <1>0, <1>8 DEF Dispatch, Goto, Fired, PcOK, Threads
  <2> QED
    BY <1>0, <1>8, <2>1, <2>2 DEF Inv, Dispatch, timerVars, AutoLockArmed
<1>9. CASE UNCHANGED vars
  BY <1>1, <1>9 DEF vars, sessionVars, timerVars
<1> QED
  BY <1>2, <1>3, <1>4, <1>5, <1>6, <1>7, <1>8, <1>9 DEF Next, UserStep

\* The inductive invariant holds in every reachable state.
THEOREM InvHolds == Spec => []Inv
  BY InitInv, StepInv, IntervalHolds, PTL DEF Spec

\* No race of Unlock, Lock, ResetActivity and callbacks leaves a guarded
\* session without a timer.
THEOREM AlwaysArmed == Spec => []AutoLockArmed
<1>1. Inv => AutoLockArmed
  BY DEF Inv
<1> QED
  BY <1>1, InvHolds, PTL

\* However many callbacks race, each session has one AUTH.LOGOUT.
THEOREM LogoutOnce == Spec => []OneLogoutPerSession
<1>1. Inv => OneLogoutPerSession
  BY DEF Inv
<1> QED
  BY <1>1, InvHolds, PTL

-----------------------------------------------------------------------------
(* Type correctness.                                                       *)

\* The types of the variables other than pc and debt.
Types ==
  /\ active \in BOOLEAN /\ mvkHandle \in Handles \cup {NoHandle}
  /\ timer \in {"nil", "armed", "stopped"}
  /\ remaining \in Nat
  /\ dispatcher \in BOOLEAN
  /\ guarded \in BOOLEAN /\ cancelled \subseteq Firings
  /\ announced \in {"none", "ready", "logout"} /\ clean \in BOOLEAN

\* Stopping the timer or arming it keeps the timer's type.
LEMMA TimerTypes ==
  ASSUME IntervalOK, Types, Arm \/ Stop
  PROVE  timer' \in {"nil", "armed", "stopped"} /\ remaining' \in Nat
BY SessionAssumption DEF SessionAssumption, IntervalOK, Types, Arm, Stop

\* Lock(), by a caller or by a callback.
LEMMA EndSessionTypes ==
  ASSUME IntervalOK, Types, NEW t \in Threads, EndSession(t)
  PROVE  Types'
<1>1. timer' \in {"nil", "armed", "stopped"} /\ remaining' \in Nat
  BY TimerTypes DEF EndSession, ClearSession
<1>2. /\ active' = FALSE /\ mvkHandle' = NoHandle /\ guarded' = FALSE
      /\ clean' = (clean /\ (active => Dispatching = {}))
      /\ cancelled' = cancelled \ {t}
      /\ UNCHANGED <<dispatcher, announced>>
  BY DEF EndSession, ClearSession
<1>3. clean' \in BOOLEAN
  BY <1>2
<1> QED
  BY <1>1, <1>2, <1>3 DEF Types

\* One step per action of the session.
LEMMA TypesStep == IntervalOK /\ PcOK /\ Types /\ [Next]_vars => Types'
<1> SUFFICES ASSUME IntervalOK, PcOK, Types, [Next]_vars PROVE Types'
  OBVIOUS
<1>1. CASE SetDispatcher
  BY <1>1 DEF SetDispatcher, Types, sessionVars, timerVars, busVars
<1>2. ASSUME NEW m \in Intervals, SetAutoLockMinutes(m) PROVE Types'
  <2>1. /\ guarded' = (guarded /\ m > 0)
        /\ UNCHANGED <<active, mvkHandle, timer, remaining, dispatcher, announced, clean, cancelled>>
    BY <1>2 DEF SetAutoLockMinutes, timerVars, busVars
  <2>2. guarded' \in BOOLEAN
    BY <2>1
  <2> QED
    BY <2>1, <2>2 DEF Types
<1>3. CASE ResetActivity
  BY <1>3, TimerTypes DEF ResetActivity, Types, sessionVars, busVars
<1>4. ASSUME NEW c \in Callers, NEW h \in Handles, Unlock(c, h) PROVE Types'
  <2>1. timer' \in {"nil", "armed", "stopped"} /\ remaining' \in Nat
    BY <1>4, TimerTypes DEF Unlock
  <2>2. /\ active' = TRUE /\ mvkHandle' = h /\ guarded' = (autoLockMinutes > 0)
        /\ clean' = (clean /\ Dispatching = {}) /\ cancelled' = cancelled \cup Fired
        /\ UNCHANGED <<dispatcher, announced>>
    BY <1>4 DEF Unlock
  <2>3. clean' \in BOOLEAN /\ guarded' \in BOOLEAN
    BY <2>2
  <2> QED
    BY <2>1, <2>2, <2>3 DEF Types, Fired
<1>5. ASSUME NEW c \in Callers, Lock(c) PROVE Types'
  BY <1>5, EndSessionTypes DEF Lock, Threads
<1>6. ASSUME NEW t \in Firings, Fire(t) PROVE Types'
  BY <1>6 DEF Fire, Types, sessionVars, busVars
<1>7. ASSUME NEW t \in Firings, AutoLock(t) PROVE Types'
  BY <1>7, EndSessionTypes DEF AutoLock, Threads
<1>8. ASSUME NEW t \in Threads, Dispatch(t) PROVE Types'
  <2>1. /\ UNCHANGED <<active, mvkHandle, guarded, timer, remaining, dispatcher, cancelled>>
        /\ announced' = IF dispatcher THEN pc[t] ELSE announced
        /\ clean' = (clean /\ dispatcher)
        /\ pc[t] \in {"ready", "logout"}
    BY <1>8 DEF Dispatch, timerVars
  <2>2. clean' \in BOOLEAN
    BY <2>1
  <2>3. announced' \in {"none", "ready", "logout"}
    BY <2>1 DEF Types
  <2> QED
    BY <2>1, <2>2, <2>3 DEF Types
<1>9. CASE Tick
  BY <1>9 DEF Tick, Types, sessionVars, busVars
<1>10. CASE UNCHANGED vars
  BY <1>10 DEF vars, Types, sessionVars, timerVars, busVars
<1> QED
  BY <1>1, <1>2, <1>3, <1>4, <1>5, <1>6, <1>7, <1>8, <1>9, <1>10 DEF Next, UserStep

\* Every variable keeps its type; the logouts owed are never fewer than none.
THEOREM TypeCorrect == Spec => []TypeOK
<1>1. Init => Types
  <2> SUFFICES ASSUME Init PROVE Types
    OBVIOUS
  <2>1. active \in BOOLEAN /\ dispatcher \in BOOLEAN /\ guarded \in BOOLEAN /\ clean \in BOOLEAN
    BY Zenon DEF Init
  <2>2. /\ mvkHandle \in Handles \cup {NoHandle} /\ timer \in {"nil", "armed", "stopped"}
        /\ announced \in {"none", "ready", "logout"} /\ cancelled \subseteq Firings
    BY Zenon DEF Init
  <2>3. remaining \in Nat
    BY DEF Init
  <2> QED
    BY <2>1, <2>2, <2>3, Zenon DEF Types
<1>2. IntervalOK /\ Inv /\ Types /\ [Next]_vars => Types'
  BY TypesStep DEF Inv
<1>3. IntervalOK /\ Inv /\ Types => TypeOK
  <2> SUFFICES ASSUME IntervalOK, Inv, Types PROVE TypeOK
    OBVIOUS
  <2>1. debt \in Nat
    BY LeavingFinite DEF Inv, OneLogoutPerSession
  <2> QED
    BY <2>1 DEF IntervalOK, Inv, PcOK, Types, TypeOK
<1> QED
  BY <1>1, <1>2, <1>3, InvHolds, IntervalHolds, PTL DEF Spec

-----------------------------------------------------------------------------
(* What the events on the bus say.                                         *)

\* As long as no event was skipped and no two were under way together, the one
\* under way agrees with the session, and when there is none the last one does.
Agreement ==
  clean =>
    /\ \A t, u \in Dispatching : t = u
    /\ \A t \in Dispatching : pc[t] = "ready" <=> active
    /\ Dispatching = {} => (announced = "ready" <=> active)

\* A goroutine that is not dispatching goes somewhere else than to an event.
LEMMA DispatchingSame ==
  ASSUME PcOK, NEW t \in Threads, NEW step \in {"idle", "fired"},
         pc[t] \notin {"ready", "logout"}, Goto(t, step)
  PROVE  Dispatching' = Dispatching /\ \A u \in Dispatching : pc'[u] = pc[u]
BY DEF PcOK, Goto, Dispatching

\* Lock(), by a caller or by a callback.
LEMMA EndSessionAgreement ==
  ASSUME PcOK, Agreement, NEW t \in Threads, pc[t] \notin {"ready", "logout"}, EndSession(t)
  PROVE  Agreement'
<1>1. /\ active' = FALSE /\ announced' = announced
      /\ clean' = (clean /\ (active => Dispatching = {}))
      /\ Goto(t, IF active THEN "logout" ELSE "idle")
  BY DEF EndSession, ClearSession
<1>2. SUFFICES ASSUME clean' PROVE Agreement'
  BY DEF Agreement
<1>3. clean /\ (active => Dispatching = {})
  BY <1>1, <1>2
<1>4. CASE active
  <2>1. Dispatching' = {t} /\ pc'[t] = "logout"
    BY <1>1, <1>3, <1>4 DEF PcOK, Goto, Dispatching
  <2> QED
    BY <1>1, <2>1 DEF Agreement
<1>5. CASE ~active
  <2>1. Goto(t, "idle")
    BY <1>1, <1>5
  <2>2. Dispatching' = Dispatching /\ \A u \in Dispatching : pc'[u] = pc[u]
    BY <2>1, DispatchingSame
  <2> QED
    BY <1>1, <1>3, <1>5, <2>2 DEF Agreement
<1> QED
  BY <1>4, <1>5

\* One step per action of the session.
LEMMA AgreementStep == PcOK /\ Agreement /\ [Next]_vars => Agreement'
<1> SUFFICES ASSUME PcOK, Agreement, [Next]_vars PROVE Agreement'
  OBVIOUS
<1>1. ASSUME UNCHANGED <<active, pc, busVars>> PROVE Agreement'
  BY <1>1 DEF Agreement, busVars, Dispatching
<1>2. CASE SetDispatcher \/ Tick \/ ResetActivity \/ \E m \in Intervals : SetAutoLockMinutes(m)
  BY <1>1, <1>2 DEF SetDispatcher, Tick, ResetActivity, SetAutoLockMinutes, sessionVars
<1>3. ASSUME NEW c \in Callers, NEW h \in Handles, Unlock(c, h) PROVE Agreement'
  <2>1. /\ active' = TRUE /\ Goto(c, "ready") /\ clean' = (clean /\ Dispatching = {})
        /\ c \in Threads
    BY <1>3 DEF Unlock, Threads
  <2>2. SUFFICES ASSUME clean' PROVE Agreement'
    BY DEF Agreement
  <2>3. Dispatching' = {c} /\ pc'[c] = "ready"
    BY <2>1, <2>2 DEF PcOK, Goto, Dispatching
  <2> QED
    BY <2>1, <2>3 DEF Agreement
<1>4. ASSUME NEW c \in Callers, Lock(c) PROVE Agreement'
  BY <1>4, EndSessionAgreement DEF Lock, Threads
<1>5. ASSUME NEW t \in Firings, Fire(t) PROVE Agreement'
  <2>1. /\ Goto(t, "fired") /\ pc[t] = "idle" /\ t \in Threads
        /\ UNCHANGED <<active, announced, clean>>
    BY <1>5 DEF Fire, Threads, sessionVars, busVars
  <2>2. Dispatching' = Dispatching /\ \A u \in Dispatching : pc'[u] = pc[u]
    BY <2>1, DispatchingSame
  <2> QED
    BY <2>1, <2>2 DEF Agreement
<1>6. ASSUME NEW t \in Firings, AutoLock(t) PROVE Agreement'
  BY <1>6, EndSessionAgreement DEF AutoLock, Threads
<1>7. ASSUME NEW t \in Threads, Dispatch(t) PROVE Agreement'
  <2>1. /\ pc[t] \in {"ready", "logout"} /\ Goto(t, "idle")
        /\ announced' = IF dispatcher THEN pc[t] ELSE announced
        /\ clean' = (clean /\ dispatcher) /\ active' = active
    BY <1>7 DEF Dispatch
  <2>2. SUFFICES ASSUME clean' PROVE Agreement'
    BY DEF Agreement
  <2>3. clean /\ dispatcher /\ announced' = pc[t]
    BY <2>1, <2>2
  <2>4. t \in Dispatching
    BY <2>1 DEF Dispatching
  <2>5. (\A u \in Dispatching : u = t) /\ (pc[t] = "ready" <=> active)
    BY <2>3, <2>4 DEF Agreement
  <2>6. Dispatching' = {}
    BY <2>1, <2>5 DEF PcOK, Goto, Dispatching
  <2> QED
    BY <2>1, <2>3, <2>5, <2>6 DEF Agreement
<1>8. CASE UNCHANGED vars
  BY <1>1, <1>8 DEF vars, sessionVars
<1> QED
  BY <1>2, <1>3, <1>4, <1>5, <1>6, <1>7, <1>8 DEF Next, UserStep

\* With no event under way, the last one tells whether there is a session.
THEOREM QuietAgrees == Spec => []AnnouncedWhenQuiet
<1>1. Init => Agreement
  BY DEF Init, Agreement, Dispatching
<1>2. Inv /\ Agreement /\ [Next]_vars => Agreement'
  BY AgreementStep DEF Inv
<1>3. Agreement => AnnouncedWhenQuiet
  BY DEF Agreement, AnnouncedWhenQuiet
<1> QED
  BY <1>1, <1>2, <1>3, InvHolds, PTL DEF Spec

=============================================================================
