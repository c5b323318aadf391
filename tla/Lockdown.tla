------------------------------ MODULE Lockdown ------------------------------
(***************************************************************************)
(* The LockdownManager of engine/security/lockdown.go: the state machine   *)
(* that escalates failed authentications from none, to a soft lockdown     *)
(* with a deadline, to a hard lockdown that runs the OnHard callback.      *)
(*                                                                         *)
(* Callers are the goroutines of the unlock flow (provider/interfaces.go:  *)
(* "0. Lockdown check, 1. Derive & verify MVK, ... record success"): each  *)
(* calls State(), verifies a credential without holding the manager's      *)
(* mutex, and then records what it found.  Every method body is one atomic *)
(* step, since each holds m.mu throughout, except TriggerHard, which calls *)
(* OnHard after it has released the mutex.                                 *)
(***************************************************************************)
EXTENDS Integers

CONSTANTS
  Callers,          \* goroutines that authenticate or call TriggerHard
  Threshold,        \* LockdownConfig.Threshold after the defaults of NewLockdownManager
  MaxOverrides,     \* LockdownConfig.MaxOverrides, likewise
  LockdownMinutes,  \* LockdownConfig.LockdownMinutes, likewise
  Hooks,            \* the OnHard callbacks considered: see HookKinds
  MaxTime           \* bound on the clock, in minutes

\* OnHard is absent, exits the process as documented, or returns.
HookKinds == {"none", "exit", "return"}

ASSUME ConfigAssumption ==
  /\ Threshold \in Nat \ {0}
  /\ MaxOverrides \in Nat \ {0}
  /\ LockdownMinutes \in Nat \ {0}
  /\ MaxTime \in Nat
  /\ Hooks \subseteq HookKinds

VARIABLES
  state,          \* m.state
  failures,       \* m.failures
  overridesLeft,  \* m.overridesLeft
  lockdownUntil,  \* m.lockdownUntil, NoDeadline for the zero time.Time
  hook,           \* m.onHard
  now,            \* time.Now()
  alive,          \* the process has not called os.Exit
  pc,             \* where each caller stands
  \* History of the run, read by properties only.
  streak,         \* failures recorded since the last success or expiry
  triggered,      \* TriggerHard has been called
  hookRan         \* OnHard has been called

vars == <<state, failures, overridesLeft, lockdownUntil, hook, now, alive, pc,
          streak, triggered, hookRan>>

Levels == {"None", "Soft", "Hard"}
NoDeadline == 0
CallerSteps == {"idle", "verifying", "hook"}

-----------------------------------------------------------------------------

Init ==
  /\ state = "None" /\ failures = 0 /\ overridesLeft = MaxOverrides
  /\ lockdownUntil = NoDeadline
  /\ hook \in Hooks
  /\ now = 0 /\ alive = TRUE
  /\ pc = [c \in Callers |-> "idle"]
  /\ streak = 0 /\ triggered = FALSE /\ hookRan = FALSE

\* Slip: the override counter is not restored.
ResetCounters_NoOverrides ==
  /\ state' = "None" /\ failures' = 0 /\ streak' = 0
  /\ UNCHANGED overridesLeft

\* Back to normal operation with fresh counters.
ResetCounters ==
  /\ state' = "None"
  /\ failures' = 0
  /\ overridesLeft' = MaxOverrides
  /\ streak' = 0

\* What a call of m.onHard does; nothing when the callback is nil.
CallOnHard ==
  /\ hookRan' = (hookRan \/ hook # "none")
  /\ alive' = (hook # "exit")

\* Slip: Before/After confused at the deadline itself.
Expired_Early == state = "Soft" /\ now >= lockdownUntil

Expired == state = "Soft" /\ now > lockdownUntil

\* State(): expires a soft lockdown lazily, and returns the level.  The
\* caller gives up when the level is hard, and tries its credential otherwise.
State(c) ==
  /\ alive /\ pc[c] = "idle"
  /\ \/ Expired /\ ResetCounters
     \/ ~Expired /\ UNCHANGED <<state, failures, overridesLeft, streak>>
  /\ pc' = [pc EXCEPT ![c] = IF state = "Hard" THEN "idle" ELSE "verifying"]
  /\ UNCHANGED <<lockdownUntil, hook, now, alive, triggered, hookRan>>

\* RecordFailure() while hard: an error, no change.
FailHard(c) ==
  /\ state = "Hard"
  /\ UNCHANGED <<state, failures, overridesLeft, lockdownUntil, alive, streak, hookRan>>

\* Slip: the comparison is off by one.
FailSoft_Late(c) ==
  /\ state = "Soft"
  /\ overridesLeft' = overridesLeft - 1
  /\ streak' = streak + 1
  /\ \/ overridesLeft' < 0 /\ state' = "Hard" /\ CallOnHard
     \/ overridesLeft' >= 0 /\ UNCHANGED <<state, alive, hookRan>>
  /\ UNCHANGED <<failures, lockdownUntil>>

\* RecordFailure() while soft burns an override; the last one goes hard, and
\* the callback runs with the mutex held.  The deadline is not looked at.
FailSoft(c) ==
  /\ state = "Soft"
  /\ overridesLeft' = overridesLeft - 1
  /\ streak' = streak + 1
  /\ \/ overridesLeft' <= 0 /\ state' = "Hard" /\ CallOnHard
     \/ overridesLeft' > 0 /\ UNCHANGED <<state, alive, hookRan>>
  /\ UNCHANGED <<failures, lockdownUntil>>

\* RecordFailure() in normal operation; the Threshold-th one starts a soft lockdown.
FailNone(c) ==
  /\ state = "None"
  /\ failures' = failures + 1
  /\ streak' = streak + 1
  /\ \/ /\ failures' >= Threshold
        /\ state' = "Soft"
        /\ lockdownUntil' = now + LockdownMinutes
     \/ /\ failures' < Threshold
        /\ UNCHANGED <<state, lockdownUntil>>
  /\ UNCHANGED <<overridesLeft, alive, hookRan>>

RecordFailure(c) ==
  /\ alive /\ pc[c] = "verifying"
  /\ FailHard(c) \/ FailSoft(c) \/ FailNone(c)
  /\ pc' = [pc EXCEPT ![c] = "idle"]
  /\ UNCHANGED <<hook, now, triggered>>

\* RecordSuccess(): back to normal from whatever level the manager is at now.
RecordSuccess(c) ==
  /\ alive /\ pc[c] = "verifying"
  /\ ResetCounters
  /\ lockdownUntil' = NoDeadline
  /\ pc' = [pc EXCEPT ![c] = "idle"]
  /\ UNCHANGED <<hook, now, alive, triggered, hookRan>>

\* Slip: the callback is left to RecordFailure.
TriggerHard_NoHook(c) ==
  /\ alive /\ pc[c] = "idle"
  /\ state' = "Hard"
  /\ triggered' = TRUE
  /\ UNCHANGED <<failures, overridesLeft, lockdownUntil, hook, now, alive, pc, streak, hookRan>>

\* TriggerHard(), under the mutex ...
TriggerHard(c) ==
  /\ alive /\ pc[c] = "idle"
  /\ state' = "Hard"
  /\ triggered' = TRUE
  /\ pc' = [pc EXCEPT ![c] = "hook"]
  /\ UNCHANGED <<failures, overridesLeft, lockdownUntil, hook, now, alive, streak, hookRan>>

\* ... and after it has been released.
TriggerHardHook(c) ==
  /\ alive /\ pc[c] = "hook"
  /\ CallOnHard
  /\ pc' = [pc EXCEPT ![c] = "idle"]
  /\ UNCHANGED <<state, failures, overridesLeft, lockdownUntil, hook, now, streak, triggered>>

\* The clock, up to the bound MaxTime.
Tick ==
  /\ alive /\ now < MaxTime
  /\ now' = now + 1
  /\ UNCHANGED <<state, failures, overridesLeft, lockdownUntil, hook, alive, pc,
                 streak, triggered, hookRan>>

Next ==
  \/ Tick
  \/ \E c \in Callers : \/ State(c) \/ RecordFailure(c) \/ RecordSuccess(c)
                        \/ TriggerHard(c) \/ TriggerHardHook(c)

Spec == Init /\ [][Next]_vars

\* A goroutine that has called TriggerHard goes on running.
FairSpec == Spec /\ \A c \in Callers : WF_vars(TriggerHardHook(c))

-----------------------------------------------------------------------------

\* RemainingAttempts(), a query.
RemainingAttempts ==
  CASE state = "Soft" -> overridesLeft
    [] state = "Hard" -> 0
    [] OTHER          -> Threshold - failures

\* Type correctness of every variable.
TypeOK ==
  /\ state \in Levels
  /\ failures \in 0..Threshold
  /\ overridesLeft \in 0..MaxOverrides
  /\ lockdownUntil \in 0..(MaxTime + LockdownMinutes)
  /\ hook \in Hooks
  /\ now \in 0..MaxTime
  /\ alive \in BOOLEAN
  /\ pc \in [Callers -> CallerSteps]
  /\ streak \in 0..(Threshold + MaxOverrides)
  /\ triggered \in BOOLEAN
  /\ hookRan \in BOOLEAN

\* The counters and the level agree, whatever the order in which concurrent
\* callers check, fail, succeed and expire: normal operation has unused
\* failures and all overrides, a soft lockdown has used up the failures, has
\* an override left and a deadline.
CountersMatchLevel ==
  /\ state = "None" => failures < Threshold /\ overridesLeft = MaxOverrides
  /\ state = "Soft" => /\ failures = Threshold
                       /\ overridesLeft > 0
                       /\ lockdownUntil # NoDeadline

\* RemainingAttempts() is exact: that many more failures in a row, no fewer
\* and no more, escalate to the next level.
RemainingIsExact ==
  /\ state = "None" => /\ RemainingAttempts > 0
                       /\ streak + RemainingAttempts = Threshold
  /\ state = "Soft" => /\ RemainingAttempts > 0
                       /\ streak + RemainingAttempts = Threshold + MaxOverrides

\* The irreversible level is reached only by Threshold + MaxOverrides
\* failures in a row or by TriggerHard, never by failures of callers that
\* raced with a success or an expiry.
WipeOnlyWhenEarned ==
  state = "Hard" => triggered \/ streak = Threshold + MaxOverrides

\* A soft lockdown is lifted by a successful authentication or after its
\* deadline, and attempts made meanwhile do not move the deadline.
SoftLockdownServed ==
  [][state = "Soft" =>
       /\ state' = "None" => now > lockdownUntil \/ \E c \in Callers : RecordSuccess(c)
       /\ state' = "Soft" => lockdownUntil' = lockdownUntil]_vars

\* Once a hard lockdown is entered with a callback configured, OnHard runs,
\* even if a late success has reset the level meanwhile.
HardRunsHook == state = "Hard" /\ hook # "none" ~> hookRan

-----------------------------------------------------------------------------
(* A statement of the repository's documents that the code does not keep.  *)

\* code-review-guide.md:281, "LOCKDOWN -> (timeout 200min) -> WIPE": a soft
\* lockdown that has timed out does not return to normal by itself.
TimeoutWipes ==
  [][Expired /\ state' = "None" => \E c \in Callers : RecordSuccess(c)]_vars

=============================================================================
