---------------------------- MODULE RateLimiter ----------------------------
(***************************************************************************)
(* The RateLimiter of engine/security/rate_limiter.go: lockouts per        *)
(* subject that grow with the number of failures in a row.                 *)
(*                                                                         *)
(* Callers call Check, try a credential without holding the mutex, and     *)
(* then call RecordFailure or RecordSuccess; each method is one atomic     *)
(* step.  A subject without an entry has no attempts.  Time is the time    *)
(* left until lockedUntil.                                                 *)
(***************************************************************************)
EXTENDS Integers, FiniteSets

CONSTANTS
  Subjects,
  Callers,      \* goroutines that authenticate on behalf of a subject
  NoSubject,    \* a caller that is not trying a credential
  Minute, TenMinutes, Hour, Day,  \* the four lockouts
  MaxAttempts   \* bound on the failures in a row

ASSUME LimiterAssumption ==
  /\ Minute \in Nat /\ TenMinutes \in Nat /\ Hour \in Nat /\ Day \in Nat
  /\ 0 < Minute /\ Minute < TenMinutes /\ TenMinutes < Hour /\ Hour < Day
  /\ MaxAttempts \in Nat
  /\ NoSubject \notin Subjects
  /\ IsFiniteSet(Callers)

\* Attempts that are never followed by a lockout.
FreeAttempts == 5

VARIABLES
  attempts,  \* entry.attempts of each subject
  left,      \* time until entry.lockedUntil, 0 once it has passed
  trying,    \* the subject whose credential each caller is trying
  rounds     \* history: lockouts served since the last success

vars == <<attempts, left, trying, rounds>>

Init ==
  /\ attempts = [s \in Subjects |-> 0]
  /\ left = [s \in Subjects |-> 0]
  /\ trying = [c \in Callers |-> NoSubject]
  /\ rounds = [s \in Subjects |-> 0]

\* LockoutStatus(s), a query.
LockedOut(s) == left[s] > 0

\* Check(s), when it allows the attempt; nothing happens when it does not.
Check(c, s) ==
  /\ trying[c] = NoSubject
  /\ ~LockedOut(s)
  /\ trying' = [trying EXCEPT ![c] = s]
  /\ UNCHANGED <<attempts, left, rounds>>

\* Slip: the first lockout comes one failure late.
Lockout_Late(n) ==
  IF n >= 21 THEN Day ELSE IF n >= 16 THEN Hour
  ELSE IF n >= 11 THEN TenMinutes ELSE IF n > 6 THEN Minute ELSE 0

\* Slip: two of the tiers have each other's lockout.
Lockout_Swapped(n) ==
  IF n >= 21 THEN Day ELSE IF n >= 16 THEN TenMinutes
  ELSE IF n >= 11 THEN Hour ELSE IF n >= 6 THEN Minute ELSE 0

\* The lockout that follows the n-th failure in a row.
Lockout(n) ==
  IF n >= 21 THEN Day
  ELSE IF n >= 16 THEN Hour
  ELSE IF n >= 11 THEN TenMinutes
  ELSE IF n >= 6 THEN Minute
  ELSE 0

\* RecordFailure(s): counts from now on, whether or not a lockout is running.
RecordFailure(c, s) ==
  /\ trying[c] = s /\ attempts[s] < MaxAttempts
  /\ attempts' = [attempts EXCEPT ![s] = @ + 1]
  /\ left' = [left EXCEPT ![s] = IF Lockout(attempts'[s]) > 0 THEN Lockout(attempts'[s]) ELSE @]
  /\ trying' = [trying EXCEPT ![c] = NoSubject]
  /\ UNCHANGED rounds

\* Slip: the counter is reset and the entry kept.
RecordSuccess_KeepsEntry(c, s) ==
  /\ trying[c] = s
  /\ attempts' = [attempts EXCEPT ![s] = 0]
  /\ trying' = [trying EXCEPT ![c] = NoSubject]
  /\ UNCHANGED <<left, rounds>>

\* RecordSuccess(s): the entry is deleted, and with it a lockout that failures
\* of other callers have started meanwhile.
RecordSuccess(c, s) ==
  /\ trying[c] = s
  /\ attempts' = [attempts EXCEPT ![s] = 0]
  /\ left' = [left EXCEPT ![s] = 0]
  /\ trying' = [trying EXCEPT ![c] = NoSubject]
  /\ rounds' = [rounds EXCEPT ![s] = 0]

\* Time passes for all subjects.
Tick ==
  /\ \E s \in Subjects : LockedOut(s)
  /\ left' = [s \in Subjects |-> IF LockedOut(s) THEN left[s] - 1 ELSE 0]
  /\ rounds' = [s \in Subjects |-> IF left[s] = 1 THEN rounds[s] + 1 ELSE rounds[s]]
  /\ UNCHANGED <<attempts, trying>>

Next ==
  \/ Tick
  \/ \E c \in Callers, s \in Subjects :
       Check(c, s) \/ RecordFailure(c, s) \/ RecordSuccess(c, s)

Spec == Init /\ [][Next]_vars

\* RemainingAttempts(s), a query.
RemainingAttempts(s) ==
  IF attempts[s] = 0 THEN 5
  ELSE IF LockedOut(s) THEN -1
  ELSE IF attempts[s] < 5 THEN 5 - attempts[s]
  ELSE IF attempts[s] < 10 THEN 10 - attempts[s]
  ELSE IF attempts[s] < 15 THEN 15 - attempts[s]
  ELSE IF attempts[s] < 20 THEN 20 - attempts[s]
  ELSE 0

-----------------------------------------------------------------------------

\* Type correctness of every variable; no lockout is longer than a day.
TypeOK ==
  /\ attempts \in [Subjects -> 0..MaxAttempts]
  /\ left \in [Subjects -> 0..Day]
  /\ trying \in [Callers -> Subjects \cup {NoSubject}]
  /\ rounds \in [Subjects -> Nat]

InFlight(s) == {c \in Callers : trying[c] = s}

\* Guesses are throttled although Check and RecordFailure are two calls: for
\* each lockout served, no more guesses are made than there are callers that
\* can pass Check together, and FreeAttempts more before the first.
GuessesThrottled ==
  \A s \in Subjects :
    attempts[s] + Cardinality(InFlight(s))
      <= FreeAttempts + Cardinality(Callers) * (1 + rounds[s])

\* A lockout belongs to the failures that are counted: it is no longer than
\* their tier, and gone with them after a success.
LockoutMatchesTier == \A s \in Subjects : left[s] <= Lockout(attempts[s])

\* A running lockout is cut short by a success and by nothing else, not even
\* by failures of callers that had passed Check before it began.
LockoutNeverShortened ==
  [][\A s \in Subjects :
       left'[s] < left[s] => \/ left'[s] = left[s] - 1 /\ Tick
                             \/ \E c \in Callers : RecordSuccess(c, s)]_vars

-----------------------------------------------------------------------------
(* A statement of the source that the code does not keep.                  *)

\* rate_limiter.go:120, "how many more failures are allowed before the next
\* lockout tier triggers": after that many the lockout is still the same, and
\* after one more it is not.
RemainingToNextTier ==
  \A s \in Subjects :
    ~LockedOut(s) /\ attempts[s] < 20 =>
      LET n == attempts[s] + RemainingAttempts(s)
      IN  Lockout(n) = Lockout(attempts[s]) /\ Lockout(n + 1) > Lockout(n)

=============================================================================
