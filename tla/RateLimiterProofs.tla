------------------------- MODULE RateLimiterProofs -------------------------
(***************************************************************************)
(* For every number of subjects and callers and every length of the four   *)
(* lockouts: guesses are throttled, a lockout belongs to the failures that *)
(* are counted, and only a success cuts it short.                          *)
(***************************************************************************)
EXTENDS RateLimiter, FiniteSetTheorems, TLAPS

N == Cardinality(Callers)

\* The guesses that the lockouts served so far have paid for.
Paid(s) == FreeAttempts + N * rounds[s]

\* The inductive invariant.  While no lockout is running, the failures counted
\* are paid for and those in flight are at most N; the failures that follow
\* start a lockout, and nobody joins those in flight until it has been served.
Inv ==
  /\ TypeOK
  /\ LockoutMatchesTier
  /\ \A s \in Subjects :
       /\ attempts[s] + Cardinality(InFlight(s)) <= Paid(s) + N
       /\ ~LockedOut(s) => attempts[s] <= Paid(s)

\* The number of callers in flight is a number, and at most N.
LEMMA InFlightCard ==
  ASSUME NEW s \in Subjects
  PROVE  /\ N \in Nat /\ IsFiniteSet(InFlight(s))
         /\ Cardinality(InFlight(s)) \in Nat /\ Cardinality(InFlight(s)) <= N
<1>1. IsFiniteSet(Callers) /\ InFlight(s) \subseteq Callers
  BY LimiterAssumption DEF LimiterAssumption, InFlight
<1> QED
  BY <1>1, FS_Subset, FS_CardinalityType DEF N

\* The same after a step.
LEMMA InFlightCardPrime ==
  ASSUME NEW s \in Subjects
  PROVE  /\ IsFiniteSet(InFlight(s)')
         /\ Cardinality(InFlight(s)') \in Nat /\ Cardinality(InFlight(s)') <= N
<1>1. IsFiniteSet(Callers) /\ InFlight(s)' \subseteq Callers
  BY LimiterAssumption DEF LimiterAssumption, InFlight
<1> QED
  BY <1>1, FS_Subset, FS_CardinalityType DEF N

\* A lockout is a duration, and grows with the failures.
LEMMA LockoutGrows ==
  ASSUME NEW n \in Nat, NEW k \in Nat, n <= k
  PROVE  Lockout(n) \in Nat /\ Lockout(k) \in Nat /\ Lockout(n) <= Lockout(k)
BY LimiterAssumption DEF LimiterAssumption, Lockout

\* What is paid for is a number, and one lockout more pays for N more.
LEMMA PaidType ==
  ASSUME TypeOK, NEW s \in Subjects
  PROVE  /\ Paid(s) \in Nat /\ FreeAttempts <= Paid(s)
         /\ rounds[s] = 0 => Paid(s) = FreeAttempts
<1>1. N \in Nat /\ rounds[s] \in Nat
  BY InFlightCard DEF TypeOK
<1>2. N * rounds[s] \in Nat /\ (rounds[s] = 0 => N * rounds[s] = 0)
  BY <1>1
<1> QED
  BY <1>1, <1>2 DEF Paid, FreeAttempts

\* A new limiter satisfies the invariant.
LEMMA InitInv == Init => Inv
<1> SUFFICES ASSUME Init PROVE Inv
  OBVIOUS
<1>1. TypeOK
  BY LimiterAssumption DEF Init, TypeOK, LimiterAssumption
<1>2. LockoutMatchesTier
  BY LimiterAssumption DEF Init, LockoutMatchesTier, Lockout, LimiterAssumption
<1>3. ASSUME NEW s \in Subjects
      PROVE  /\ attempts[s] + Cardinality(InFlight(s)) <= Paid(s) + N
             /\ ~LockedOut(s) => attempts[s] <= Paid(s)
  BY <1>1, InFlightCard, PaidType DEF Init
<1> QED
  BY <1>1, <1>2, <1>3 DEF Inv

\* A caller that ends its attempt leaves those in flight, and no others change.
LEMMA EndsAttempt ==
  ASSUME TypeOK, NEW c \in Callers, NEW s \in Subjects, trying[c] = s,
         trying' = [trying EXCEPT ![c] = NoSubject]
  PROVE  /\ Cardinality(InFlight(s)') = Cardinality(InFlight(s)) - 1
         /\ \A t \in Subjects \ {s} : InFlight(t)' = InFlight(t)
<1>1. InFlight(s)' = InFlight(s) \ {c} /\ c \in InFlight(s)
  BY LimiterAssumption DEF InFlight, TypeOK, LimiterAssumption
<1>2. Cardinality(InFlight(s) \ {c}) = Cardinality(InFlight(s)) - 1
  BY <1>1, InFlightCard, FS_RemoveElement
<1>3. \A t \in Subjects \ {s} : InFlight(t)' = InFlight(t)
  BY LimiterAssumption DEF InFlight, TypeOK, LimiterAssumption
<1> QED
  BY <1>1, <1>2, <1>3

\* One step per action of the limiter.
LEMMA StepInv == Inv /\ [Next]_vars => Inv'
<1> SUFFICES ASSUME Inv, [Next]_vars PROVE Inv'
  OBVIOUS
<1>0. TypeOK /\ LockoutMatchesTier
  BY DEF Inv
<1>1. ASSUME NEW c \in Callers, NEW s \in Subjects, Check(c, s) PROVE Inv'
  <2>1. TypeOK' /\ LockoutMatchesTier'
    BY <1>0, <1>1 DEF Check, TypeOK, LockoutMatchesTier
  <2>2. ASSUME NEW t \in Subjects
        PROVE  (/\ attempts[t] + Cardinality(InFlight(t)) <= Paid(t) + N
                /\ ~LockedOut(t) => attempts[t] <= Paid(t))'
    <3>1. attempts'[t] = attempts[t] /\ left'[t] = left[t] /\ Paid(t)' = Paid(t)
      BY <1>1 DEF Check, Paid, N
    <3>2. CASE t = s
      <4>1. attempts[t] <= Paid(t)
        BY <1>1, <3>2 DEF Inv, Check
      <4> QED
        BY <3>1, <4>1, <1>0, InFlightCard, InFlightCardPrime, PaidType DEF TypeOK, N
    <3>3. CASE t # s
      <4>1. InFlight(t)' = InFlight(t)
        BY <1>0, <1>1, <3>3, LimiterAssumption DEF Check, InFlight, TypeOK, LimiterAssumption
      <4> QED
        BY <3>1, <4>1 DEF Inv, LockedOut, N
    <3> QED
      BY <3>2, <3>3
  <2> QED
    BY <2>1, <2>2 DEF Inv
<1>2. ASSUME NEW c \in Callers, NEW s \in Subjects, RecordFailure(c, s) PROVE Inv'
  <2>1. TypeOK'
    BY <1>0, <1>2, LimiterAssumption DEF RecordFailure, TypeOK, Lockout, LimiterAssumption
  <2>2. LockoutMatchesTier'
    BY <1>0, <1>2, LimiterAssumption
    DEF RecordFailure, TypeOK, LockoutMatchesTier, Lockout, LimiterAssumption
  <2>3. /\ Cardinality(InFlight(s)') = Cardinality(InFlight(s)) - 1
        /\ \A t \in Subjects \ {s} : InFlight(t)' = InFlight(t)
    BY <1>0, <1>2, EndsAttempt DEF RecordFailure
  <2>4. ASSUME NEW t \in Subjects
        PROVE  (/\ attempts[t] + Cardinality(InFlight(t)) <= Paid(t) + N
                /\ ~LockedOut(t) => attempts[t] <= Paid(t))'
    <3>1. Paid(t)' = Paid(t)
      BY <1>2 DEF RecordFailure, Paid, N
    <3>2. CASE t = s
      <4>1. attempts'[t] = attempts[t] + 1 /\ attempts[t] \in Nat
        BY <1>0, <1>2, <3>2 DEF RecordFailure, TypeOK
      <4>2. ~LockedOut(t)' => attempts'[t] <= FreeAttempts
        BY <1>0, <1>2, <3>2, <4>1, LimiterAssumption
        DEF RecordFailure, TypeOK, LockedOut, Lockout, FreeAttempts, LimiterAssumption
      <4> QED
        BY <1>0, <2>3, <3>1, <3>2, <4>1, <4>2, InFlightCard, PaidType DEF Inv, N, FreeAttempts
    <3>3. CASE t # s
      <4>1. attempts'[t] = attempts[t] /\ left'[t] = left[t]
        BY <1>0, <1>2, <3>3 DEF RecordFailure, TypeOK
      <4> QED
        BY <2>3, <3>1, <3>3, <4>1 DEF Inv, LockedOut, N
    <3> QED
      BY <3>2, <3>3
  <2> QED
    BY <2>1, <2>2, <2>4 DEF Inv
<1>3. ASSUME NEW c \in Callers, NEW s \in Subjects, RecordSuccess(c, s) PROVE Inv'
  <2>1. TypeOK'
    BY <1>0, <1>3, LimiterAssumption DEF RecordSuccess, TypeOK, LimiterAssumption
  <2>2. LockoutMatchesTier'
    BY <1>0, <1>3, LimiterAssumption
    DEF RecordSuccess, TypeOK, LockoutMatchesTier, Lockout, LimiterAssumption
  <2>3. \A t \in Subjects \ {s} : InFlight(t)' = InFlight(t)
    BY <1>0, <1>3, EndsAttempt DEF RecordSuccess
  <2>4. ASSUME NEW t \in Subjects
        PROVE  (/\ attempts[t] + Cardinality(InFlight(t)) <= Paid(t) + N
                /\ ~LockedOut(t) => attempts[t] <= Paid(t))'
    <3>1. CASE t = s
      <4>1. attempts'[t] = 0 /\ rounds'[t] = 0
        BY <1>0, <1>3, <3>1 DEF RecordSuccess, TypeOK
      <4>2. Paid(t)' = FreeAttempts
        BY <4>1, InFlightCard DEF Paid, N, FreeAttempts
      <4> QED
        BY <4>1, <4>2, InFlightCard, InFlightCardPrime DEF N, FreeAttempts
    <3>2. CASE t # s
      <4>1. attempts'[t] = attempts[t] /\ left'[t] = left[t] /\ Paid(t)' = Paid(t)
        BY <1>0, <1>3, <3>2 DEF RecordSuccess, TypeOK, Paid, N
      <4> QED
        BY <2>3, <3>2, <4>1 DEF Inv, LockedOut, N
    <3> QED
      BY <3>1, <3>2
  <2> QED
    BY <2>1, <2>2, <2>4 DEF Inv
<1>4. CASE Tick
  <2>1. TypeOK'
    BY <1>0, <1>4, LimiterAssumption DEF Tick, TypeOK, LockedOut, LimiterAssumption
  <2>2. LockoutMatchesTier'
    BY <1>0, <1>4, LimiterAssumption
    DEF Tick, TypeOK, LockedOut, LockoutMatchesTier, Lockout, LimiterAssumption
  <2>3. ASSUME NEW t \in Subjects
        PROVE  (/\ attempts[t] + Cardinality(InFlight(t)) <= Paid(t) + N
                /\ ~LockedOut(t) => attempts[t] <= Paid(t))'
    <3>1. /\ attempts'[t] = attempts[t] /\ InFlight(t)' = InFlight(t)
          /\ attempts[t] \in Nat /\ rounds[t] \in Nat /\ left[t] \in Nat
          /\ left'[t] = IF left[t] > 0 THEN left[t] - 1 ELSE 0
          /\ rounds'[t] = IF left[t] = 1 THEN rounds[t] + 1 ELSE rounds[t]
      BY <1>0, <1>4, LimiterAssumption DEF Tick, InFlight, TypeOK, LockedOut, LimiterAssumption
    <3>2. Paid(t)' = IF left[t] = 1 THEN Paid(t) + N ELSE Paid(t)
      BY <3>1, InFlightCard DEF Paid, N, FreeAttempts
    <3> QED
      BY <1>0, <3>1, <3>2, InFlightCard, PaidType DEF Inv, LockedOut, N
  <2> QED
    BY <2>1, <2>2, <2>3 DEF Inv
<1>5. CASE UNCHANGED vars
  BY <1>5 DEF vars, Inv, TypeOK, LockoutMatchesTier, Lockout, InFlight, Paid, N, LockedOut
<1> QED
  BY <1>1, <1>2, <1>3, <1>4, <1>5 DEF Next

\* The inductive invariant holds in every reachable state.
THEOREM InvHolds == Spec => []Inv
  BY InitInv, StepInv, PTL DEF Spec

\* Every variable keeps its type: no counter or deadline goes negative.
THEOREM TypeCorrect == Spec => []TypeOK
<1>1. Inv => TypeOK
  BY DEF Inv
<1> QED
  BY <1>1, InvHolds, PTL

\* For each lockout served, at most as many guesses as there are callers.
THEOREM Throttled == Spec => []GuessesThrottled
<1>1. Inv => GuessesThrottled
  <2> SUFFICES ASSUME Inv, NEW s \in Subjects
               PROVE  attempts[s] + Cardinality(InFlight(s))
                        <= FreeAttempts + N * (1 + rounds[s])
    BY DEF GuessesThrottled, N
  <2>1. N \in Nat /\ rounds[s] \in Nat
    BY InFlightCard DEF Inv, TypeOK
  <2>2. FreeAttempts + N * (1 + rounds[s]) = Paid(s) + N
    BY <2>1 DEF Paid, FreeAttempts
  <2> QED
    BY <2>2 DEF Inv
<1> QED
  BY <1>1, InvHolds, PTL

\* No lockout outlasts the failures it belongs to or their tier.
THEOREM TierMatched == Spec => []LockoutMatchesTier
<1>1. Inv => LockoutMatchesTier
  BY DEF Inv
<1> QED
  BY <1>1, InvHolds, PTL

\* A failure recorded late never shortens the lockout that runs already.
THEOREM NotShortened == Spec => LockoutNeverShortened
<1>1. Inv /\ [Next]_vars =>
        [\A s \in Subjects :
           left'[s] < left[s] => \/ left'[s] = left[s] - 1 /\ Tick
                                 \/ \E c \in Callers : RecordSuccess(c, s)]_vars
  <2> SUFFICES ASSUME Inv, Next, NEW s \in Subjects, left'[s] < left[s]
               PROVE  \/ left'[s] = left[s] - 1 /\ Tick
                      \/ \E c \in Callers : RecordSuccess(c, s)
    OBVIOUS
  <2>0. TypeOK /\ LockoutMatchesTier
    BY DEF Inv
  <2>1. CASE Tick
    BY <2>0, <2>1, LimiterAssumption DEF Tick, TypeOK, LockedOut, LimiterAssumption
  <2>2. ASSUME NEW c \in Callers, NEW t \in Subjects, Check(c, t) PROVE FALSE
    BY <2>0, <2>2, LimiterAssumption DEF Check, TypeOK, LimiterAssumption
  <2>3. ASSUME NEW c \in Callers, NEW t \in Subjects, RecordFailure(c, t) PROVE FALSE
    <3>1. t = s
      BY <2>0, <2>3, LimiterAssumption DEF RecordFailure, TypeOK, LimiterAssumption
    <3>2. /\ attempts[s] \in Nat /\ attempts'[s] = attempts[s] + 1
          /\ left[s] \in Nat /\ left[s] <= Lockout(attempts[s])
          /\ left'[s] = IF Lockout(attempts'[s]) > 0 THEN Lockout(attempts'[s]) ELSE left[s]
      BY <2>0, <2>3, <3>1, LimiterAssumption
      DEF RecordFailure, TypeOK, LockoutMatchesTier, LimiterAssumption
    <3>3. Lockout(attempts[s]) <= Lockout(attempts[s] + 1) /\ Lockout(attempts[s] + 1) \in Nat
          /\ Lockout(attempts[s]) \in Nat
      BY <3>2, LockoutGrows
    <3> QED
      BY <3>2, <3>3
  <2>4. ASSUME NEW c \in Callers, NEW t \in Subjects, RecordSuccess(c, t)
        PROVE  \E d \in Callers : RecordSuccess(d, s)
    <3>1. t = s
      BY <2>0, <2>4, LimiterAssumption DEF RecordSuccess, TypeOK, LimiterAssumption
    <3> QED
      BY <2>4, <3>1
  <2> QED
    BY <2>1, <2>2, <2>3, <2>4 DEF Next
<1> QED
  BY <1>1, InvHolds, PTL DEF Spec, LockoutNeverShortened

=============================================================================
