--------------------------- MODULE DefenceProofs ---------------------------
(***************************************************************************)
(* What answers to attacks: the lockdown and the intrusion detector.       *)
(*                                                                         *)
(* For every number of callers, every configuration and every callback:    *)
(* the lockdown manager's counters agree with its level, the attempts it   *)
(* reports are exact, and the hard level is earned.                        *)
(*                                                                         *)
(* For any number of subjects, every window and every threshold: pruning   *)
(* forgets nothing that counts, and no burst goes unnoticed.               *)
(***************************************************************************)
EXTENDS Lockdown, IntrusionDetector, FiniteSetTheorems, WellFoundedInduction, TLAPS

-----------------------------------------------------------------------------
\* The lockdown manager.

\* The inductive invariant.  The streak of failures is a function of the two
\* counters outside the hard level; inside it, it has reached the limit unless
\* TriggerHard was called.
Inv ==
  /\ TypeOK
  /\ CountersMatchLevel
  /\ state = "None" => streak = failures
  /\ state = "Soft" => streak = Threshold + MaxOverrides - overridesLeft
  /\ WipeOnlyWhenEarned

\* A new manager satisfies the invariant.
LEMMA InitInv == Init => Inv
<1> SUFFICES ASSUME Init PROVE Inv
  OBVIOUS
<1>1. /\ state = "None" /\ failures = 0 /\ overridesLeft = MaxOverrides
      /\ lockdownUntil = 0 /\ now = 0 /\ streak = 0
  BY DEF Init, NoDeadline
<1>2. alive \in BOOLEAN /\ triggered \in BOOLEAN /\ hookRan \in BOOLEAN
  BY Zenon DEF Init
<1>3. hook \in Hooks /\ pc \in [Callers -> CallerSteps]
  BY Zenon DEF Init, CallerSteps
<1> QED
  BY <1>1, <1>2, <1>3, ConfigAssumption
  DEF ConfigAssumption, Inv, TypeOK, CountersMatchLevel, WipeOnlyWhenEarned, Levels,
      NoDeadline

\* One step per action of the manager.
LEMMA StepInv == Inv /\ [Next]_vars => Inv'
<1> SUFFICES ASSUME Inv, [Next]_vars PROVE Inv'
  OBVIOUS
<1> USE ConfigAssumption DEF ConfigAssumption, Inv, TypeOK, CountersMatchLevel, WipeOnlyWhenEarned,
        Levels, NoDeadline, CallerSteps
<1>1. CASE Tick
  BY <1>1 DEF Tick
<1>2. ASSUME NEW c \in Callers, State(c) PROVE Inv'
  BY <1>2 DEF State, Expired, ResetCounters
<1>3. ASSUME NEW c \in Callers, RecordFailure(c) PROVE Inv'
  <2>1. CASE FailHard(c)
    BY <1>3, <2>1 DEF RecordFailure, FailHard
  <2>2. CASE FailSoft(c)
    <3>1. alive' \in BOOLEAN /\ hookRan' \in BOOLEAN
      BY Zenon, <2>2 DEF FailSoft, CallOnHard
    <3>2. /\ pc' \in [Callers -> CallerSteps] /\ hook' \in Hooks
          /\ triggered' = triggered /\ now' = now
      BY <1>3 DEF RecordFailure
    <3>3. /\ overridesLeft' = overridesLeft - 1 /\ streak' = streak + 1
          /\ failures' = failures /\ lockdownUntil' = lockdownUntil
          /\ state = "Soft"
          /\ state' = IF overridesLeft' <= 0 THEN "Hard" ELSE "Soft"
      BY <2>2 DEF FailSoft
    <3> QED
      BY <3>1, <3>2, <3>3
  <2>3. CASE FailNone(c)
    BY <1>3, <2>3 DEF RecordFailure, FailNone
  <2> QED
    BY <1>3, <2>1, <2>2, <2>3 DEF RecordFailure
<1>4. ASSUME NEW c \in Callers, RecordSuccess(c) PROVE Inv'
  BY <1>4 DEF RecordSuccess, ResetCounters
<1>5. ASSUME NEW c \in Callers, TriggerHard(c) PROVE Inv'
  BY <1>5 DEF TriggerHard
<1>6. ASSUME NEW c \in Callers, TriggerHardHook(c) PROVE Inv'
  BY <1>6 DEF TriggerHardHook, CallOnHard
<1>7. CASE UNCHANGED vars
  BY <1>7 DEF vars
<1> QED
  BY <1>1, <1>2, <1>3, <1>4, <1>5, <1>6, <1>7 DEF Next

\* The inductive invariant holds in every reachable state.
THEOREM InvHolds == Spec => []Inv
  BY InitInv, StepInv, PTL DEF Spec

\* Every variable keeps its type: no counter goes negative or past its limit.
THEOREM TypeCorrect == Spec => []TypeOK
<1>1. Inv => TypeOK
  BY DEF Inv
<1> QED
  BY <1>1, InvHolds, PTL

\* The counters are in step with the level: a soft lockdown has a deadline and
\* attempts left, and the count starts afresh when it is over.
THEOREM CountersMatched == Spec => []CountersMatchLevel
<1>1. Inv => CountersMatchLevel
  BY DEF Inv
<1> QED
  BY <1>1, InvHolds, PTL

\* RemainingAttempts() is exact for every threshold and every interleaving.
THEOREM RemainingExact == Spec => []RemainingIsExact
<1>1. Inv => RemainingIsExact
  BY ConfigAssumption
  DEF ConfigAssumption, Inv, TypeOK, Levels, CountersMatchLevel, RemainingIsExact, RemainingAttempts
<1> QED
  BY <1>1, InvHolds, PTL

\* The hard level is reached by exhausting all attempts or by TriggerHard.
THEOREM WipeEarned == Spec => []WipeOnlyWhenEarned
<1>1. Inv => WipeOnlyWhenEarned
  BY DEF Inv
<1> QED
  BY <1>1, InvHolds, PTL

\* No step lifts a soft lockdown early or moves its deadline.
THEOREM SoftServed == Spec => SoftLockdownServed
<1>1. Inv /\ [Next]_vars =>
        [state = "Soft" =>
          /\ state' = "None" => now > lockdownUntil \/ \E c \in Callers : RecordSuccess(c)
          /\ state' = "Soft" => lockdownUntil' = lockdownUntil]_vars
  BY DEF Next, Tick, State, Expired, ResetCounters, RecordFailure, FailHard, FailSoft,
         FailNone, TriggerHard, TriggerHardHook, vars, RecordSuccess
<1> QED
  BY <1>1, InvHolds, PTL DEF Spec, SoftLockdownServed

-----------------------------------------------------------------------------
\* The intrusion detector.

\* The history holds anomalies, timestamps are natural numbers.
Anomalies == [type: {"RAPID_AUTH_FAILURES", "RAPID_ENTRY_ACCESS", "POSSIBLE_DATA_EXFIL"},
              subject: Subjects, count: Nat]

\* The clock never goes back.
Ordered(ts) == \A i, j \in 1 .. Len(ts) : i <= j => ts[i] <= ts[j]

\* The window w of what was recorded in h, at time time: what it lacks is too old,
\* and what it has was recorded within one window.
WindowOK(w, h, time) ==
  /\ w \in Seq(Nat) /\ h \in Seq(Nat)
  /\ Ordered(h) /\ \A i \in 1 .. Len(h) : h[i] <= time
  /\ Len(w) <= Len(h)
  /\ \A i \in 1 .. Len(w) : w[i] = h[Len(h) - Len(w) + i]
  /\ \A i \in 1 .. Len(h) - Len(w) : h[i] < time - WindowSize
  /\ w # <<>> => w[Len(w)] - w[1] <= WindowSize

Types ==
  /\ clock \in Nat /\ emitted \in Nat
  /\ windows \in [Kinds -> [Subjects -> Seq(Nat)]]
  /\ happened \in [Kinds -> [Subjects -> Seq(Nat)]]
  /\ history \in Seq(Anomalies)

\* The inductive invariant: every window is sound with respect to what really
\* happened, and the history is as long as its limit lets it be.
DetectorInv ==
  /\ Types
  /\ \A k \in Kinds, s \in Subjects : WindowOK(windows[k][s], happened[k][s], clock)
  /\ Len(history) = IF emitted <= HistoryMax THEN emitted ELSE HistoryMax

-----------------------------------------------------------------------------

\* The configuration, one constant at a time.
LEMMA Sizes ==
  /\ WindowSize \in Nat \ {0} /\ AuthFailThreshold \in Nat \ {0}
  /\ ReadRateThreshold \in Nat \ {0} /\ ExfilThreshold \in Nat \ {0}
  /\ HistoryMax \in Nat \ {0} /\ IsFiniteSet(Subjects)
BY DetectorAssumption

\* A non-empty set of natural numbers has a least element, and Min is it.
LEMMA MinOfNats ==
  ASSUME NEW S \in SUBSET Nat, S # {}
  PROVE  Min(S) \in S /\ \A y \in S : Min(S) <= y
<1> DEFINE Less == OpToRel(<, Nat)
<1>1. IsWellFoundedOn(Less, Nat)
  BY NatLessThanWellFounded
<1>2. \A x, y \in Nat : <<y, x>> \notin Less => x <= y
  BY DEF OpToRel
<1> HIDE DEF Less
<1>3. \E x \in S : \A y \in S : ~ (<<y, x>> \in Less)
  BY <1>1, WFMin
<1>4. \E x \in S : \A y \in S : x <= y
  BY <1>2, <1>3
<1> QED BY <1>4 DEF Min

\* pruneWindow drops exactly the leading entries that are too old.
LEMMA Prune ==
  ASSUME Types, NEW ts \in Seq(Nat), Ordered(ts)
  PROVE  \E d \in 0 .. Len(ts) :
           /\ pruneWindow(ts) = SubSeq(ts, d + 1, Len(ts))
           /\ \A i \in 1 .. d : ts[i] < clock - WindowSize
           /\ \A i \in d + 1 .. Len(ts) : ts[i] >= clock - WindowSize
<1> DEFINE kept == {i \in DOMAIN ts : ts[i] >= clock - WindowSize}
<1>0. clock \in Nat /\ WindowSize \in Nat /\ Len(ts) \in Nat /\ DOMAIN ts = 1 .. Len(ts)
  BY Sizes DEF Types
<1>1. CASE kept = {}
  <2>1. pruneWindow(ts) = <<>>
    BY <1>1 DEF pruneWindow
  <2>2. SubSeq(ts, Len(ts) + 1, Len(ts)) = <<>>
    BY <1>0
  <2>3. \A i \in 1 .. Len(ts) : ts[i] < clock - WindowSize
    BY <1>0, <1>1
  <2> QED BY <1>0, <2>1, <2>2, <2>3
<1>2. CASE kept # {}
  <2> DEFINE m == Min(kept)
  <2>1. pruneWindow(ts) = SubSeq(ts, m, Len(ts))
    BY <1>2 DEF pruneWindow
  <2>2. kept \in SUBSET Nat
    BY <1>0
  <2>3. m \in kept /\ \A y \in kept : m <= y
    BY <1>2, <2>2, MinOfNats
  <2> HIDE DEF m
  <2>4. m \in 1 .. Len(ts) /\ ts[m] >= clock - WindowSize
    BY <1>0, <2>3
  <2>5. \A i \in 1 .. m - 1 : ts[i] < clock - WindowSize
    BY <1>0, <2>3, <2>4
  <2>6. \A i \in m .. Len(ts) : ts[i] >= clock - WindowSize
    BY <1>0, <2>4 DEF Ordered
  <2>7. m - 1 \in 0 .. Len(ts) /\ (m - 1) + 1 = m
    BY <1>0, <2>4
  <2> QED BY <2>1, <2>5, <2>6, <2>7
<1> QED BY <1>1, <1>2

\* A window is in order, like the record it ends.
LEMMA Suffix ==
  ASSUME NEW w, NEW h, NEW time \in Nat, WindowOK(w, h, time)
  PROVE  Ordered(w)
<1> SUFFICES ASSUME NEW i \in 1 .. Len(w), NEW j \in 1 .. Len(w), i <= j
             PROVE  w[i] <= w[j]
  BY DEF Ordered
<1> DEFINE d == Len(h) - Len(w)
<1>1. Len(w) \in Nat /\ Len(h) \in Nat /\ Len(w) <= Len(h)
  BY DEF WindowOK
<1>2. d + i \in 1 .. Len(h) /\ d + j \in 1 .. Len(h) /\ d + i <= d + j
  BY <1>1
<1>3. w[i] = h[d + i] /\ w[j] = h[d + j]
  BY DEF WindowOK
<1> HIDE DEF d
<1> QED BY <1>2, <1>3 DEF WindowOK, Ordered

\* A window stays sound when its subject is recorded at the present time, and is
\* fresh from end to end.
LEMMA Recording ==
  ASSUME DetectorInv, NEW k \in Kinds, NEW s \in Subjects
  PROVE  LET w == Append(pruneWindow(windows[k][s]), clock)
             h == Append(happened[k][s], clock)
         IN /\ WindowOK(w, h, clock)
            /\ w # <<>>
            /\ \A i \in 1 .. Len(w) : w[i] >= clock - WindowSize
<1> DEFINE v == windows[k][s]
           g == happened[k][s]
           w == Append(pruneWindow(v), clock)
           h == Append(g, clock)
<1>1. clock \in Nat /\ WindowSize \in Nat /\ WindowOK(v, g, clock)
  BY Sizes DEF DetectorInv, Types
<1>2. Types /\ v \in Seq(Nat) /\ g \in Seq(Nat) /\ Ordered(v)
  BY <1>1, Suffix DEF DetectorInv, WindowOK
<1>3. PICK d \in 0 .. Len(v) :
           /\ pruneWindow(v) = SubSeq(v, d + 1, Len(v))
           /\ \A i \in 1 .. d : v[i] < clock - WindowSize
           /\ \A i \in d + 1 .. Len(v) : v[i] >= clock - WindowSize
  BY <1>2, Prune
<1> HIDE DEF v, g
<1>4. /\ Len(h) = Len(g) + 1 /\ h \in Seq(Nat) /\ h[Len(g) + 1] = clock
      /\ \A i \in 1 .. Len(g) : h[i] = g[i]
  BY <1>1, <1>2
<1>5. /\ Len(w) = Len(v) - d + 1 /\ w \in Seq(Nat) /\ w[Len(v) - d + 1] = clock
      /\ \A i \in 1 .. Len(v) - d : w[i] = v[d + i]
  <2>1. SubSeq(v, d + 1, Len(v)) \in Seq(Nat) /\ Len(SubSeq(v, d + 1, Len(v))) = Len(v) - d
        /\ \A i \in 1 .. Len(v) - d : SubSeq(v, d + 1, Len(v))[i] = v[d + i]
    BY <1>2
  <2> QED BY <1>1, <1>2, <1>3, <2>1
<1> HIDE DEF w, h
<1>6. /\ Len(v) \in Nat /\ Len(g) \in Nat /\ Len(v) <= Len(g) /\ d \in 0 .. Len(v)
      /\ \A i \in 1 .. Len(v) : v[i] = g[Len(g) - Len(v) + i]
  BY <1>1, <1>2, <1>3 DEF WindowOK
<1>s. /\ Len(v) \in Nat /\ Len(g) \in Nat /\ Len(v) <= Len(g) /\ d \in 0 .. Len(v)
      /\ Len(h) = Len(g) + 1 /\ Len(w) = Len(v) - d + 1
  BY <1>4, <1>5, <1>6
<1>7. Ordered(h) /\ \A i \in 1 .. Len(h) : h[i] <= clock
  <2>1. \A i \in 1 .. Len(g) : h[i] = g[i] /\ g[i] <= clock
    BY <1>1, <1>4 DEF WindowOK
  <2>2. \A i, j \in 1 .. Len(g) : i <= j => g[i] <= g[j]
    BY <1>1 DEF WindowOK, Ordered
  <2>3. \A i \in 1 .. Len(h) : h[i] <= clock
    BY <1>1, <1>4, <1>6, <2>1
  <2>4. ASSUME NEW i \in 1 .. Len(h), NEW j \in 1 .. Len(h), i <= j
        PROVE  h[i] <= h[j]
    <3>1. CASE j = Len(g) + 1
      BY <1>4, <2>3, <3>1
    <3>2. CASE j # Len(g) + 1
      <4>1. i \in 1 .. Len(g) /\ j \in 1 .. Len(g)
        BY <1>4, <1>6, <2>4, <3>2
      <4> QED BY <2>1, <2>2, <2>4, <4>1
    <3> QED BY <3>1, <3>2
  <2> QED BY <2>3, <2>4 DEF Ordered
<1>8. \A i \in 1 .. Len(w) : w[i] >= clock - WindowSize /\ w[i] \in Nat /\ w[i] <= clock
  <2> TAKE i \in 1 .. Len(w)
  <2>1. CASE i = Len(v) - d + 1
    BY <1>1, <1>5, <2>1
  <2>2. CASE i # Len(v) - d + 1
    <3>1. i \in 1 .. Len(v) - d /\ d + i \in d + 1 .. Len(v) /\ d + i \in 1 .. Len(v)
      BY <1>s, <2>2
    <3>2. v[d + i] \in Nat
      BY <1>2, <3>1
    <3>3. Len(g) - Len(v) + (d + i) \in 1 .. Len(g)
      BY <1>6, <3>1
    <3>4. v[d + i] <= clock
      <4>1. v[d + i] = g[Len(g) - Len(v) + (d + i)]
        BY <1>6, <3>1
      <4>2. \A j \in 1 .. Len(g) : g[j] <= clock
        BY <1>1 DEF WindowOK
      <4> QED BY <3>3, <4>1, <4>2
    <3> QED BY <1>3, <1>5, <3>1, <3>2, <3>4
  <2> QED BY <2>1, <2>2
<1>9. \A i \in 1 .. Len(w) : w[i] = h[Len(h) - Len(w) + i]
  <2> TAKE i \in 1 .. Len(w)
  <2>1. CASE i = Len(v) - d + 1
    <3>1. Len(h) - Len(w) + i = Len(g) + 1
      BY <1>s, <2>1
    <3> QED BY <1>4, <1>5, <2>1, <3>1
  <2>2. CASE i # Len(v) - d + 1
    <3>1. i \in 1 .. Len(v) - d /\ d + i \in 1 .. Len(v)
      BY <1>s, <2>2
    <3>2. w[i] = g[Len(g) - Len(v) + (d + i)]
      BY <1>5, <1>6, <3>1
    <3>3. Len(h) - Len(w) + i = Len(g) - Len(v) + (d + i)
          /\ Len(g) - Len(v) + (d + i) \in 1 .. Len(g)
      BY <1>s, <3>1
    <3> QED BY <1>4, <3>2, <3>3
  <2> QED BY <2>1, <2>2
<1>10. \A i \in 1 .. Len(h) - Len(w) : h[i] < clock - WindowSize
  <2> TAKE i \in 1 .. Len(h) - Len(w)
  <2>1. i \in 1 .. Len(g) - Len(v) + d /\ i \in 1 .. Len(g) /\ h[i] = g[i]
    <3>1. i \in 1 .. Len(g) - Len(v) + d /\ i \in 1 .. Len(g)
      BY <1>s
    <3> QED BY <1>4, <3>1
  <2>2. CASE i <= Len(g) - Len(v)
    BY <1>1, <1>6, <2>1, <2>2 DEF WindowOK
  <2>3. CASE i > Len(g) - Len(v)
    <3> DEFINE j == i - (Len(g) - Len(v))
    <3>1. j \in 1 .. d /\ j \in 1 .. Len(v) /\ Len(g) - Len(v) + j = i
      BY <1>6, <2>1, <2>3
    <3>2. v[j] = g[i]
      BY <1>6, <3>1
    <3> QED BY <1>3, <2>1, <3>1, <3>2
  <2> QED BY <1>6, <2>1, <2>2, <2>3
<1>11. Len(w) >= 1 /\ Len(w) <= Len(h) /\ w # <<>> /\ Len(w) \in Nat
  BY <1>4, <1>5, <1>6
<1>12. w[Len(w)] - w[1] <= WindowSize
  BY <1>1, <1>8, <1>11
<1>13. WindowOK(w, h, clock)
  BY <1>4, <1>5, <1>7, <1>9, <1>10, <1>11, <1>12 DEF WindowOK
<1> QED BY <1>8, <1>11, <1>13 DEF w, h, v, g

\* What Note does to the windows and the record.
LEMMA Noted ==
  ASSUME DetectorInv, NEW k \in Kinds, NEW s \in Subjects, Note(k, s)
  PROVE  /\ clock' = clock
         /\ windows' = Recorded(k, s)
         /\ windows' \in [Kinds -> [Subjects -> Seq(Nat)]]
         /\ happened' \in [Kinds -> [Subjects -> Seq(Nat)]]
         /\ \A j \in Kinds, u \in Subjects :
              WindowOK(windows'[j][u], happened'[j][u], clock')
         /\ \A j \in Kinds, u \in Subjects :
              ~ (j = k /\ u = s) => happened'[j][u] = happened[j][u]
         /\ \A i \in 1 .. Len(windows'[k][s]) : windows'[k][s][i] >= clock - WindowSize
<1> DEFINE w == Append(pruneWindow(windows[k][s]), clock)
           h == Append(happened[k][s], clock)
<1>1. WindowOK(w, h, clock) /\ \A i \in 1 .. Len(w) : w[i] >= clock - WindowSize
  BY Recording
<1>2. w \in Seq(Nat) /\ h \in Seq(Nat)
  BY <1>1 DEF WindowOK
<1>3. /\ windows' = [windows EXCEPT ![k][s] = w]
      /\ happened' = [happened EXCEPT ![k][s] = h]
      /\ windows' = Recorded(k, s) /\ clock' = clock
  BY DEF Note, Recorded
<1> HIDE DEF w, h
<1>4. /\ windows \in [Kinds -> [Subjects -> Seq(Nat)]]
      /\ happened \in [Kinds -> [Subjects -> Seq(Nat)]]
  BY DEF DetectorInv, Types
<1>5. /\ windows' \in [Kinds -> [Subjects -> Seq(Nat)]]
      /\ happened' \in [Kinds -> [Subjects -> Seq(Nat)]]
  BY <1>2, <1>3, <1>4
<1>6. windows'[k][s] = w /\ happened'[k][s] = h
  BY <1>3, <1>4
<1>7. \A j \in Kinds, u \in Subjects : ~ (j = k /\ u = s) =>
        windows'[j][u] = windows[j][u] /\ happened'[j][u] = happened[j][u]
  BY <1>3, <1>4
<1>8. ASSUME NEW j \in Kinds, NEW u \in Subjects
      PROVE  WindowOK(windows'[j][u], happened'[j][u], clock')
  <2>1. CASE j = k /\ u = s
    BY <1>1, <1>3, <1>6, <2>1
  <2>2. CASE ~ (j = k /\ u = s)
    <3>1. WindowOK(windows[j][u], happened[j][u], clock)
      BY DEF DetectorInv
    <3> QED BY <1>3, <1>7, <2>2, <3>1
  <2> QED BY <2>1, <2>2
<1> QED BY <1>1, <1>3, <1>5, <1>6, <1>7, <1>8

\* A sequence without its first element, and in reverse.
LEMMA TailElements ==
  ASSUME NEW S, NEW q \in Seq(S), Len(q) >= 1
  PROVE  /\ Tail(q) \in Seq(S) /\ Len(Tail(q)) = Len(q) - 1
         /\ \A i \in 1 .. Len(q) - 1 : Tail(q)[i] = q[i + 1]
OBVIOUS

LEMMA ReverseElements ==
  ASSUME NEW S, NEW q \in Seq(S)
  PROVE  /\ Reverse(q) \in Seq(S) /\ Len(Reverse(q)) = Len(q)
         /\ \A i \in 1 .. Len(q) : Reverse(q)[i] = q[(Len(q) - i) + 1]
<1>1. Reverse(q) \in [1 .. Len(q) -> S]
  BY DEF Reverse
<1> QED BY <1>1 DEF Reverse

\* What emit does to the history: the new anomaly comes first, and only the oldest
\* may go.
LEMMA Emitted ==
  ASSUME DetectorInv, NEW met \in BOOLEAN, NEW s \in Subjects, NEW n \in Nat,
         NEW type \in {"RAPID_AUTH_FAILURES", "RAPID_ENTRY_ACCESS", "POSSIBLE_DATA_EXFIL"},
         emit(met, type, s, n)
  PROVE  /\ history' \in Seq(Anomalies) /\ emitted' \in Nat
         /\ Len(history') = IF emitted' <= HistoryMax THEN emitted' ELSE HistoryMax
         /\ met => Raised(type, s)
         /\ ~ met => emitted' = emitted
<1>1. /\ history \in Seq(Anomalies) /\ emitted \in Nat /\ HistoryMax \in Nat \ {0}
      /\ Len(history) = IF emitted <= HistoryMax THEN emitted ELSE HistoryMax
  BY Sizes DEF DetectorInv, Types
<1>2. CASE ~ met
  BY <1>1, <1>2 DEF emit
<1>3. CASE met
  <2> DEFINE ev == [type |-> type, subject |-> s, count |-> n]
             rest == IF Len(history) >= HistoryMax THEN Tail(history) ELSE history
  <2>1. ev \in Anomalies /\ ev.type = type /\ ev.subject = s
    BY DEF Anomalies
  <2>2. /\ history' = Append(rest, ev) /\ emitted' = emitted + 1
        /\ emitted' \in callbacks'
    BY <1>3 DEF emit, Remember
  <2>3. /\ rest \in Seq(Anomalies) /\ Len(rest) \in Nat
        /\ Len(rest) = IF Len(history) >= HistoryMax THEN HistoryMax - 1 ELSE Len(history)
        /\ \A i \in 1 .. Len(rest) : rest[i] = history[Len(history) - Len(rest) + i]
    <3>1. CASE Len(history) >= HistoryMax
      <4>1. Len(history) = HistoryMax /\ Len(history) >= 1 /\ rest = Tail(history)
        BY <1>1, <3>1
      <4>2. /\ rest \in Seq(Anomalies) /\ Len(rest) = Len(history) - 1
            /\ \A i \in 1 .. Len(history) - 1 : rest[i] = history[i + 1]
        BY <1>1, <4>1, TailElements
      <4> HIDE DEF rest
      <4> QED BY <1>1, <4>1, <4>2
    <3>2. CASE ~ (Len(history) >= HistoryMax)
      <4>1. rest = history
        BY <3>2
      <4> HIDE DEF rest
      <4> QED BY <1>1, <3>2, <4>1
    <3> QED BY <3>1, <3>2
  <2> HIDE DEF ev, rest
  <2>4. /\ history' \in Seq(Anomalies) /\ Len(history') = Len(rest) + 1
        /\ history'[Len(rest) + 1] = ev
        /\ \A i \in 1 .. Len(rest) : history'[i] = rest[i]
    BY <2>1, <2>2, <2>3
  <2>5. /\ emitted' \in Nat
        /\ Len(history') = IF emitted' <= HistoryMax THEN emitted' ELSE HistoryMax
    BY <1>1, <2>2, <2>3, <2>4
  <2>6. Len(history') = Min({HistoryMax, emitted'})
    <3> DEFINE m == IF emitted' <= HistoryMax THEN emitted' ELSE HistoryMax
    <3>1. {HistoryMax, emitted'} \in SUBSET Nat /\ {HistoryMax, emitted'} # {}
      BY <1>1, <2>5
    <3>2. Min({HistoryMax, emitted'}) \in {HistoryMax, emitted'}
          /\ \A y \in {HistoryMax, emitted'} : Min({HistoryMax, emitted'}) <= y
      BY <3>1, MinOfNats
    <3> QED BY <1>1, <2>5, <3>2
  <2>7. History'[1] = ev
    BY <2>3, <2>4 DEF History, Reverse
  <2>8. IsPrefix(Tail(History'), History)
    <3> DEFINE r == Len(rest)
    <3>1. r \in Nat /\ r <= Len(history) /\ Len(history) \in Nat
      BY <1>1, <2>3
    <3>2. /\ History' \in Seq(Anomalies) /\ Len(History') = r + 1
          /\ \A i \in 1 .. r + 1 : History'[i] = history'[(r + 1 - i) + 1]
      <4>1. History' = Reverse(history')
        BY DEF History
      <4> QED BY <2>4, <4>1, ReverseElements
    <3> HIDE DEF r
    <3>3. /\ Len(Tail(History')) = r /\ Len(History) = Len(history)
          /\ \A i \in 1 .. r : Tail(History')[i] = history'[(r + 1 - (i + 1)) + 1]
          /\ \A i \in 1 .. Len(history) : History[i] = history[(Len(history) - i) + 1]
          /\ Tail(History') \in Seq(Anomalies) /\ History \in Seq(Anomalies)
      <4>1. /\ Tail(History') \in Seq(Anomalies) /\ Len(Tail(History')) = r
            /\ \A i \in 1 .. r : Tail(History')[i] = History'[i + 1]
        BY <3>1, <3>2, TailElements
      <4>2. \A i \in 1 .. r : i + 1 \in 1 .. r + 1
        BY <3>1
      <4> QED BY <1>1, <3>2, <4>1, <4>2, ReverseElements DEF History
    <3>4. ASSUME NEW i \in 1 .. r PROVE Tail(History')[i] = History[i]
      <4>1. /\ (r + 1 - (i + 1)) + 1 = r - i + 1 /\ r - i + 1 \in 1 .. r
            /\ Len(history) - r + (r - i + 1) = (Len(history) - i) + 1
            /\ i \in 1 .. Len(history)
        BY <3>1
      <4>2. history'[r - i + 1] = history[Len(history) - r + (r - i + 1)]
        BY <2>3, <2>4, <4>1 DEF r
      <4> QED BY <3>3, <4>1, <4>2
    <3>5. SubSeq(Tail(History'), 1, r) = SubSeq(History, 1, r)
      BY <3>1, <3>3, <3>4
    <3> QED BY <3>1, <3>3, <3>5 DEF IsPrefix
  <2>9. Raised(type, s)
    BY <2>1, <2>2, <2>6, <2>7, <2>8 DEF Raised
  <2> QED BY <1>3, <2>4, <2>5, <2>9
<1> QED BY <1>2, <1>3

-----------------------------------------------------------------------------
\* The indices that lie inside the window are the last ones, at most as many as
\* the window has entries.
LEMMA WithinTail ==
  ASSUME NEW w, NEW h, NEW time \in Nat, WindowOK(w, h, time)
  PROVE  LET W == {i \in DOMAIN h : h[i] >= time - WindowSize}
         IN /\ W \subseteq Len(h) - Len(w) + 1 .. Len(h)
            /\ IsFiniteSet(W) /\ Cardinality(W) \in Nat /\ Cardinality(W) <= Len(w)
            /\ (\A i \in 1 .. Len(w) : w[i] >= time - WindowSize)
                 => Cardinality(W) = Len(w)
<1> DEFINE W == {i \in DOMAIN h : h[i] >= time - WindowSize}
           a == Len(h) - Len(w) + 1
<1>1. /\ Len(h) \in Nat /\ Len(w) \in Nat /\ Len(w) <= Len(h) /\ DOMAIN h = 1 .. Len(h)
      /\ WindowSize \in Nat /\ a \in 1 .. Len(h) + 1 /\ \A i \in 1 .. Len(h) : h[i] \in Nat
  BY Sizes DEF WindowOK
<1>2. \A i \in 1 .. a - 1 : h[i] < time - WindowSize
  BY <1>1 DEF WindowOK
<1>3. W \subseteq a .. Len(h)
  BY <1>1, <1>2
<1>4. IsFiniteSet(a .. Len(h)) /\ Cardinality(a .. Len(h)) = Len(w)
  <2>1. a \in Int /\ Len(h) \in Int
    BY <1>1
  <2>2. Len(w) = IF a > Len(h) THEN 0 ELSE Len(h) - a + 1
    BY <1>1
  <2> HIDE DEF a
  <2> QED BY <2>1, <2>2, FS_Interval
<1>5. IsFiniteSet(W) /\ Cardinality(W) <= Len(w)
  BY <1>3, <1>4, FS_Subset
<1>6. Cardinality(W) \in Nat
  BY <1>5, FS_CardinalityType
<1>7. ASSUME \A i \in 1 .. Len(w) : w[i] >= time - WindowSize
      PROVE  Cardinality(W) = Len(w)
  <2>1. ASSUME NEW i \in a .. Len(h) PROVE i \in W
    <3>1. i - a + 1 \in 1 .. Len(w) /\ Len(h) - Len(w) + (i - a + 1) = i /\ i \in 1 .. Len(h)
      BY <1>1
    <3>2. w[i - a + 1] = h[i]
      BY <3>1 DEF WindowOK
    <3> QED BY <1>1, <1>7, <3>1, <3>2
  <2>2. W = a .. Len(h)
    BY <1>3, <2>1
  <2> QED BY <1>4, <2>2
<1> QED BY <1>3, <1>5, <1>6, <1>7

\* There are finitely many entries.
LEMMA EntriesFinite ==
  ASSUME NEW f \in [Subjects -> Seq(Nat)]
  PROVE  IsFiniteSet(Entries(f)) /\ Cardinality(Entries(f)) \in Nat
<1> DEFINE S == {{u} \X DOMAIN f[u] : u \in Subjects}
           F == [u \in Subjects |-> {u} \X DOMAIN f[u]]
<1>1. F \in Surjection(Subjects, S)
  BY DEF Surjection
<1>2. IsFiniteSet(S)
  BY <1>1, Sizes, FS_Surjection
<1>3. ASSUME NEW u \in Subjects PROVE IsFiniteSet({u} \X DOMAIN f[u])
  <2>1. DOMAIN f[u] = 1 .. Len(f[u]) /\ Len(f[u]) \in Int /\ 1 \in Int
    OBVIOUS
  <2>2. IsFiniteSet(DOMAIN f[u])
    BY <2>1, FS_Interval
  <2>3. IsFiniteSet({u})
    BY FS_Singleton
  <2> QED BY <2>2, <2>3, FS_Product
<1>4. \A T \in S : IsFiniteSet(T)
  BY <1>3
<1>5. IsFiniteSet(UNION S)
  BY <1>2, <1>4, FS_UNION
<1> QED BY <1>5, FS_CardinalityType DEF Entries

\* All subjects together have at most as many events in the window as there are
\* entries in their windows.
LEMMA AllWithin ==
  ASSUME NEW W \in [Subjects -> Seq(Nat)], NEW H \in [Subjects -> Seq(Nat)],
         NEW time \in Nat, \A u \in Subjects : WindowOK(W[u], H[u], time)
  PROVE  LET A == UNION {{u} \X {i \in DOMAIN H[u] : H[u][i] >= time - WindowSize} :
                         u \in Subjects}
         IN Cardinality(A) \in Nat /\ Cardinality(A) <= Cardinality(Entries(W))
<1> DEFINE A == UNION {{u} \X {i \in DOMAIN H[u] : H[u][i] >= time - WindowSize} :
                        u \in Subjects}
           f == [x \in A |-> <<x[1], x[2] - (Len(H[x[1]]) - Len(W[x[1]]))>>]
<1>1. ASSUME NEW x \in A
      PROVE  /\ x = <<x[1], x[2]>> /\ x[1] \in Subjects /\ x[2] \in Int
             /\ x[2] - (Len(H[x[1]]) - Len(W[x[1]])) \in 1 .. Len(W[x[1]])
  <2>1. PICK u \in Subjects : x \in {u} \X {i \in DOMAIN H[u] : H[u][i] >= time - WindowSize}
    OBVIOUS
  <2>2. x = <<x[1], x[2]>> /\ x[1] = u
        /\ x[2] \in {i \in DOMAIN H[u] : H[u][i] >= time - WindowSize}
    BY <2>1
  <2>3. WindowOK(W[u], H[u], time)
    OBVIOUS
  <2>4. x[2] \in Len(H[u]) - Len(W[u]) + 1 .. Len(H[u])
    BY <2>2, <2>3, WithinTail
  <2>5. Len(H[u]) \in Nat /\ Len(W[u]) \in Nat
    OBVIOUS
  <2>6. x[2] \in Int /\ x[2] - (Len(H[u]) - Len(W[u])) \in 1 .. Len(W[u])
    BY <2>4, <2>5
  <2> QED BY <2>2, <2>6
<1>2. ASSUME NEW x \in A PROVE f[x] \in Entries(W)
  <2>1. DOMAIN W[x[1]] = 1 .. Len(W[x[1]])
    BY <1>1
  <2>2. f[x] \in {x[1]} \X DOMAIN W[x[1]]
    BY <1>1, <2>1
  <2> QED BY <1>1, <2>2 DEF Entries
<1>3. ASSUME NEW x \in A, NEW y \in A, f[x] = f[y] PROVE x = y
  <2>1. /\ x[1] = y[1]
        /\ x[2] - (Len(H[x[1]]) - Len(W[x[1]])) = y[2] - (Len(H[y[1]]) - Len(W[y[1]]))
    BY <1>3
  <2>2. Len(H[x[1]]) \in Nat /\ Len(W[x[1]]) \in Nat
    BY <1>1
  <2>3. x[2] = y[2]
    BY <1>1, <2>1, <2>2
  <2> QED BY <1>1, <2>1, <2>3
<1>4. f \in Injection(A, Entries(W))
  <2>1. f \in [A -> Entries(W)]
    BY <1>2
  <2> HIDE DEF A, f
  <2> QED BY <1>3, <2>1 DEF Injection, IsInjective
<1> HIDE DEF A, f
<1>5. IsFiniteSet(A) /\ Cardinality(A) <= Cardinality(Entries(W))
  BY <1>4, EntriesFinite, FS_Injection
<1>6. Cardinality(A) \in Nat
  BY <1>5, FS_CardinalityType
<1> QED BY <1>5, <1>6 DEF A

-----------------------------------------------------------------------------

\* The anomaly of each kind of event, and the pattern that raises it.
AnomalyOf(k) == IF k = "auth" THEN "RAPID_AUTH_FAILURES"
               ELSE IF k = "read" THEN "RAPID_ENTRY_ACCESS" ELSE "POSSIBLE_DATA_EXFIL"
Met(k, w, s) ==
  IF k = "auth" THEN Cardinality(Entries(w["auth"])) >= AuthFailThreshold
  ELSE IF k = "read" THEN Len(w["read"][s]) >= ReadRateThreshold
  ELSE /\ Len(w["ingest"][s]) + Len(w["delete"][s]) >= ExfilThreshold
       /\ Len(w["ingest"][s]) > 0 /\ Len(w["delete"][s]) > 0

\* The Record methods, by the kind of event they record.
RecordOp(k, s) ==
  \/ k = "auth" /\ RecordAuthFailure(s)
  \/ k = "read" /\ RecordEntryRead(s)
  \/ k = "ingest" /\ RecordIngestOp(s)
  \/ k = "delete" /\ RecordDeleteOp(s)

\* Arithmetic, out of the way of what it is about.
LEMMA LenInNat == \A q \in Seq(Nat) : Len(q) \in Nat
OBVIOUS

LEMMA AtLeast == \A a, b, c \in Nat : a >= c /\ a <= b => b >= c
OBVIOUS

LEMMA SumInNat == \A m, n \in Nat : m + n \in Nat
OBVIOUS

\* Every Record method is Note followed by emit, on the pattern of its kind.
LEMMA RecordStep ==
  ASSUME DetectorInv, NEW k \in Kinds, NEW s \in Subjects, RecordOp(k, s)
  PROVE  /\ Note(k, s)
         /\ \E n \in Nat : emit(Met(k, windows', s), AnomalyOf(k), s, n)
<1>1. Note(k, s)
  BY DEF RecordOp, RecordAuthFailure, RecordEntryRead, RecordIngestOp, RecordDeleteOp
<1>2. windows' = Recorded(k, s) /\ windows' \in [Kinds -> [Subjects -> Seq(Nat)]]
  BY <1>1, Noted
<1>3. CASE k = "auth"
  <2>1. windows'["auth"] \in [Subjects -> Seq(Nat)]
    BY <1>2 DEF Kinds
  <2>2. Cardinality(Entries(windows'["auth"])) \in Nat
    BY <2>1, EntriesFinite
  <2>3. emit(Met(k, windows', s), AnomalyOf(k), s, Cardinality(Entries(windows'["auth"])))
    BY <1>2, <1>3 DEF RecordOp, RecordAuthFailure, AuthTotal, Met, AnomalyOf
  <2> QED BY <1>1, <2>2, <2>3
<1>4. CASE k = "read"
  <2>1. Len(windows'["read"][s]) \in Nat
    BY <1>2 DEF Kinds
  <2>2. emit(Met(k, windows', s), AnomalyOf(k), s, Len(windows'["read"][s]))
    BY <1>2, <1>4 DEF RecordOp, RecordEntryRead, Met, AnomalyOf
  <2> QED BY <1>1, <2>1, <2>2
<1>5. CASE k \in {"ingest", "delete"}
  <2>1. Len(windows'["ingest"][s]) + Len(windows'["delete"][s]) \in Nat
    <3>1. windows'["ingest"][s] \in Seq(Nat) /\ windows'["delete"][s] \in Seq(Nat)
      BY <1>2 DEF Kinds
    <3>2. Len(windows'["ingest"][s]) \in Nat /\ Len(windows'["delete"][s]) \in Nat
      BY <3>1, LenInNat
    <3> QED BY <3>2, SumInNat
  <2>2. checkExfilPattern(windows', s)
    BY <1>2, <1>5 DEF RecordOp, RecordIngestOp, RecordDeleteOp
  <2>3. emit(Met(k, windows', s), AnomalyOf(k), s,
             Len(windows'["ingest"][s]) + Len(windows'["delete"][s]))
    BY <1>5, <2>2 DEF checkExfilPattern, Met, AnomalyOf
  <2> QED BY <1>1, <2>1, <2>3
<1> QED BY <1>3, <1>4, <1>5 DEF Kinds

\* Recording keeps the invariant, and raises what it should and nothing else.
LEMMA RecordInv ==
  ASSUME DetectorInv, NEW k \in Kinds, NEW s \in Subjects, RecordOp(k, s)
  PROVE  /\ DetectorInv'
         /\ Met(k, windows', s) => Raised(AnomalyOf(k), s)
         /\ ~ Met(k, windows', s) => emitted' = emitted
<1>1. Note(k, s)
  BY RecordStep
<1>2. PICK n \in Nat : emit(Met(k, windows', s), AnomalyOf(k), s, n)
  BY RecordStep
<1>3. AnomalyOf(k) \in {"RAPID_AUTH_FAILURES", "RAPID_ENTRY_ACCESS", "POSSIBLE_DATA_EXFIL"}
  BY DEF AnomalyOf
<1>4. /\ history' \in Seq(Anomalies) /\ emitted' \in Nat
      /\ Len(history') = IF emitted' <= HistoryMax THEN emitted' ELSE HistoryMax
      /\ Met(k, windows', s) => Raised(AnomalyOf(k), s)
      /\ ~ Met(k, windows', s) => emitted' = emitted
  <2> DEFINE type == AnomalyOf(k)
  <2> HIDE DEF type
  <2>1. n \in Nat
        /\ type \in {"RAPID_AUTH_FAILURES", "RAPID_ENTRY_ACCESS", "POSSIBLE_DATA_EXFIL"}
    BY <1>2, <1>3 DEF type
  <2>2. CASE Met(k, windows', s)
    <3>1. emit(TRUE, type, s, n)
      BY <1>2, <2>2 DEF emit, type
    <3>2. /\ history' \in Seq(Anomalies) /\ emitted' \in Nat
          /\ Len(history') = IF emitted' <= HistoryMax THEN emitted' ELSE HistoryMax
          /\ Raised(type, s)
      BY <2>1, <3>1, Emitted
    <3> QED BY <2>2, <3>2 DEF type
  <2>3. CASE ~ Met(k, windows', s)
    <3>1. emit(FALSE, type, s, n)
      BY <1>2, <2>3 DEF emit, type
    <3>2. /\ history' \in Seq(Anomalies) /\ emitted' \in Nat
          /\ Len(history') = IF emitted' <= HistoryMax THEN emitted' ELSE HistoryMax
          /\ emitted' = emitted
      BY <2>1, <3>1, Emitted
    <3> QED BY <2>3, <3>2
  <2> QED BY <2>2, <2>3
<1>5. /\ clock' = clock /\ clock \in Nat
      /\ windows' \in [Kinds -> [Subjects -> Seq(Nat)]]
      /\ happened' \in [Kinds -> [Subjects -> Seq(Nat)]]
      /\ \A j \in Kinds, u \in Subjects :
           WindowOK(windows'[j][u], happened'[j][u], clock')
  BY <1>1, Noted DEF DetectorInv, Types
<1>6. (\A j \in Kinds, u \in Subjects : WindowOK(windows[j][u], happened[j][u], clock))'
  BY <1>5 DEF WindowOK, Ordered
<1>7. Types'
  BY <1>4, <1>5 DEF Types
<1> QED BY <1>4, <1>6, <1>7 DEF DetectorInv

\* Old entries grow older only.
LEMMA TickInv ==
  ASSUME DetectorInv, DetectorTick
  PROVE  DetectorInv'
<1>1. clock' = clock + 1 /\ clock \in Nat /\ UNCHANGED <<windows, history, happened, emitted>>
  BY DEF DetectorInv, Types, DetectorTick
<1>2. ASSUME NEW j \in Kinds, NEW u \in Subjects
      PROVE  WindowOK(windows'[j][u], happened'[j][u], clock')
  <2> DEFINE w == windows[j][u]
             h == happened[j][u]
  <2>1. WindowOK(w, h, clock) /\ WindowSize \in Nat
    BY Sizes DEF DetectorInv
  <2> HIDE DEF w, h
  <2>2. WindowOK(w, h, clock + 1)
    <3>1. \A i \in 1 .. Len(h) : h[i] \in Nat
      BY <2>1 DEF WindowOK
    <3>2. \A i \in 1 .. Len(h) : h[i] <= clock + 1
      BY <1>1, <2>1, <3>1 DEF WindowOK
    <3>3. ASSUME NEW i \in 1 .. Len(h) - Len(w) PROVE h[i] < (clock + 1) - WindowSize
      <4>1. h[i] < clock - WindowSize
        BY <2>1 DEF WindowOK
      <4>2. i \in 1 .. Len(h)
        <5>1. Len(h) \in Nat /\ Len(w) \in Nat
          BY <2>1 DEF WindowOK
        <5> QED BY <5>1
      <4>3. h[i] \in Nat
        BY <3>1, <4>2
      <4> DEFINE x == h[i]
      <4>4. x < clock - WindowSize /\ x \in Nat /\ clock \in Nat /\ WindowSize \in Nat
        BY <1>1, <2>1, <4>1, <4>3
      <4> HIDE DEF x
      <4>5. x < (clock + 1) - WindowSize
        BY <4>4
      <4> QED BY <4>5 DEF x
    <3>4. /\ w \in Seq(Nat) /\ h \in Seq(Nat) /\ Ordered(h) /\ Len(w) <= Len(h)
          /\ \A i \in 1 .. Len(w) : w[i] = h[Len(h) - Len(w) + i]
          /\ w # <<>> => w[Len(w)] - w[1] <= WindowSize
      BY <2>1 DEF WindowOK
    <3> DEFINE time == clock + 1
    <3>5. \A i \in 1 .. Len(h) - Len(w) : h[i] < time - WindowSize
      BY <3>3
    <3>6. /\ \A i \in 1 .. Len(h) : h[i] <= time
          /\ \A i \in 1 .. Len(h) - Len(w) : h[i] < time - WindowSize
      BY <3>2, <3>5
    <3> HIDE DEF time
    <3>7. WindowOK(w, h, time)
      BY <3>4, <3>6 DEF WindowOK
    <3> QED BY <3>7 DEF time
  <2> QED BY <1>1, <2>2 DEF w, h
<1>3. (\A j \in Kinds, u \in Subjects : WindowOK(windows[j][u], happened[j][u], clock))'
  BY <1>2 DEF WindowOK, Ordered
<1> QED BY <1>1, <1>3 DEF DetectorInv, Types

\* A new detector has empty windows.
LEMMA DetectorInitInv == DetectorInit => DetectorInv
<1> SUFFICES ASSUME DetectorInit PROVE DetectorInv
  OBVIOUS
<1>1. Types
  BY DEF DetectorInit, Types
<1>2. ASSUME NEW k \in Kinds, NEW s \in Subjects
      PROVE  WindowOK(windows[k][s], happened[k][s], clock)
  <2>1. windows[k][s] = <<>> /\ happened[k][s] = <<>> /\ clock = 0
    BY DEF DetectorInit
  <2> QED BY <2>1 DEF WindowOK, Ordered
<1>3. Len(history) = 0 /\ emitted = 0 /\ 0 <= HistoryMax
  BY Sizes DEF DetectorInit
<1> QED BY <1>1, <1>2, <1>3 DEF DetectorInv

\* What a step can be, as far as windows and history are concerned.
LEMMA StepCases ==
  ASSUME [DetectorNext]_detectorVars
  PROVE  \/ \E k \in Kinds, s \in Subjects : RecordOp(k, s)
         \/ DetectorTick
         \/ UNCHANGED <<clock, windows, history, happened, emitted>>
BY DEF DetectorNext, detectorVars, RecordOp, Kinds, RunCallback

\* Every step keeps the invariant.
LEMMA DetectorStepInv == DetectorInv /\ [DetectorNext]_detectorVars => DetectorInv'
<1> SUFFICES ASSUME DetectorInv, [DetectorNext]_detectorVars PROVE DetectorInv'
  OBVIOUS
<1>1. CASE UNCHANGED <<clock, windows, history, happened, emitted>>
  BY <1>1 DEF DetectorInv, Types, WindowOK, Ordered
<1> QED BY <1>1, StepCases, RecordInv, TickInv

\* The invariant holds in every reachable state.
THEOREM DetectorInvHolds == DetectorSpec => []DetectorInv
BY DetectorInitInv, DetectorStepInv, PTL DEF DetectorSpec

\* pruneWindow forgets nothing that is still in the window, however the subjects
\* take turns, and what it keeps too long spans one window at most.
THEOREM Sound == DetectorSpec => []WindowsSound
<1>1. DetectorInv => WindowsSound
  <2> SUFFICES ASSUME DetectorInv, NEW k \in Kinds, NEW s \in Subjects
               PROVE  LET w == windows[k][s]
                      IN /\ IsSuffix(w, happened[k][s])
                         /\ Len(w) >= InWindow(k, s)
                         /\ w # <<>> => Last(w) - Head(w) <= WindowSize
    BY DEF WindowsSound
  <2> DEFINE w == windows[k][s]
             h == happened[k][s]
  <2>1. WindowOK(w, h, clock) /\ clock \in Nat
    BY DEF DetectorInv, Types
  <2>2. Len(w) >= InWindow(k, s)
    <3>1. InWindow(k, s) = Cardinality({i \in DOMAIN h : h[i] >= clock - WindowSize})
      BY DEF InWindow, Within
    <3>2. Len(w) \in Nat
      BY <2>1 DEF WindowOK
    <3> HIDE DEF w, h
    <3> QED BY <2>1, <3>1, <3>2, WithinTail
  <2> HIDE DEF w, h
  <2>3. w # <<>> => Last(w) - Head(w) <= WindowSize
    BY <2>1 DEF WindowOK, Last
  <2>4. IsSuffix(w, h)
    <3>1. /\ Len(w) \in Nat /\ Len(h) \in Nat /\ Len(w) <= Len(h)
          /\ w \in Seq(Nat) /\ h \in Seq(Nat)
      BY <2>1 DEF WindowOK
    <3>2. /\ Reverse(w) \in Seq(Nat) /\ Len(Reverse(w)) = Len(w)
          /\ Reverse(h) \in Seq(Nat) /\ Len(Reverse(h)) = Len(h)
          /\ \A i \in 1 .. Len(w) : Reverse(w)[i] = w[(Len(w) - i) + 1]
          /\ \A i \in 1 .. Len(h) : Reverse(h)[i] = h[(Len(h) - i) + 1]
      BY <3>1, ReverseElements
    <3>3. ASSUME NEW i \in 1 .. Len(w) PROVE Reverse(w)[i] = Reverse(h)[i]
      <4>1. /\ (Len(w) - i) + 1 \in 1 .. Len(w) /\ i \in 1 .. Len(h)
            /\ Len(h) - Len(w) + ((Len(w) - i) + 1) = (Len(h) - i) + 1
        BY <3>1
      <4>2. w[(Len(w) - i) + 1] = h[Len(h) - Len(w) + ((Len(w) - i) + 1)]
        BY <2>1, <4>1 DEF WindowOK
      <4> QED BY <3>2, <4>1, <4>2
    <3>4. SubSeq(Reverse(w), 1, Len(w)) = SubSeq(Reverse(h), 1, Len(w))
      BY <3>1, <3>2, <3>3
    <3> QED BY <3>1, <3>2, <3>4 DEF IsSuffix, IsPrefix
  <2> QED BY <2>2, <2>3, <2>4 DEF w, h
<1> QED BY <1>1, DetectorInvHolds, PTL

\* In the state after a recording the counts of the windows are upper bounds.
LEMMA CountsAfter ==
  ASSUME DetectorInv', NEW s \in Subjects
  PROVE  /\ \A k \in Kinds : /\ Len(windows'[k][s]) \in Nat /\ InWindow(k, s)' \in Nat
                             /\ InWindow(k, s)' <= Len(windows'[k][s])
                             /\ (\A i \in 1 .. Len(windows'[k][s]) :
                                   windows'[k][s][i] >= clock' - WindowSize)
                                  => InWindow(k, s)' = Len(windows'[k][s])
         /\ InWindowOfAll("auth")' <= Cardinality(Entries(windows'["auth"]))
         /\ InWindowOfAll("auth")' \in Nat
<1> DEFINE W == windows'["auth"]
           H == happened'["auth"]
<1>1. /\ clock' \in Nat /\ windows' \in [Kinds -> [Subjects -> Seq(Nat)]]
      /\ happened' \in [Kinds -> [Subjects -> Seq(Nat)]]
  BY DEF DetectorInv, Types
<1>2. \A k \in Kinds, u \in Subjects : WindowOK(windows'[k][u], happened'[k][u], clock')
  BY DEF DetectorInv, WindowOK, Ordered
<1>3. ASSUME NEW k \in Kinds
      PROVE  /\ Len(windows'[k][s]) \in Nat /\ InWindow(k, s)' \in Nat
             /\ InWindow(k, s)' <= Len(windows'[k][s])
             /\ (\A i \in 1 .. Len(windows'[k][s]) :
                   windows'[k][s][i] >= clock' - WindowSize)
                  => InWindow(k, s)' = Len(windows'[k][s])
  <2> DEFINE w == windows'[k][s]
             h == happened'[k][s]
             time == clock'
             n == InWindow(k, s)'
  <2>1. n = Cardinality({i \in DOMAIN h : h[i] >= time - WindowSize})
    BY DEF InWindow, Within
  <2>2. Len(w) \in Nat /\ WindowOK(w, h, time) /\ time \in Nat
    BY <1>1, <1>2
  <2> HIDE DEF w, h, time, n
  <2>3. /\ n \in Nat /\ n <= Len(w)
        /\ (\A i \in 1 .. Len(w) : w[i] >= time - WindowSize) => n = Len(w)
    BY <2>1, <2>2, WithinTail
  <2> QED BY <2>2, <2>3 DEF w, h, time, n
<1>4. InWindowOfAll("auth")'
        = Cardinality(UNION {{u} \X {i \in DOMAIN H[u] : H[u][i] >= clock' - WindowSize} :
                             u \in Subjects})
  BY DEF InWindowOfAll, Within
<1>5. W \in [Subjects -> Seq(Nat)] /\ H \in [Subjects -> Seq(Nat)]
      /\ \A u \in Subjects : WindowOK(W[u], H[u], clock')
  BY <1>1, <1>2 DEF Kinds
<1> HIDE DEF W, H
<1>6. InWindowOfAll("auth")' <= Cardinality(Entries(W)) /\ InWindowOfAll("auth")' \in Nat
  BY <1>1, <1>4, <1>5, AllWithin
<1> QED BY <1>3, <1>6 DEF W

\* The step that records s for k raises the burst it completes, and completes none
\* of another kind or another subject.
LEMMA RecordDetects ==
  ASSUME DetectorInv, NEW k \in Kinds, NEW s \in Subjects, RecordOp(k, s), NEW u \in Subjects
  PROVE  /\ Grew("auth", u) /\ InWindowOfAll("auth")' >= AuthFailThreshold
              => Raised("RAPID_AUTH_FAILURES", u)
         /\ Grew("read", u) => (Raised("RAPID_ENTRY_ACCESS", u)
                                  <=> InWindow("read", u)' >= ReadRateThreshold)
         /\ /\ Grew("ingest", u) \/ Grew("delete", u)
            /\ InWindow("ingest", u)' > 0 /\ InWindow("delete", u)' > 0
            /\ InWindow("ingest", u)' + InWindow("delete", u)' >= ExfilThreshold
            => Raised("POSSIBLE_DATA_EXFIL", u)
<1>1. /\ DetectorInv'
      /\ Met(k, windows', s) => Raised(AnomalyOf(k), s)
      /\ ~ Met(k, windows', s) => emitted' = emitted
  BY RecordInv
<1>2. Note(k, s)
  BY RecordStep
<1>3. /\ clock' = clock
      /\ \A i \in 1 .. Len(windows'[k][s]) : windows'[k][s][i] >= clock' - WindowSize
      /\ \A j \in Kinds, v \in Subjects : Grew(j, v) => j = k /\ v = s
  BY <1>2, Noted DEF Grew
<1>4. \A t : Raised(t, s) => emitted' = emitted + 1
  BY DEF Raised
<1>5. emitted \in Nat /\ emitted + 1 # emitted
  BY DEF DetectorInv, Types
<1>6. ASSUME Grew("auth", u), InWindowOfAll("auth")' >= AuthFailThreshold
      PROVE  Raised("RAPID_AUTH_FAILURES", u)
  <2>1. k = "auth" /\ u = s
    BY <1>3, <1>6 DEF Kinds
  <2>e. Cardinality(Entries(windows'["auth"])) \in Nat
    <3>1. windows'["auth"] \in [Subjects -> Seq(Nat)]
      BY <1>1 DEF DetectorInv, Types, Kinds
    <3> QED BY <3>1, EntriesFinite
  <2>2. /\ InWindowOfAll("auth")' <= Cardinality(Entries(windows'["auth"]))
        /\ InWindowOfAll("auth")' \in Nat /\ Cardinality(Entries(windows'["auth"])) \in Nat
        /\ AuthFailThreshold \in Nat
    BY <1>1, <2>e, CountsAfter, Sizes
  <2>3. Cardinality(Entries(windows'["auth"])) >= AuthFailThreshold
    BY <1>6, <2>2, AtLeast
  <2> QED BY <1>1, <2>1, <2>3 DEF Met, AnomalyOf
<1>7. ASSUME Grew("read", u)
      PROVE  Raised("RAPID_ENTRY_ACCESS", u)
               <=> InWindow("read", u)' >= ReadRateThreshold
  <2>1. k = "read" /\ u = s
    BY <1>3, <1>7 DEF Kinds
  <2>2. InWindow("read", s)' = Len(windows'["read"][s])
    BY <1>1, <1>3, <2>1, CountsAfter
  <2>3. Met(k, windows', s) <=> InWindow("read", s)' >= ReadRateThreshold
    BY <2>1, <2>2 DEF Met
  <2>4. AnomalyOf(k) = "RAPID_ENTRY_ACCESS"
    BY <2>1 DEF AnomalyOf
  <2>5. Raised("RAPID_ENTRY_ACCESS", s) <=> Met(k, windows', s)
    BY <1>1, <1>4, <1>5, <2>4
  <2> QED BY <2>1, <2>3, <2>5
<1>8. ASSUME Grew("ingest", u) \/ Grew("delete", u),
             InWindow("ingest", u)' > 0, InWindow("delete", u)' > 0,
             InWindow("ingest", u)' + InWindow("delete", u)' >= ExfilThreshold
      PROVE  Raised("POSSIBLE_DATA_EXFIL", u)
  <2>1. k \in {"ingest", "delete"} /\ u = s
    BY <1>3, <1>8 DEF Kinds
  <2> DEFINE a == InWindow("ingest", s)'
             b == InWindow("delete", s)'
             c == Len(windows'["ingest"][s])
             d == Len(windows'["delete"][s])
  <2>2. /\ a \in Nat /\ c \in Nat /\ a <= c /\ b \in Nat /\ d \in Nat /\ b <= d
        /\ ExfilThreshold \in Nat
    BY <1>1, CountsAfter, Sizes DEF Kinds
  <2>3. a > 0 /\ b > 0 /\ a + b >= ExfilThreshold
    BY <1>8, <2>1
  <2>4. c + d >= ExfilThreshold /\ c > 0 /\ d > 0
    <3> HIDE DEF a, b, c, d
    <3> QED BY <2>2, <2>3
  <2>5. Met(k, windows', s) /\ AnomalyOf(k) = "POSSIBLE_DATA_EXFIL"
    BY <2>1, <2>4 DEF Met, AnomalyOf
  <2> QED BY <1>1, <2>1, <2>5
<1> QED BY <1>6, <1>7, <1>8

\* The Record method that completes a burst emits the anomaly of its pattern, with
\* its callback and at the front of the history; reads raise it for nothing else.
THEOREM Bursts == DetectorSpec => BurstsDetected
<1>1. ASSUME DetectorInv, [DetectorNext]_detectorVars, NEW u \in Subjects
      PROVE  /\ Grew("auth", u) /\ InWindowOfAll("auth")' >= AuthFailThreshold
                  => Raised("RAPID_AUTH_FAILURES", u)
             /\ Grew("read", u) => (Raised("RAPID_ENTRY_ACCESS", u)
                                      <=> InWindow("read", u)' >= ReadRateThreshold)
             /\ /\ Grew("ingest", u) \/ Grew("delete", u)
                /\ InWindow("ingest", u)' > 0 /\ InWindow("delete", u)' > 0
                /\ InWindow("ingest", u)' + InWindow("delete", u)' >= ExfilThreshold
                => Raised("POSSIBLE_DATA_EXFIL", u)
  <2>1. CASE happened' = happened
    BY <2>1 DEF Grew
  <2>2. ASSUME ~ (happened' = happened)
        PROVE  \E k \in Kinds, s \in Subjects : RecordOp(k, s)
    BY <1>1, <2>2, StepCases DEF DetectorTick
  <2> QED BY <1>1, <2>1, <2>2, RecordDetects
<1>2. DetectorInv /\ [DetectorNext]_detectorVars =>
        [\A s \in Subjects :
           /\ Grew("auth", s) /\ InWindowOfAll("auth")' >= AuthFailThreshold
                => Raised("RAPID_AUTH_FAILURES", s)
           /\ Grew("read", s) => (Raised("RAPID_ENTRY_ACCESS", s)
                                    <=> InWindow("read", s)' >= ReadRateThreshold)
           /\ /\ Grew("ingest", s) \/ Grew("delete", s)
              /\ InWindow("ingest", s)' > 0 /\ InWindow("delete", s)' > 0
              /\ InWindow("ingest", s)' + InWindow("delete", s)' >= ExfilThreshold
              => Raised("POSSIBLE_DATA_EXFIL", s)]_detectorVars
  BY <1>1
<1> QED BY <1>2, DetectorInvHolds, PTL DEF DetectorSpec, BurstsDetected

=============================================================================
