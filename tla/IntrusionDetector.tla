------------------------- MODULE IntrusionDetector -------------------------
(***************************************************************************)
(* IntrusionDetector of engine/security/intrusion_detector.go: sliding     *)
(* windows of timestamps per kind of operation and subject, the thresholds *)
(* that turn them into anomalies, and the capped history of anomalies.     *)
(* Every method holds d.mu from its first to its last line and is one      *)
(* action; the callback runs in a goroutine of its own.  A window is       *)
(* pruned only when its own subject is recorded again.                     *)
(***************************************************************************)
EXTENDS Integers, Sequences, FiniteSets, FiniteSetsExt, SequencesExt

CONSTANTS
  Subjects,
  WindowSize,         \* d.windowSize, in ticks
  AuthFailThreshold, ReadRateThreshold, ExfilThreshold,
  HistoryMax,         \* d.historyMax
  MaxClock,           \* bounds the clock
  MaxEvents           \* bounds the operations recorded

ASSUME DetectorAssumption ==
  /\ IsFiniteSet(Subjects)
  /\ {WindowSize, AuthFailThreshold, ReadRateThreshold, ExfilThreshold,
      HistoryMax} \subseteq Nat \ {0}
  /\ {MaxClock, MaxEvents} \subseteq Nat

VARIABLES
  clock,
  windows,     \* d.authFailures, d.entryReads, d.ingestOps and d.deleteOps
  history,     \* d.history
  callbacks,   \* anomalies whose callback goroutine has not run yet
  \* History of the run, read by properties only.
  happened,    \* every timestamp ever recorded
  emitted      \* how many anomalies were emitted

detectorVars == <<clock, windows, history, callbacks, happened, emitted>>

Kinds == {"auth", "read", "ingest", "delete"}
-----------------------------------------------------------------------------

\* NewIntrusionDetector
DetectorInit ==
  /\ clock = 0
  /\ windows = [k \in Kinds |-> [s \in Subjects |-> <<>>]]
  /\ history = <<>> /\ callbacks = {}
  /\ happened = windows /\ emitted = 0

\* Slip: the entry that is exactly windowSize old is pruned too.
pruneWindow_Early(ts) ==
  LET kept == {i \in DOMAIN ts : ts[i] > clock - WindowSize}
  IN IF kept = {} THEN <<>> ELSE SubSeq(ts, Min(kept), Len(ts))

\* The leading timestamps before the cutoff are dropped.
pruneWindow(ts) ==
  LET kept == {i \in DOMAIN ts : ts[i] >= clock - WindowSize}
  IN IF kept = {} THEN <<>> ELSE SubSeq(ts, Min(kept), Len(ts))

\* The oldest anomaly makes room for the new one.
Remember(h, ev) ==
  Append(IF Len(h) >= HistoryMax THEN Tail(h) ELSE h, ev)

\* The window of s after it has been pruned and extended.
Recorded(k, s) == [windows EXCEPT ![k][s] = Append(pruneWindow(@), clock)]

\* All entries of all subjects, as pairs of a subject and an index.
Entries(f) == UNION {{u} \X DOMAIN f[u] : u \in Subjects}

\* What every Record method does first.
Note(k, s) ==
  /\ Cardinality(UNION {{x} \X Entries(happened[x]) : x \in Kinds}) < MaxEvents
  /\ windows' = Recorded(k, s)
  /\ happened' = [happened EXCEPT ![k][s] = Append(@, clock)]
  /\ UNCHANGED clock

\* emit, called only when the pattern is met, in a detector with a callback.
emit(met, type, s, n) ==
  IF met
  THEN /\ history' = Remember(history,
                             [type |-> type, subject |-> s, count |-> n])
       /\ emitted' = emitted + 1
       /\ callbacks' = callbacks \cup {emitted'}
  ELSE UNCHANGED <<history, emitted, callbacks>>

\* Slip: the failures of this subject alone are held against the threshold.
AuthTotal_Own(w, s) == Len(w["auth"][s])

\* All failures of all subjects, whether or not their windows are pruned.
AuthTotal(w, s) == Cardinality(Entries(w["auth"]))

RecordAuthFailure(s) ==
  LET total == AuthTotal(Recorded("auth", s), s)
  IN /\ Note("auth", s)
     /\ emit(total >= AuthFailThreshold, "RAPID_AUTH_FAILURES", s, total)

RecordEntryRead(s) ==
  LET count == Len(Recorded("read", s)["read"][s])
  IN /\ Note("read", s)
     /\ emit(count >= ReadRateThreshold, "RAPID_ENTRY_ACCESS", s, count)

checkExfilPattern(w, s) ==
  LET ingests == Len(w["ingest"][s])
      deletes == Len(w["delete"][s])
  IN emit(ingests + deletes >= ExfilThreshold /\ ingests > 0 /\ deletes > 0,
          "POSSIBLE_DATA_EXFIL", s, ingests + deletes)

RecordIngestOp(s) ==
  Note("ingest", s) /\ checkExfilPattern(Recorded("ingest", s), s)

RecordDeleteOp(s) ==
  Note("delete", s) /\ checkExfilPattern(Recorded("delete", s), s)

\* History: newest first.
History == Reverse(history)

\* go d.onAnomaly(ev): the goroutines run in any order.
RunCallback(n) ==
  /\ n \in callbacks
  /\ callbacks' = callbacks \ {n}
  /\ UNCHANGED <<clock, windows, history, happened, emitted>>

DetectorTick ==
  /\ clock < MaxClock /\ clock' = clock + 1
  /\ UNCHANGED <<windows, history, callbacks, happened, emitted>>

DetectorNext ==
  \/ \E s \in Subjects : \/ RecordAuthFailure(s)
                         \/ RecordEntryRead(s)
                         \/ RecordIngestOp(s)
                         \/ RecordDeleteOp(s)
  \/ \E n \in callbacks : RunCallback(n)
  \/ DetectorTick

DetectorSpec == DetectorInit /\ [][DetectorNext]_detectorVars

-----------------------------------------------------------------------------

\* What really happened in the window that ends now.
Within(k, s) == {i \in DOMAIN happened[k][s] : happened[k][s][i] >= clock - WindowSize}
InWindow(k, s) == Cardinality(Within(k, s))
InWindowOfAll(k) == Cardinality(UNION {{u} \X Within(k, u) : u \in Subjects})

\* Pruning forgets nothing that is still in the window, however the subjects
\* take turns: each slice is a suffix of what was recorded that reaches back at
\* least to the cutoff.  What it may keep too long is bounded by the subject's
\* own burst: its oldest entry is at most one window before its newest.
WindowsSound ==
  \A k \in Kinds, s \in Subjects :
    LET w == windows[k][s]
    IN /\ IsSuffix(w, happened[k][s])
       /\ Len(w) >= InWindow(k, s)
       /\ w # <<>> => Last(w) - Head(w) <= WindowSize

Grew(k, s) == happened'[k][s] # happened[k][s]
Raised(type, s) ==
  /\ emitted' = emitted + 1 /\ emitted' \in callbacks'
  /\ History'[1].type = type /\ History'[1].subject = s
  /\ Len(history') = Min({HistoryMax, emitted'})
  /\ IsPrefix(Tail(History'), History)

\* The recording that completes a burst raises the anomaly of its pattern: no
\* burst inside one window goes unnoticed, and the anomaly has its callback and
\* comes first in a History that loses none but its oldest entry.  For reads,
\* whose window is pruned by the reading subject itself, the anomaly is raised
\* for nothing else.
BurstsDetected ==
  [][\A s \in Subjects :
       /\ Grew("auth", s) /\ InWindowOfAll("auth")' >= AuthFailThreshold
            => Raised("RAPID_AUTH_FAILURES", s)
       /\ Grew("read", s) => (Raised("RAPID_ENTRY_ACCESS", s)
                                <=> InWindow("read", s)' >= ReadRateThreshold)
       /\ /\ Grew("ingest", s) \/ Grew("delete", s)
          /\ InWindow("ingest", s)' > 0 /\ InWindow("delete", s)' > 0
          /\ InWindow("ingest", s)' + InWindow("delete", s)' >= ExfilThreshold
          => Raised("POSSIBLE_DATA_EXFIL", s)]_detectorVars

=============================================================================
