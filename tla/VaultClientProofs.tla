------------------------- MODULE VaultClientProofs -------------------------
(***************************************************************************)
(* The vault header under any number of overlapping clients, for every     *)
(* size of the counters and the windows.                                   *)
(*                                                                         *)
(* A client writes back a header it computed from the copy of its start,   *)
(* so what a write does to the stored header depends on how the client got *)
(* to where it stands: the inductive invariant records, for every place in *)
(* the program, what its copy of the header must have said (OnCourse).     *)
(***************************************************************************)
EXTENDS VaultClient, FiniteSetTheorems, TLAPS

\* The places at which the client may still come to write the header.
ByPassword == {"password", "init", "initHeader", "badPassword"}
ByOverride == {"override", "badOverride"}
Writing == ByPassword \union ByOverride \union {"unlocked"}

\* What the copy h of the header said of a client that stands at s: it asked
\* for a password outside a lockdown only, for coordinates in one only, and it
\* asked at all only while overrides were left.
OnCourse(s, h) ==
  /\ s \in ByPassword => h.failed_attempts < MaxFailed
  /\ s \in ByOverride => h.failed_attempts >= MaxFailed
  /\ s \in Writing => h.override_attempts_left > 0

\* The clients themselves.
ClientsOK ==
  /\ pc \in [Clients -> Steps] /\ hdr \in [Clients -> Header]
  /\ boot \in [Clients -> 0..MaxTime]
  /\ \A p \in Clients :
       boot[p] <= mono /\ HeaderOK(hdr[p]) /\ OnCourse(pc[p], hdr[p])

\* What they share.
SharedOK ==
  /\ header \in Header /\ HeaderOK(header)
  /\ contents \in {"empty", "sealed", "noise", "gone"}
  /\ wall \in 0..MaxTime /\ mono \in 0..MaxTime /\ clockSets \in 0..MaxClockSets
  /\ guesses \in 0..MaxGuesses /\ lost \in 0..MaxLost
  /\ stale \in BOOLEAN

\* The inductive invariant.
Inv == ClientsOK /\ SharedOK /\ AttemptsAccounted

-----------------------------------------------------------------------------
(* Headers, and where a client may go.                                     *)

\* A fresh header is consistent and has all its overrides left.
LEMMA FreshType ==
  ASSUME NEW ticks \in 0..MaxTime, NEW seen \in 0..MaxTime
  PROVE  /\ FreshHeader(ticks, seen) \in Header
         /\ HeaderOK(FreshHeader(ticks, seen))
         /\ FreshHeader(ticks, seen).failed_attempts = 0
         /\ FreshHeader(ticks, seen).override_attempts_left = MaxOverrides
BY VaultAssumption DEF FreshHeader, Header, HeaderOK

\* A client moves to s with header h: what has to hold of s and h alone.
LEMMA Move ==
  ASSUME ClientsOK, NEW p \in Clients, NEW s \in Steps,
         NEW h \in Header, HeaderOK(h), OnCourse(s, h),
         NEW b \in 0..MaxTime, b <= mono, mono' = mono,
         pc' = [pc EXCEPT ![p] = s], hdr' = [hdr EXCEPT ![p] = h],
         boot' = [boot EXCEPT ![p] = b]
  PROVE  ClientsOK'
<1>1. /\ pc' \in [Clients -> Steps] /\ hdr' \in [Clients -> Header]
      /\ boot' \in [Clients -> 0..MaxTime]
  BY DEF ClientsOK
<1>2. ASSUME NEW q \in Clients
      PROVE  boot'[q] <= mono' /\ HeaderOK(hdr'[q]) /\ OnCourse(pc'[q], hdr'[q])
  <2>1. CASE q = p
    BY <2>1 DEF ClientsOK
  <2>2. CASE q # p
    <3>1. boot'[q] = boot[q] /\ hdr'[q] = hdr[q] /\ pc'[q] = pc[q]
      BY <2>2 DEF ClientsOK
    <3> QED BY <3>1 DEF ClientsOK
  <2> QED BY <2>1, <2>2
<1>3. (\A q \in Clients :
        boot[q] <= mono /\ HeaderOK(hdr[q]) /\ OnCourse(pc[q], hdr[q]))'
  BY <1>2 DEF HeaderOK, OnCourse
<1> QED BY <1>1, <1>3 DEF ClientsOK

\* A client goes to s with the copy of the header it has.
LEMMA GotoOK ==
  ASSUME ClientsOK, NEW p \in Clients, NEW s \in Steps, Goto(p, s),
         OnCourse(s, hdr[p]), mono' = mono
  PROVE  ClientsOK'
<1>1. /\ hdr' = [hdr EXCEPT ![p] = hdr[p]] /\ boot' = [boot EXCEPT ![p] = boot[p]]
      /\ pc' = [pc EXCEPT ![p] = s]
  BY DEF Goto, ClientsOK
<1>2. hdr[p] \in Header /\ HeaderOK(hdr[p]) /\ boot[p] \in 0..MaxTime /\ boot[p] <= mono
  BY DEF ClientsOK
<1> QED BY <1>1, <1>2, Move

\* A client ends.
LEMMA ExitOK ==
  ASSUME ClientsOK, SharedOK, NEW p \in Clients, Exit(p), mono' = mono
  PROVE  ClientsOK'
<1>1. 0 \in 0..MaxTime /\ 0 <= mono /\ "off" \in Steps
  BY VaultAssumption DEF SharedOK, Steps
<1>2. OnCourse("off", FreshHeader(0, 0))
  BY DEF OnCourse, Writing, ByPassword, ByOverride
<1>3. FreshHeader(0, 0) \in Header /\ HeaderOK(FreshHeader(0, 0))
  BY <1>1, FreshType
<1> QED BY <1>1, <1>2, <1>3, Move DEF Exit

\* How the number of unreported guesses follows one client.
LEMMA PendingCount ==
  ASSUME ClientsOK, NEW p \in Clients, NEW s \in Steps, pc' = [pc EXCEPT ![p] = s]
  PROVE  /\ Cardinality(Pending) \in Nat /\ Cardinality(Pending') \in Nat
         /\ p \notin Pending /\ s \notin {"badPassword", "badOverride"} =>
              Cardinality(Pending') = Cardinality(Pending)
         /\ p \in Pending /\ s \notin {"badPassword", "badOverride"} =>
              Cardinality(Pending') = Cardinality(Pending) - 1
         /\ p \notin Pending /\ s \in {"badPassword", "badOverride"} =>
              Cardinality(Pending') = Cardinality(Pending) + 1
<1>1. IsFiniteSet(Pending) /\ IsFiniteSet(Pending')
  <2>1. Pending \subseteq Clients /\ Pending' \subseteq Clients
    BY DEF Pending
  <2> QED BY <2>1, FS_Subset, VaultAssumption
<1>2. Cardinality(Pending) \in Nat /\ Cardinality(Pending') \in Nat
  BY <1>1, FS_CardinalityType
<1>3. CASE p \notin Pending /\ s \notin {"badPassword", "badOverride"}
  <2>1. Pending' = Pending
    BY <1>3 DEF Pending, ClientsOK
  <2> QED BY <1>2, <1>3, <2>1
<1>4. CASE p \in Pending /\ s \notin {"badPassword", "badOverride"}
  <2>1. Pending' = Pending \ {p}
    BY <1>4 DEF Pending, ClientsOK
  <2>2. Cardinality(Pending \ {p}) = Cardinality(Pending) - 1
    BY <1>1, <1>4, FS_RemoveElement
  <2> QED BY <1>2, <1>4, <2>1, <2>2
<1>5. CASE p \notin Pending /\ s \in {"badPassword", "badOverride"}
  <2>1. Pending' = Pending \cup {p}
    BY <1>5 DEF Pending, ClientsOK
  <2>2. Cardinality(Pending \cup {p}) = Cardinality(Pending) + 1
    BY <1>1, <1>5, FS_AddElement
  <2> QED BY <1>2, <1>5, <2>1, <2>2
<1> QED BY <1>2, <1>3, <1>4, <1>5

-----------------------------------------------------------------------------
(* The steps, one after the other.                                         *)

\* What is used of a client before it takes its step.
LEMMA Facts ==
  ASSUME Inv, NEW p \in Clients
  PROVE  /\ ClientsOK /\ SharedOK
         /\ pc[p] \in Steps /\ hdr[p] \in Header /\ HeaderOK(hdr[p])
         /\ OnCourse(pc[p], hdr[p])
         /\ Elapsed(p) \in 0..MaxTime /\ wall \in 0..MaxTime
         /\ MaxTime \in Nat
BY VaultAssumption DEF Inv, ClientsOK, SharedOK, Elapsed

\* The counts that AttemptsAccounted adds up are numbers.
LEMMA Counts ==
  ASSUME SharedOK
  PROVE  /\ header.failed_attempts \in Nat
         /\ header.override_attempts_left \in 0..MaxOverrides
         /\ guesses \in Nat /\ lost \in Nat /\ MaxOverrides \in Nat
BY VaultAssumption DEF SharedOK, Header

\* A step of a client with no guess to report, which reports none, leaves the
\* account as it was.
LEMMA AccountKept ==
  ASSUME Inv, NEW p \in Clients, p \notin Pending,
         NEW s \in Steps, s \notin {"badPassword", "badOverride"},
         pc' = [pc EXCEPT ![p] = s],
         UNCHANGED <<header, guesses, lost, stale>>
  PROVE  AttemptsAccounted'
<1>1. Cardinality(Pending') = Cardinality(Pending)
  BY PendingCount DEF Inv
<1> QED BY <1>1 DEF Inv, AttemptsAccounted

\* A guess is noted as pending when it turns out to be wrong.
LEMMA AccountGuess ==
  ASSUME Inv, NEW p \in Clients, p \notin Pending,
         NEW s \in {"badPassword", "badOverride"},
         pc' = [pc EXCEPT ![p] = s], guesses' = guesses + 1,
         UNCHANGED <<header, lost, stale>>
  PROVE  AttemptsAccounted'
<1>1. /\ Cardinality(Pending') = Cardinality(Pending) + 1
      /\ Cardinality(Pending) \in Nat
  BY PendingCount DEF Inv, Steps
<1> QED BY <1>1, Counts DEF Inv, AttemptsAccounted

LEMMA StepStart ==
  ASSUME Inv, NEW p \in Clients, Start(p)
  PROVE  Inv'
<1> DEFINE s == IF WipesAtOnce(header) THEN "wipe" ELSE Prompt(header)
<1>1. s \in {"wipe", "override", "password"} /\ s \in Steps
  BY DEF Prompt, Steps
<1>2. OnCourse(s, header)
  <2>1. /\ header.failed_attempts \in Nat /\ header.override_attempts_left \in Nat
        /\ HeaderOK(header)
    BY Facts, Counts DEF SharedOK
  <2> QED BY <2>1, VaultAssumption
      DEF OnCourse, Writing, ByPassword, ByOverride, WipesAtOnce, Prompt, HeaderOK
<1>3. header \in Header /\ HeaderOK(header) /\ mono \in 0..MaxTime /\ mono <= mono
  BY DEF Inv, SharedOK
<1>4. pc' = [pc EXCEPT ![p] = s]
  BY DEF Start
<1> HIDE DEF s
<1>5. ClientsOK'
  BY <1>1, <1>2, <1>3, <1>4, Move DEF Inv, Start, clocks
<1>6. SharedOK'
  BY DEF Inv, SharedOK, Start, clocks, HeaderOK
<1>7. AttemptsAccounted'
  <2>1. p \notin Pending
    BY DEF Start, Pending
  <2> QED BY <1>1, <1>4, <2>1, AccountKept DEF Start
<1> QED BY <1>5, <1>6, <1>7 DEF Inv

LEMMA StepEnterPassword ==
  ASSUME Inv, NEW p \in Clients, EnterPassword(p)
  PROVE  Inv'
<1>1. p \notin Pending /\ hdr[p].failed_attempts < MaxFailed
      /\ hdr[p].override_attempts_left > 0
  BY Facts DEF EnterPassword, Pending, OnCourse, ByPassword, Writing
<1>2. ASSUME NEW s \in {"init", "unlocked", "badPassword"}
      PROVE  s \in Steps /\ OnCourse(s, hdr[p])
  BY <1>1, <1>2 DEF OnCourse, ByPassword, ByOverride, Writing, Steps
<1>3. PICK s \in {"init", "unlocked", "badPassword"} :
        /\ Goto(p, s)
        /\ IF s = "badPassword" THEN guesses < MaxGuesses /\ guesses' = guesses + 1
                                ELSE guesses' = guesses
  BY DEF EnterPassword
<1>4. ClientsOK'
  BY <1>2, <1>3, GotoOK DEF Inv, EnterPassword, clocks
<1>5. SharedOK'
  BY <1>3, VaultAssumption DEF Inv, SharedOK, EnterPassword, clocks, HeaderOK
<1>6. AttemptsAccounted'
  <2>1. pc' = [pc EXCEPT ![p] = s] /\ UNCHANGED <<header, lost, stale>>
    BY <1>3 DEF Goto, EnterPassword
  <2>2. CASE s = "badPassword"
    BY <1>1, <1>3, <2>1, <2>2, AccountGuess
  <2>3. CASE s # "badPassword"
    BY <1>1, <1>2, <1>3, <2>1, <2>3, AccountKept
  <2> QED BY <2>2, <2>3
<1> QED BY <1>4, <1>5, <1>6 DEF Inv

LEMMA StepEnterCoordinates ==
  ASSUME Inv, NEW p \in Clients, EnterCoordinates(p)
  PROVE  Inv'
<1>1. p \notin Pending /\ hdr[p].failed_attempts >= MaxFailed
      /\ hdr[p].override_attempts_left > 0
  BY Facts DEF EnterCoordinates, Pending, OnCourse, ByOverride, Writing
<1>2. ASSUME NEW s \in {"unlocked", "badOverride", "wipe"}
      PROVE  s \in Steps /\ OnCourse(s, hdr[p])
  BY <1>1, <1>2 DEF OnCourse, ByPassword, ByOverride, Writing, Steps
<1>3. PICK s \in {"unlocked", "badOverride", "wipe"} :
        /\ Goto(p, s)
        /\ IF s = "badOverride" THEN guesses < MaxGuesses /\ guesses' = guesses + 1
                                ELSE guesses' = guesses
  BY DEF EnterCoordinates
<1>4. ClientsOK'
  BY <1>2, <1>3, GotoOK DEF Inv, EnterCoordinates, clocks
<1>5. SharedOK'
  BY <1>3, VaultAssumption DEF Inv, SharedOK, EnterCoordinates, clocks, HeaderOK
<1>6. AttemptsAccounted'
  <2>1. pc' = [pc EXCEPT ![p] = s] /\ UNCHANGED <<header, lost, stale>>
    BY <1>3 DEF Goto, EnterCoordinates
  <2>2. CASE s = "badOverride"
    BY <1>1, <1>3, <2>1, <2>2, AccountGuess
  <2>3. CASE s # "badOverride"
    BY <1>1, <1>2, <1>3, <2>1, <2>3, AccountKept
  <2> QED BY <2>2, <2>3
<1> QED BY <1>4, <1>5, <1>6 DEF Inv

\* A write of a consistent header h; without a stale copy it replaces the very
\* header it was computed from.
LEMMA Written ==
  ASSUME Inv, NEW p \in Clients, NEW h \in Header, HeaderOK(h), UpdateHeader(p, h),
         UNCHANGED <<contents, clocks, lost>>, guesses' \in {0, guesses}
  PROVE  /\ SharedOK'
         /\ ~stale' => ~stale /\ hdr[p] = header
<1>1. stale' \in BOOLEAN /\ (~stale' => ~stale /\ hdr[p] = header)
  <2>1. stale' = (stale \/ hdr[p] # header)
    BY DEF UpdateHeader
  <2> QED BY <2>1
<1>2. header' \in Header /\ HeaderOK(header)'
  BY DEF UpdateHeader, HeaderOK
<1>3. guesses' \in 0..MaxGuesses
  BY VaultAssumption DEF Inv, SharedOK
<1> QED BY <1>1, <1>2, <1>3 DEF Inv, SharedOK, clocks

\* After a reset of the guesses there is nothing to account for.
LEMMA AccountReset ==
  ASSUME SharedOK', ClientsOK', guesses' = 0
  PROVE  AttemptsAccounted'
<1>1. IsFiniteSet(Pending')
  <2>1. Pending' \subseteq Clients
    BY DEF Pending
  <2> QED BY <2>1, FS_Subset, VaultAssumption
<1>2. Cardinality(Pending') \in Nat
  BY <1>1, FS_CardinalityType
<1>3. /\ header'.failed_attempts \in Nat /\ lost' \in Nat
      /\ MaxOverrides - header'.override_attempts_left \in Nat
  BY VaultAssumption DEF SharedOK, Header
<1> HIDE DEF Pending
<1> QED BY <1>2, <1>3 DEF AttemptsAccounted

LEMMA StepReportUnlocked ==
  ASSUME Inv, NEW p \in Clients, ReportUnlocked(p)
  PROVE  Inv'
<1>1. /\ FreshHeader(Elapsed(p), wall) \in Header
      /\ HeaderOK(FreshHeader(Elapsed(p), wall))
  BY Facts, FreshType
<1>2. ClientsOK'
  BY ExitOK DEF Inv, ReportUnlocked, clocks
<1>3. SharedOK'
  BY <1>1, Written DEF ReportUnlocked
<1>4. AttemptsAccounted'
  BY <1>2, <1>3, AccountReset DEF ReportUnlocked
<1> QED BY <1>2, <1>3, <1>4 DEF Inv

LEMMA StepInitHeader ==
  ASSUME Inv, NEW p \in Clients, InitHeader(p)
  PROVE  Inv'
<1>1. FreshHeader(0, 0) \in Header /\ HeaderOK(FreshHeader(0, 0))
  BY Facts, FreshType
<1>2. ClientsOK'
  BY ExitOK DEF Inv, InitHeader, clocks
<1>3. SharedOK'
  BY <1>1, Written DEF InitHeader
<1>4. AttemptsAccounted'
  BY <1>2, <1>3, AccountReset DEF InitHeader
<1> QED BY <1>2, <1>3, <1>4 DEF Inv

LEMMA StepReportBadPassword ==
  ASSUME Inv, NEW p \in Clients, ReportBadPassword(p)
  PROVE  Inv'
<1> DEFINE h == FailedHeader(p)
<1>1. hdr[p].failed_attempts \in 0..MaxFailed /\ hdr[p].failed_attempts < MaxFailed
      /\ hdr[p].lockdown_timestamp = 0 /\ hdr[p].override_attempts_left = MaxOverrides
  <2>1. hdr[p] \in Header /\ HeaderOK(hdr[p]) /\ hdr[p].failed_attempts < MaxFailed
    BY Facts DEF ReportBadPassword, OnCourse, ByPassword
  <2> QED BY <2>1, VaultAssumption DEF Header, HeaderOK
<1>2. /\ h \in Header /\ HeaderOK(h)
      /\ h.failed_attempts = hdr[p].failed_attempts + 1
      /\ h.override_attempts_left = MaxOverrides
  BY <1>1, Facts, VaultAssumption DEF FailedHeader, Header, HeaderOK
<1> HIDE DEF h
<1>3. ClientsOK'
  BY ExitOK DEF Inv, ReportBadPassword, clocks
<1>4. UpdateHeader(p, h) /\ header' = h
  BY DEF ReportBadPassword, UpdateHeader, h
<1>5. SharedOK' /\ (~stale' => ~stale /\ hdr[p] = header)
  BY <1>2, <1>4, Written DEF ReportBadPassword
<1>6. AttemptsAccounted'
  <2>1. /\ Cardinality(Pending') = Cardinality(Pending) - 1
        /\ Cardinality(Pending) \in Nat
    BY PendingCount DEF Inv, ReportBadPassword, Exit, Pending, Steps
  <2>2. guesses' = guesses /\ lost' = lost
    BY DEF ReportBadPassword
  <2> QED BY <1>1, <1>2, <1>4, <1>5, <2>1, <2>2, Counts DEF Inv, AttemptsAccounted
<1> QED BY <1>3, <1>5, <1>6 DEF Inv

LEMMA StepReportBadOverride ==
  ASSUME Inv, NEW p \in Clients, ReportBadOverride(p)
  PROVE  Inv'
<1> DEFINE h == [hdr[p] EXCEPT
                   !.override_attempts_left = IF @ = 0 THEN 0 ELSE @ - 1,
                   !.monotonic_boot_ticks = Elapsed(p),
                   !.wallclock_last_seen = wall]
<1>1. /\ hdr[p].failed_attempts >= MaxFailed /\ hdr[p].failed_attempts \in 0..MaxFailed
      /\ hdr[p].override_attempts_left > 0
      /\ hdr[p].override_attempts_left \in 0..MaxOverrides
  BY Facts DEF ReportBadOverride, OnCourse, ByOverride, Writing, Header
<1>2. /\ h \in Header
      /\ h.failed_attempts = hdr[p].failed_attempts
      /\ h.lockdown_timestamp = hdr[p].lockdown_timestamp
      /\ h.override_attempts_left = hdr[p].override_attempts_left - 1
  <2>1. hdr[p] \in Header /\ Elapsed(p) \in 0..MaxTime /\ wall \in 0..MaxTime
    BY Facts
  <2>2. hdr[p].override_attempts_left - 1 \in 0..MaxOverrides
    BY <1>1, VaultAssumption
  <2>3. (IF hdr[p].override_attempts_left = 0 THEN 0
         ELSE hdr[p].override_attempts_left - 1) = hdr[p].override_attempts_left - 1
    BY <1>1, VaultAssumption
  <2>4. h = [hdr[p] EXCEPT !.override_attempts_left = hdr[p].override_attempts_left - 1,
               !.monotonic_boot_ticks = Elapsed(p), !.wallclock_last_seen = wall]
    BY <2>3, Zenon
  <2> HIDE DEF h
  <2> QED BY <2>1, <2>2, <2>4 DEF Header
<1>3. UpdateHeader(p, h) /\ header' = h
  BY DEF ReportBadOverride, UpdateHeader
<1> HIDE DEF h
<1>4. HeaderOK(h)
  BY <1>1, <1>2, Facts, VaultAssumption DEF HeaderOK
<1>5. ClientsOK'
  <2>1. "reread" \in Steps /\ OnCourse("reread", hdr[p])
    BY DEF Steps, OnCourse, Writing, ByPassword, ByOverride
  <2> QED BY <2>1, GotoOK DEF Inv, ReportBadOverride, clocks
<1>6. SharedOK' /\ (~stale' => ~stale /\ hdr[p] = header)
  BY <1>2, <1>3, <1>4, Written DEF ReportBadOverride
<1>7. AttemptsAccounted'
  <2>1. /\ Cardinality(Pending') = Cardinality(Pending) - 1
        /\ Cardinality(Pending) \in Nat
    BY PendingCount DEF Inv, ReportBadOverride, Goto, Pending, Steps
  <2>2. guesses' = guesses /\ lost' = lost
    BY DEF ReportBadOverride
  <2> QED BY <1>1, <1>2, <1>3, <1>6, <2>1, <2>2, Counts DEF Inv, AttemptsAccounted
<1> QED BY <1>5, <1>6, <1>7 DEF Inv

\* The steps that neither guess nor write the header: the client goes to s.
LEMMA StepAside ==
  ASSUME Inv, NEW p \in Clients, p \notin Pending,
         NEW s \in Steps \ {"badPassword", "badOverride"}, OnCourse(s, hdr[p]),
         Goto(p, s) \/ Exit(p),
         contents' \in {"empty", "sealed", "noise", "gone"},
         UNCHANGED <<header, clocks, guesses, lost, stale>>
  PROVE  Inv'
<1>1. ClientsOK'
  BY GotoOK, ExitOK DEF Inv, clocks
<1>2. SharedOK'
  BY DEF Inv, SharedOK, clocks, HeaderOK
<1>3. AttemptsAccounted'
  <2>1. "off" \in Steps \ {"badPassword", "badOverride"}
    BY DEF Steps
  <2>2. \E t \in Steps \ {"badPassword", "badOverride"} : pc' = [pc EXCEPT ![p] = t]
    BY <2>1 DEF Goto, Exit
  <2> QED BY <2>2, AccountKept
<1> QED BY <1>1, <1>2, <1>3 DEF Inv

LEMMA StepOthers ==
  ASSUME Inv, NEW p \in Clients,
         Reread(p) \/ InitCiphertext(p) \/ Overwrite(p) \/ Unlink(p)
  PROVE  Inv'
<1> USE DEF Pending, OnCourse, Writing, ByPassword, ByOverride, Steps
<1>1. contents \in {"empty", "sealed", "noise", "gone"}
  BY DEF Inv, SharedOK
<1>2. CASE Reread(p)
  BY <1>1, <1>2, StepAside DEF Reread
<1>3. CASE InitCiphertext(p)
  <2>1. OnCourse("initHeader", hdr[p])
    BY <1>3, Facts DEF InitCiphertext
  <2> QED BY <1>3, <2>1, StepAside DEF InitCiphertext
<1>4. CASE Overwrite(p)
  BY <1>4, StepAside DEF Overwrite
<1>5. CASE Unlink(p)
  BY <1>5, StepAside DEF Unlink
<1> QED BY <1>2, <1>3, <1>4, <1>5

LEMMA StepQuit ==
  ASSUME Inv, NEW p \in Clients, Quit(p)
  PROVE  Inv'
<1>1. ClientsOK'
  BY ExitOK DEF Inv, Quit, clocks
<1>2. lost' \in 0..MaxLost
  BY VaultAssumption DEF Inv, SharedOK, Quit
<1>3. SharedOK'
  BY <1>2 DEF Inv, SharedOK, Quit, clocks, HeaderOK
<1>4. AttemptsAccounted'
  <2>1. pc' = [pc EXCEPT ![p] = "off"] /\ "off" \in Steps
    BY DEF Quit, Exit, Steps
  <2>2. CASE p \in Pending
    <3>1. /\ Cardinality(Pending') = Cardinality(Pending) - 1
          /\ Cardinality(Pending) \in Nat
      BY <2>1, <2>2, PendingCount DEF Inv
    <3> QED BY <2>2, <3>1, Counts DEF Inv, AttemptsAccounted, Quit
  <2>3. CASE p \notin Pending
    BY <2>1, <2>3, AccountKept DEF Quit
  <2> QED BY <2>2, <2>3
<1> QED BY <1>1, <1>3, <1>4 DEF Inv

\* Time passes, or somebody sets the clock.
LEMMA StepClock ==
  ASSUME Inv, Tick \/ SetClock
  PROVE  Inv'
<1>1. /\ mono' \in 0..MaxTime /\ mono' >= mono
      /\ wall' \in 0..MaxTime /\ clockSets' \in 0..MaxClockSets
  BY VaultAssumption DEF Inv, SharedOK, Tick, SetClock
<1>2. UNCHANGED <<header, contents, pc, hdr, boot, guesses, lost, stale>>
  BY DEF Tick, SetClock
<1>3. ClientsOK'
  <2>1. ASSUME NEW p \in Clients PROVE boot[p] <= mono'
    BY <1>1 DEF Inv, ClientsOK, SharedOK
  <2> QED BY <1>2, <2>1 DEF Inv, ClientsOK, HeaderOK, OnCourse
<1>4. SharedOK'
  BY <1>1, <1>2 DEF Inv, SharedOK, HeaderOK
<1>5. AttemptsAccounted'
  BY <1>2 DEF Inv, AttemptsAccounted, Pending
<1> QED BY <1>3, <1>4, <1>5 DEF Inv

-----------------------------------------------------------------------------

\* The invariant is inductive.
THEOREM InvHolds == Spec => []Inv
<1>1. Init => Inv
  <2> SUFFICES ASSUME Init PROVE Inv
    OBVIOUS
  <2>1. /\ 0 \in 0..MaxTime /\ StartTime \in 1..MaxTime /\ StartTime \in 0..MaxTime
        /\ 0 \in 0..MaxClockSets /\ 0 \in 0..MaxGuesses /\ 0 \in 0..MaxLost
    BY VaultAssumption
  <2>2. ClientsOK
    <3>1. FreshHeader(0, 0) \in Header /\ HeaderOK(FreshHeader(0, 0))
      BY <2>1, FreshType
    <3>2. OnCourse("off", FreshHeader(0, 0)) /\ "off" \in Steps
      BY DEF OnCourse, Writing, ByPassword, ByOverride, Steps
    <3> QED BY <2>1, <3>1, <3>2 DEF Init, ClientsOK
  <2>3. SharedOK
    <3>1. FreshHeader(0, StartTime) \in Header /\ HeaderOK(FreshHeader(0, StartTime))
      BY <2>1, FreshType
    <3> QED BY <2>1, <3>1, VaultAssumption DEF Init, SharedOK
  <2>4. AttemptsAccounted
    <3>1. Pending = {}
      BY DEF Init, Pending
    <3>2. Cardinality(Pending) = 0
      BY <3>1, FS_EmptySet
    <3>3. guesses = 0 /\ lost = 0
      BY DEF Init
    <3> QED BY <2>3, <3>2, <3>3, Counts DEF AttemptsAccounted
  <2> QED BY <2>2, <2>3, <2>4 DEF Inv
<1>2. Inv /\ [Next]_vars => Inv'
  <2> SUFFICES ASSUME Inv, [Next]_vars PROVE Inv'
    OBVIOUS
  <2>1. CASE Tick \/ SetClock
    BY <2>1, StepClock
  <2>2. ASSUME NEW p \in Clients,
               \/ Start(p) \/ EnterPassword(p) \/ EnterCoordinates(p)
               \/ ReportUnlocked(p) \/ ReportBadPassword(p) \/ ReportBadOverride(p)
               \/ Reread(p) \/ InitCiphertext(p) \/ InitHeader(p) \/ Overwrite(p)
               \/ Unlink(p) \/ Quit(p)
        PROVE  Inv'
    BY <2>2, StepStart, StepEnterPassword, StepEnterCoordinates, StepReportUnlocked,
       StepReportBadPassword, StepReportBadOverride, StepInitHeader, StepOthers, StepQuit
  <2>3. CASE UNCHANGED vars
    BY <2>3 DEF vars, clocks, Inv, ClientsOK, SharedOK, AttemptsAccounted, Pending,
                HeaderOK, OnCourse
  <2> QED BY <2>1, <2>2, <2>3 DEF Next
<1> QED BY <1>1, <1>2, PTL DEF Spec

\* Type correctness; in particular failed_attempts, a u8 in the header, never
\* passes MaxFailed, and no client's elapsed time is negative.
THEOREM TypeCorrect == Spec => []TypeOK
<1>1. Inv => TypeOK
  BY VaultAssumption DEF Inv, ClientsOK, SharedOK, TypeOK
<1> QED BY <1>1, InvHolds, PTL

\* While nobody sets it, the clock is past the epoch, and so is every lockdown.
TimesOK ==
  clockSets = 0 => wall > 0 /\ Timed(header) /\ \A p \in Clients : Timed(hdr[p])

\* A header that was just written, and the copies, have a time if in lockdown.
LEMMA TimesKept ==
  ASSUME Inv, TimesOK, Next
  PROVE  TimesOK'
<1> SUFFICES ASSUME clockSets' = 0
             PROVE  wall' > 0 /\ Timed(header') /\ \A p \in Clients : Timed(hdr'[p])
  BY DEF TimesOK, Timed
<1>1. clockSets = 0 /\ wall' >= wall /\ wall \in Nat /\ wall' \in Nat
  <2>1. wall \in Nat /\ clockSets \in Nat
    BY VaultAssumption DEF Inv, SharedOK
  <2>2. CASE Tick
    BY <2>1, <2>2 DEF Tick
  <2>3. CASE SetClock
    BY <2>1, <2>3 DEF SetClock
  <2>4. CASE UNCHANGED clocks
    BY <2>1, <2>4 DEF clocks
  <2> QED BY <2>2, <2>3, <2>4 DEF Next, Start, EnterPassword,
       EnterCoordinates, ReportUnlocked, ReportBadPassword, ReportBadOverride, Reread,
       InitCiphertext, InitHeader, Overwrite, Unlink, Quit
<1>2. wall > 0 /\ Timed(header) /\ \A p \in Clients : Timed(hdr[p])
  BY <1>1 DEF TimesOK
<1>3. \A ticks, seen : Timed(FreshHeader(ticks, seen))
  BY VaultAssumption DEF Timed, FreshHeader
<1>4. CASE Tick \/ SetClock
  BY <1>1, <1>2, <1>4 DEF Tick, SetClock
<1>5. ASSUME NEW p \in Clients,
             \/ Start(p) \/ EnterPassword(p) \/ EnterCoordinates(p)
             \/ ReportUnlocked(p) \/ ReportBadPassword(p) \/ ReportBadOverride(p)
             \/ Reread(p) \/ InitCiphertext(p) \/ InitHeader(p) \/ Overwrite(p)
             \/ Unlink(p) \/ Quit(p)
      PROVE  Timed(header') /\ \A q \in Clients : Timed(hdr'[q])
  <2>1. hdr \in [Clients -> Header] /\ header \in Header /\ hdr[p] \in Header
    BY DEF Inv, ClientsOK, SharedOK
  <2>2. \/ hdr' = hdr
        \/ hdr' = [hdr EXCEPT ![p] = header]
        \/ hdr' = [hdr EXCEPT ![p] = FreshHeader(0, 0)]
    BY <1>5 DEF Start, EnterPassword, EnterCoordinates, ReportUnlocked, ReportBadPassword,
         ReportBadOverride, Reread, InitCiphertext, InitHeader, Overwrite, Unlink, Quit,
         Goto, Exit
  <2>3. \A q \in Clients : Timed(hdr'[q])
    BY <1>2, <1>3, <2>1, <2>2
  <2>4. CASE header' = header
    BY <1>2, <2>3, <2>4
  <2>5. CASE ReportUnlocked(p) \/ InitHeader(p)
    BY <1>3, <2>3, <2>5 DEF ReportUnlocked, InitHeader, UpdateHeader
  <2>6. CASE ReportBadPassword(p)
    <3>1. header' = FailedHeader(p)
      BY <2>6 DEF ReportBadPassword, UpdateHeader
    <3>2. Timed(FailedHeader(p))
      BY <1>2 DEF FailedHeader, Timed
    <3> QED BY <2>3, <3>1, <3>2
  <2>7. CASE ReportBadOverride(p)
    <3>1. /\ header'.failed_attempts = hdr[p].failed_attempts
          /\ header'.lockdown_timestamp = hdr[p].lockdown_timestamp
      BY <2>1, <2>7 DEF ReportBadOverride, UpdateHeader, Header
    <3> QED BY <1>2, <2>3, <3>1 DEF Timed
  <2> QED BY <1>5, <2>4, <2>5, <2>6, <2>7 DEF Start, EnterPassword, EnterCoordinates,
        Reread, InitCiphertext, Overwrite, Unlink, Quit
<1>6. ASSUME NEW p \in Clients,
             \/ Start(p) \/ EnterPassword(p) \/ EnterCoordinates(p)
             \/ ReportUnlocked(p) \/ ReportBadPassword(p) \/ ReportBadOverride(p)
             \/ Reread(p) \/ InitCiphertext(p) \/ InitHeader(p) \/ Overwrite(p)
             \/ Unlink(p) \/ Quit(p)
      PROVE  wall' > 0 /\ Timed(header') /\ \A q \in Clients : Timed(hdr'[q])
  BY <1>1, <1>2, <1>5, <1>6
<1> QED BY <1>4, <1>6 DEF Next

\* However many clients overlap, die or race a change of the clock, only a
\* header in lockdown names a lockdown time or has used overrides up, in the
\* daemon and in every copy; and until somebody sets the clock, one in lockdown
\* names its time.
THEOREM HeaderHolds == Spec => []HeaderConsistent
<1>1. Init => TimesOK
  BY VaultAssumption DEF Init, TimesOK, Timed, FreshHeader
<1>2. Inv /\ TimesOK /\ [Next]_vars => TimesOK'
  <2>1. ASSUME TimesOK, UNCHANGED vars PROVE TimesOK'
    BY <2>1 DEF vars, clocks, TimesOK, Timed
  <2> QED BY <2>1, TimesKept
<1>3. Inv /\ TimesOK => HeaderConsistent
  BY DEF Inv, ClientsOK, SharedOK, TimesOK, HeaderConsistent
<1> QED BY <1>1, <1>2, <1>3, InvHolds, PTL DEF Spec

\* No wrong guess escapes the counters of the header as long as no client wrote
\* back an outdated copy: it is counted, on its way, or died with its client.
THEOREM Accounted == Spec => []AttemptsAccounted
<1>1. Inv => AttemptsAccounted
  BY DEF Inv
<1> QED BY <1>1, InvHolds, PTL

\* Once the overrides are used up no client with a current copy of the header
\* changes it any more: run() sends such a client to the wipe.
THEOREM Exhausted == Spec => ExhaustionIsFinal
<1> DEFINE Final == header.override_attempts_left = 0 /\ ~stale' => header' = header
<1>1. Inv /\ [Next]_vars => [Final]_vars
  <2> SUFFICES ASSUME Inv, [Next]_vars, header.override_attempts_left = 0, ~stale'
               PROVE  header' = header
    BY DEF Final
  <2>1. ASSUME NEW p \in Clients, NEW h, UpdateHeader(p, h), pc[p] \in Writing
        PROVE  FALSE
    <3>1. hdr[p] = header
      BY <2>1 DEF UpdateHeader
    <3>2. hdr[p].override_attempts_left > 0
      BY <2>1, Facts DEF OnCourse
    <3> QED BY <3>1, <3>2
  <2>2. ASSUME NEW p \in Clients,
               \/ ReportUnlocked(p) \/ ReportBadPassword(p)
               \/ ReportBadOverride(p) \/ InitHeader(p)
        PROVE  FALSE
    BY <2>1, <2>2 DEF ReportUnlocked, ReportBadPassword, ReportBadOverride, InitHeader,
                      Writing, ByPassword, ByOverride
  <2>3. CASE UNCHANGED header
    BY <2>3
  <2> QED BY <2>2, <2>3 DEF Next, Tick, SetClock, Start, EnterPassword, EnterCoordinates,
        Reread, InitCiphertext, Overwrite, Unlink, Quit, vars
<1>2. Spec => [][Final]_vars
  BY <1>1, InvHolds, PTL DEF Spec
<1> QED BY <1>2 DEF ExhaustionIsFinal

=============================================================================
