---------------------------- MODULE VaultClient ----------------------------
(***************************************************************************)
(* The command-line client of core-rust/src/main.rs with time_guard.rs and *)
(* wipe.rs: each client process connects to the daemon, reads the vault    *)
(* header, checks the clocks, asks for a password or for coordinates, and  *)
(* writes a whole new header back, computed from the copy it read at its   *)
(* start.  The daemon is not part of the repository: it answers reads and  *)
(* stores writes for as long as the vault file is intact.                  *)
(*                                                                         *)
(* Seconds, minutes and years are scaled to one unit of time each; the     *)
(* order of the windows is kept.  A client may finish within one unit.     *)
(***************************************************************************)
EXTENDS Integers, FiniteSets

CONSTANTS
  Clients,        \* client processes, each started again and again
  MaxFailed,      \* 3, the failed_attempts at which the vault is in lockdown
  MaxOverrides,   \* 4, the override_attempts_left of a fresh header
  LockdownWindow, \* LOCKDOWN_MINUTES
  MaxJump,        \* 86400 * 365, the forward jump check_wallclock tolerates
  StartTime,      \* the wall clock at the beginning
  MaxTime,        \* bound on both clocks
  MaxLost,        \* bound on the attempts whose client dies before reporting
  MaxGuesses,     \* bound on the wrong guesses in a row
  MaxClockSets,   \* bound on how often somebody sets the wall clock
  Vaults          \* what the daemon may hold at the beginning

ASSUME VaultAssumption ==
  /\ IsFiniteSet(Clients)
  /\ MaxFailed \in Nat \ {0} /\ MaxOverrides \in Nat \ {0}
  /\ LockdownWindow \in Nat \ {0} /\ MaxJump \in Nat \ {0}
  /\ StartTime \in Nat \ {0} /\ MaxTime \in Nat
  /\ MaxLost \in Nat /\ MaxGuesses \in Nat
  /\ StartTime <= MaxTime
  /\ MaxClockSets \in Nat
  /\ Vaults \subseteq {"empty", "sealed"}

VARIABLES
  header,       \* the header the daemon holds
  contents,     \* the vault file
  wall,         \* SystemTime::now()
  mono,         \* the monotonic clock
  clockSets,    \* how often the wall clock has been set
  pc,           \* where each client stands
  hdr,          \* the copy of the header each client read
  boot,         \* TimeGuard.boot_instant of each client
  \* History of the run, read by properties only.
  guesses,      \* wrong guesses since the last unlock
  lost,         \* wrong guesses whose client died before it reported them
  stale         \* some client has written back a header that had changed since

clocks == <<wall, mono, clockSets>>
vars == <<header, contents, clocks, pc, hdr, boot, guesses, lost, stale>>

Header == [failed_attempts: 0..MaxFailed, lockdown_timestamp: 0..MaxTime,
           override_attempts_left: 0..MaxOverrides,
           monotonic_boot_ticks: 0..MaxTime, wallclock_last_seen: 0..MaxTime]

Steps == {"off", "password", "override", "init", "initHeader", "unlocked",
          "badPassword", "badOverride", "reread", "wipe", "wiping"}

Elapsed(p) == mono - boot[p]
Serving == contents \in {"empty", "sealed"}

\* A client has learnt that its guess is wrong and has yet to report it.
Pending == {p \in Clients : pc[p] \in {"badPassword", "badOverride"}}

FreshHeader(ticks, seen) ==
  [failed_attempts |-> 0, lockdown_timestamp |-> 0,
   override_attempts_left |-> MaxOverrides,
   monotonic_boot_ticks |-> ticks, wallclock_last_seen |-> seen]

Goto(p, step) == pc' = [pc EXCEPT ![p] = step] /\ UNCHANGED <<hdr, boot>>

\* The process ends, and what it knew is gone.
Exit(p) ==
  /\ pc' = [pc EXCEPT ![p] = "off"]
  /\ hdr' = [hdr EXCEPT ![p] = FreshHeader(0, 0)]
  /\ boot' = [boot EXCEPT ![p] = 0]

-----------------------------------------------------------------------------

Init ==
  /\ header = FreshHeader(0, StartTime)
  /\ contents \in Vaults
  /\ wall = StartTime /\ mono = 0 /\ clockSets = 0
  /\ pc = [p \in Clients |-> "off"]
  /\ hdr = [p \in Clients |-> FreshHeader(0, 0)]
  /\ boot = [p \in Clients |-> 0]
  /\ guesses = 0 /\ lost = 0 /\ stale = FALSE

-----------------------------------------------------------------------------
(* run(): the header is read once, and the clocks are checked against it.  *)

\* check_integrity: check_wallclock and check_monotonic.  The process has just
\* started: its elapsed time is zero.
TimeIntegrity(h) ==
  /\ wall >= h.wallclock_last_seen
  /\ wall - h.wallclock_last_seen <= MaxJump
  /\ 0 >= h.monotonic_boot_ticks

IsLockdownExpired(h) == wall >= h.lockdown_timestamp + LockdownWindow

\* Slip: the client relies on the wipe of the process that used the last override.
WipesAtOnce_NoRecheck(h) ==
  \/ ~TimeIntegrity(h)
  \/ h.failed_attempts >= MaxFailed /\ IsLockdownExpired(h)

\* Whether a client that has read header h goes on to wipe the vault at once.
WipesAtOnce(h) ==
  \/ ~TimeIntegrity(h)
  \/ /\ h.failed_attempts >= MaxFailed
     /\ IsLockdownExpired(h) \/ h.override_attempts_left = 0

\* Slip: the lockdown threshold is off by one.
Prompt_Late(h) == IF h.failed_attempts > MaxFailed THEN "override" ELSE "password"

\* What the client asks for.
Prompt(h) == IF h.failed_attempts >= MaxFailed THEN "override" ELSE "password"

Start(p) ==
  /\ pc[p] = "off" /\ Serving
  /\ hdr' = [hdr EXCEPT ![p] = header]
  /\ boot' = [boot EXCEPT ![p] = mono]
  /\ pc' = [pc EXCEPT ![p] =
               IF WipesAtOnce(header) THEN "wipe" ELSE Prompt(header)]
  /\ UNCHANGED <<header, contents, clocks, guesses, lost, stale>>

-----------------------------------------------------------------------------
(* handle_master_password, handle_lockdown_override, initialize_new_vault  *)

\* A password is typed and the ciphertext fetched: an empty vault is to be
\* initialised, and otherwise the password opens it or not.
EnterPassword(p) ==
  /\ pc[p] = "password" /\ Serving
  /\ \/ /\ contents = "empty"
        /\ Goto(p, "init")
        /\ UNCHANGED guesses
     \/ /\ contents = "sealed"
        /\ Goto(p, "unlocked")
        /\ UNCHANGED guesses
     \/ /\ contents = "sealed"
        /\ Goto(p, "badPassword")
        /\ guesses < MaxGuesses /\ guesses' = guesses + 1
  /\ UNCHANGED <<header, contents, clocks, lost, stale>>

\* Coordinates are typed: they open the vault, do not, or are the panic trigger.
EnterCoordinates(p) ==
  /\ pc[p] = "override"
  /\ \/ Goto(p, "unlocked") /\ contents = "sealed" /\ UNCHANGED guesses
     \/ Goto(p, "badOverride") /\ Serving /\ guesses < MaxGuesses /\ guesses' = guesses + 1
     \/ Goto(p, "wipe") /\ UNCHANGED guesses
  /\ UNCHANGED <<header, contents, clocks, lost, stale>>

\* update_header: the whole header is replaced by one computed from the copy.
UpdateHeader(p, h) ==
  /\ Serving
  /\ header' = h
  /\ stale' = (stale \/ hdr[p] # header)

\* The vault is open: the counters start afresh.
ReportUnlocked(p) ==
  /\ pc[p] = "unlocked"
  /\ UpdateHeader(p, FreshHeader(Elapsed(p), wall))
  /\ guesses' = 0
  /\ Exit(p)
  /\ UNCHANGED <<contents, clocks, lost>>

\* Slip: the lockdown starts one failure late.
FailedHeader_Late(p) ==
  [failed_attempts |-> hdr[p].failed_attempts + 1,
   lockdown_timestamp |-> IF hdr[p].failed_attempts >= MaxFailed
                          THEN wall ELSE hdr[p].lockdown_timestamp,
   override_attempts_left |-> MaxOverrides,
   monotonic_boot_ticks |-> Elapsed(p), wallclock_last_seen |-> wall]

\* Slip: the failure is not counted.
FailedHeader_Uncounted(p) ==
  [hdr[p] EXCEPT !.monotonic_boot_ticks = Elapsed(p), !.wallclock_last_seen = wall]

FailedHeader(p) ==
  [failed_attempts |-> hdr[p].failed_attempts + 1,
   lockdown_timestamp |-> IF hdr[p].failed_attempts + 1 >= MaxFailed
                          THEN wall ELSE hdr[p].lockdown_timestamp,
   override_attempts_left |-> MaxOverrides,
   monotonic_boot_ticks |-> Elapsed(p), wallclock_last_seen |-> wall]

ReportBadPassword(p) ==
  /\ pc[p] = "badPassword"
  /\ UpdateHeader(p, FailedHeader(p))
  /\ Exit(p)
  /\ UNCHANGED <<contents, clocks, guesses, lost>>

\* override_attempts_left.saturating_sub(1)
ReportBadOverride(p) ==
  /\ pc[p] = "badOverride"
  /\ UpdateHeader(p, [hdr[p] EXCEPT
       !.override_attempts_left = IF @ = 0 THEN 0 ELSE @ - 1,
       !.monotonic_boot_ticks = Elapsed(p),
       !.wallclock_last_seen = wall])
  /\ Goto(p, "reread")
  /\ UNCHANGED <<contents, clocks, guesses, lost>>

\* The header is fetched again to see whether that was the last override.
Reread(p) ==
  /\ pc[p] = "reread" /\ Serving
  /\ \/ header.override_attempts_left = 0 /\ Goto(p, "wipe")
     \/ header.override_attempts_left > 0 /\ Exit(p)
  /\ UNCHANGED <<header, contents, clocks, guesses, lost, stale>>

\* initialize_new_vault: first the ciphertext ...
InitCiphertext(p) ==
  /\ pc[p] = "init" /\ Serving
  /\ contents' = "sealed"
  /\ Goto(p, "initHeader")
  /\ UNCHANGED <<header, clocks, guesses, lost, stale>>

\* ... then the header, with both clock fields zero.
InitHeader(p) ==
  /\ pc[p] = "initHeader"
  /\ UpdateHeader(p, FreshHeader(0, 0))
  /\ guesses' = 0
  /\ Exit(p)
  /\ UNCHANGED <<contents, clocks, lost>>

-----------------------------------------------------------------------------
(* secure_wipe: seven passes of noise, then truncate and unlink.           *)

Overwrite(p) ==
  /\ pc[p] = "wipe" /\ contents # "gone"
  /\ contents' = "noise"
  /\ Goto(p, "wiping")
  /\ UNCHANGED <<header, clocks, guesses, lost, stale>>

Unlink(p) ==
  /\ pc[p] = "wiping"
  /\ contents' = "gone"
  /\ Exit(p)
  /\ UNCHANGED <<header, clocks, guesses, lost, stale>>

\* The process ends early: an empty password, malformed coordinates, an I/O or
\* IPC error returned with `?`, or a kill.
Quit(p) ==
  /\ pc[p] # "off"
  /\ p \in Pending => lost < MaxLost
  /\ lost' = IF p \in Pending THEN lost + 1 ELSE lost
  /\ Exit(p)
  /\ UNCHANGED <<header, contents, clocks, guesses, stale>>

\* Both clocks advance together.
Tick ==
  /\ wall < MaxTime /\ mono < MaxTime
  /\ wall' = wall + 1 /\ mono' = mono + 1
  /\ UNCHANGED <<clockSets, header, contents, pc, hdr, boot, guesses, lost, stale>>

\* Somebody sets the wall clock, perhaps to the epoch.
SetClock ==
  /\ clockSets < MaxClockSets
  /\ clockSets' = clockSets + 1
  /\ wall' \in 0..MaxTime
  /\ UNCHANGED <<header, contents, mono, pc, hdr, boot, guesses, lost, stale>>

Next ==
  \/ Tick \/ SetClock
  \/ \E p \in Clients :
       \/ Start(p) \/ EnterPassword(p) \/ EnterCoordinates(p) \/ ReportUnlocked(p)
       \/ ReportBadPassword(p) \/ ReportBadOverride(p) \/ Reread(p)
       \/ InitCiphertext(p) \/ InitHeader(p) \/ Overwrite(p) \/ Unlink(p) \/ Quit(p)

Spec == Init /\ [][Next]_vars

-----------------------------------------------------------------------------

\* Type correctness; in particular failed_attempts, a u8, never passes MaxFailed.
TypeOK ==
  /\ header \in Header
  /\ contents \in {"empty", "sealed", "noise", "gone"}
  /\ wall \in 0..MaxTime /\ mono \in 0..MaxTime /\ clockSets \in 0..MaxClockSets
  /\ pc \in [Clients -> Steps]
  /\ hdr \in [Clients -> Header]
  /\ boot \in [Clients -> 0..MaxTime]
  /\ guesses \in 0..MaxGuesses /\ lost \in 0..MaxLost
  /\ stale \in BOOLEAN

HeaderOK(h) ==
  /\ h.lockdown_timestamp > 0 => h.failed_attempts >= MaxFailed
  /\ h.failed_attempts < MaxFailed => h.override_attempts_left = MaxOverrides

Timed(h) == h.failed_attempts >= MaxFailed => h.lockdown_timestamp > 0

\* Whatever the interleaving of clients, deaths and clock changes, the stored
\* header and every copy of it is one the lockdown logic understands: only a
\* header in lockdown has a lockdown time or has used overrides up, and one in
\* lockdown has a lockdown time, unless somebody set the clock: a lockdown that
\* begins at the epoch looks as if it had no time.
HeaderConsistent ==
  /\ HeaderOK(header) /\ \A p \in Clients : HeaderOK(hdr[p])
  /\ clockSets = 0 => Timed(header) /\ \A p \in Clients : Timed(hdr[p])

\* Every wrong guess is counted in the stored header, is about to be, or was
\* lost with its client, as long as no client wrote back an outdated header.
AttemptsAccounted ==
  ~stale => guesses <= header.failed_attempts
                       + (MaxOverrides - header.override_attempts_left)
                       + Cardinality(Pending) + lost

\* Once the overrides are used up the counters are not reset, even when the
\* client that used the last one dies before it wipes the vault, as long as no
\* client writes back an outdated header.  (OverridesNotReset is about those.)
ExhaustionIsFinal ==
  [][header.override_attempts_left = 0 /\ ~stale' => header' = header]_vars

-----------------------------------------------------------------------------
(* Statements about the program that its code does not keep.               *)

\* docs/code-review-guide.md:287, "`override_attempts_left` decremented from 4,
\* not reset mid-override": in a lockdown the count only rises when a client has
\* opened the vault.  The code writes a constant 4 (main.rs:198), or one less
\* than what the client read at its start (main.rs:282).
OverridesNotReset ==
  [][header.failed_attempts >= MaxFailed
       /\ header'.override_attempts_left > header.override_attempts_left =>
     \E p \in Clients : ReportUnlocked(p)]_vars

\* main.rs:110, "Vault wiped due to time manipulation": no client wipes the
\* vault for a clock anomaly when nobody has set the clock.
WipedForManipulation ==
  [][clockSets = 0 => \A p \in Clients : Start(p) => TimeIntegrity(header)]_vars

=============================================================================
