# Grimlocker: TLA+ models, checks and proofs

Grimlocker is a password vault: a Go engine (event bus, session, lockdown, audit
log, key stores, query protocol) and a Rust core (client program, enclave,
wipe). This directory models the parts of it that keep state and are shared by
goroutines, timers or processes. `PROJECT.json` lists the components, the runs,
the source lines behind each definition, the hazards and the theorems.

## Inventory

| Component | State | Operations | Interacts with | What is hard | What makes it correct |
|---|---|---|---|---|---|
| Event bus (`engine/kernel/bus.go`) | handlers, gate, pending reply channels, context | Dispatch, Request, Register, Unregister, Subscribe, OpenGate, CloseGate, Shutdown | every module | three mutexes taken in turn; handlers in goroutines; replies sent after the mutex of their lookup; late and double replies; shutdown under load | deliveries justified by a moment of the call, no reply lost or misdelivered, nothing left pending, every Dispatch returns, requests freed |
| Session (`engine/security/session.go`) | active flag, handle, timer | Unlock, Lock, ResetActivity, SetAutoLockMinutes | bus (AUTH.READY, AUTH.LOGOUT), runtime timer | callback racing Stop, Reset and a new Unlock; events sent outside the mutex | an inactive session is locked while auto-lock is on, each ended session is announced once |
| Lockdown (`engine/security/lockdown.go`) | level, two counters, deadline | State, RecordFailure, RecordSuccess, TriggerHard | unlock flow, OnHard callback | check and record are separate calls; lazy expiry; callback outside the mutex | counters agree with the level, the irreversible level is earned |
| Audit log (`engine/security/audit.go`) | ring, head, size, last hash | Append, Recent, Drain | all security code | wrap-around, timestamps before the mutex | first-in first-out with an unbroken chain |
| Vault client (`core-rust/src/main.rs`, `time_guard.rs`, `wipe.rs`) | the header it read | start, password, override, initialise, wipe | daemon over IPC, clocks, vault file | overlapping processes, death between two steps, clock changes | header stays meaningful; as long as no outdated copy is written, attempts are counted and exhaustion is final |
| Rate limiter (`engine/security/rate_limiter.go`) | attempts and lockout per subject | Check, RecordFailure, RecordSuccess | unlock flow | check and record are separate; tier boundaries | a lockout matches the tier of its failures and is never shortened; guesses are throttled |
| Intrusion detector (`engine/security/intrusion_detector.go`) | windows per subject, history | Record*, History | security events | windows of other subjects go stale; capped history | no burst within a window goes unnoticed |
| ZKP verifier (`engine/security/zkp.go`) | pending challenges and their expiries | IssueChallenge, VerifyProof, PendingCount, cleanup loop | unlock flow | three paths remove a challenge; the expiry is compared outside the mutex | at most one success per challenge, in time; nothing piles up |
| Key stores (`mvk_store.go`, `secret_guard.go`, `memguard.go`) | handles, slots and buffers | Store, Retrieve, Revoke, RevokeAll, Wipe, WipeAll | session, bus modules | a live slice that is zeroed byte by byte under its readers; a Store that panics or that revocations overtake; Unlock errors ignored | no key bytes without an owner, a slice never shows another key, secrets are handed out once |
| Write transaction (`engine/storage/blockstore_v2.go`) | staged writes and deletes | WriteBlock, DeleteBlock, Commit, Rollback | block store | a failing store in the middle of Commit; overlapping commits; death before Flush | what is applied is a prefix of what was staged; a commit that succeeded is durable |
| GQL (`engine/gql`) | none | encode, decode, validate | bus, session | length fields at their limits; cut frames; a session that changes while it is asked | the query accepted is the query sent; it met an unlocked session with a handle, and one that may use its namespace |
| Primitives, bridge, errors, providers, tools | none | - | - | - | not modelled, see below |

## Modules

**Lockdown** models `LockdownManager`. Each method holds the mutex throughout
and is one action; `TriggerHard` is two, since it runs the callback after the
mutex. Callers follow the unlock flow that `provider/interfaces.go` describes:
`State`, then a verification without any lock, then `RecordFailure` or
`RecordSuccess` on whatever the state is by then. `RecordFailure` is split by
level into `FailNone`, `FailSoft` and `FailHard`. `streak`, `triggered` and
`hookRan` are history variables.

**Session** models `SessionContext`. The timer is `nil`, armed with the minutes
left, or stopped. `Fire` hands over to a goroutine that `AutoLock`s later, which
is how a `time.AfterFunc` callback escapes `Stop` and `Reset`. `Unlock` and
`Lock` are their critical sections; `Dispatch` is the event each sends after
releasing the mutex. `guarded` says that auto-lock has been on ever since the
session was unlocked, `cancelled` which fired callbacks were stopped too late;
both are history.

**Bus** models the dispatcher. A call of `Dispatch` runs through `Enter` (hop
count), `LookUpReply` (under `pendingMu`), `SendReply` (the non-blocking send
after it is released), `CheckGate`, `Collect` and `Spawn`, and gates, handlers
and requests change in between. A `Request` enters its channel, dispatches, and
`Await`s an answer, the end of its context or that of the bus. `Shutdown` waits
for the modules to stop, which they need not, or for its own context
(`ShutdownExpires`), which may have no deadline, and only then does `Cancel`
end the bus. `window` records, for each call under way, which gate positions and
handlers it has met, and `signalled` the requests that were sent a reply. What
handlers do is left open: they may reply, pass the event on, and end. **MCBus**
gives it a gated storage module and a subscriber.

**RateLimiter** models the per-subject lockouts, with the same shape of callers
as Lockdown: `Check`, an attempt outside the mutex, then a record. Time is the
time left of each lockout; the four lengths are constants of which only the order
matters. `rounds` counts, as history, the lockouts served since the last success.

**AuditLog** models the ring buffer, with the hash of an entry taken as the
sequence of events chained into it: equal hashes mean equal histories. (The code
concatenates the fields without separators, so that in principle two events hash
alike; no property depends on it.) **BoundedLog** is the abstract first-in
first-out log; `AuditLog!Abstract` is the refinement mapping.

**VaultClient** models client processes that come and go. A client reads the
header once (`Start`), learns whether its guess is right, and writes a whole
header back, so that two of them may overwrite each other. The daemon is not in
the repository: it serves reads and stores writes while the vault file is
intact. `Quit` is any early end, a kill included. Units of time are scaled; the
wall clock can be set to any value, the epoch included, which a header cannot
tell from a time that was never set.
**MCVaultClient** has two interchangeable clients.

**IntrusionDetector** models the sliding windows as sequences of timestamps, one
per kind of operation and subject, and the history of anomalies. Each method
holds the mutex and is one action; callbacks run in goroutines of their own.
Details, severities and the log are left out; the detector has a callback.
`happened` and `emitted` are history variables.

**ZkpVerifier** models challenges with their expiries. `IssueChallenge` and
`VerifyProof` hold the mutex for their map accesses only, so `Publish` and
`Decide` are steps of their own, between which time passes. Proofs are known by
the key and the nonce in them: hashing is injective, and random IDs are new.

**KeyStores** models the MVK store and the secret guard over a heap of buffers
with contents, since the question is which buffers still hold secret bytes. A
`Store` fills its buffer before it takes the mutex, and `PanicMVK` is the panic
of `randomHandle` in between, after which the bus goes on and the buffer has no
owner (`orphaned`). A goroutine that revokes holds the mutex until it is done,
while those with a slice read on: `ZeroizeKey` takes a key through `Torn`, partly
zeroed, to `Zero`, and `Release` unlocks the memory, an error of which the code
ignores (`stuck`), and deletes the handle. Callers keep the promise of
the interface comments: they drop an MVK slice when their frame ends, and zero
the copy that the guard gave them.

**WriteTransaction** models transactions whose `Commit` plays writes, then
deletes, one call of the store at a time, and stops at an error (`Fail`). The
store is external: an index in memory that `Flush` persists, and that `Crash`
sets back. Block contents are known by the operation that wrote them.

**GqlCodec** holds frames and queries as operators over a wire of cells that
wrap at `Radix`; one cell stands for each length or number. **GqlValidator** is a
request on its way: it is encoded with its fields in any order of the map, cut
at any point, decoded and validated in stages, the second of which asks the
session four questions while others lock and unlock it; an unlocked session may
have an empty handle. **MCGqlValidator** lists
the queries: a read and a write with each part taken past its limits.

**MCDefence**, **MCAdmission** and **MCStores** put two components each side by
side for TLC: Lockdown and IntrusionDetector, RateLimiter and GqlValidator,
KeyStores and WriteTransaction.

Definitions named `X_Slip` (`Expired_Early`, `CheckGate_None`, ...) are
plausible mistakes in the code that `X` models. Nothing uses them; replacing `X`
by one must violate the property `PROJECT.json` pairs it with.

## Runs

| Run | Shows | Bounds, and why they suffice |
|---|---|---|
| `defence` (MCDefence) | of the lockdown manager: types; counters agree with the level; reported attempts exact; the hard level earned; soft lockdowns served; the callback runs | default thresholds 3 and 4, three callers so that two can cross a limit together, time for a late lockdown to expire |
| | of the detector: pruning forgets nothing inside the window and keeps nothing older than one window before the newest; a completed burst raises its anomaly, first in a history that loses only its oldest | two subjects, windows of one tick in three, thresholds 2 and 3 and five operations: bursts straddle the edge of a window and overflow a history of two |
| `session` (Session) | types; a session whose auto-lock was never set to 0 has a timer or a callback on its way; one LOGOUT per session; the last event tells the state; inactivity locks such a session | two callers and two callbacks, so a stale callback meets a fresh session; intervals 0 to 2 |
| `bus` (MCBus) | types; deliveries within the call; nothing missed; no pending leak | one requester and one dispatcher, each meeting every change of gate and handlers between its steps; `MaxRunning` bounds handler goroutines when a call begins, `MaxHops` the passing on |
| `bus_requests` (MCBus) | a request's channel holds a reply exactly when one was signalled to that request; every Dispatch returns; once Shutdown has nothing left to wait for, every request is freed | two requests one after the other and a dispatcher that replies to either, twice or late: a request leaves, and the next one comes, between the lookup and the send; a module that may never stop, contexts that may never end |
| `audit_log` (AuditLog) | unbroken chain; Recent is the suffix; refinement of BoundedLog | capacity 3 and 7 events: the ring wraps twice; two writers overtake each other |
| `vault_client` (MCVaultClient) | types; header consistent; while no outdated copy was written, attempts accounted and exhaustion final | limits 2 and 2 and five guesses reach the end; one clock change, one attempt lost with its client |
| `admission` (MCAdmission) | of the rate limiter: guesses throttled although Check and RecordFailure are separate; lockouts match the tier; lockouts never shortened | two callers that pass Check together, two subjects, 22 failures, so that all four tiers are entered |
| | of the validator: the query accepted is the one sent; it met an unlocked session with a handle and, unless one was locked meanwhile, one that may use its namespace | cells wrap at 4 and all limits lie below; up to five fields; every cut of every frame; two session changes |
| `zkp_verifier` (ZkpVerifier) | a challenge is verified at most once, by a proof of the stored key over its own nonce, in time; active challenges are spared; none stays for ever | two challenges whose proofs can be swapped, two calls that replay or overlap, time for both to expire |
| `stores` (MCStores) | of the key stores: no buffer with secret bytes and no locked memory without an owner, but for a panic or a failed Unlock; a slice shows its own key, part of it only while its handle is being revoked, zeros afterwards; a guarded secret is handed out once | two goroutines, two handles, two tokens, two secrets: every pair of operations meets; four buffers |
| | of transactions: what a commit did is a prefix of its plan, in memory and on disk; a commit that returned nil is durable | two transactions over two blocks with up to three operations each, so that one block is touched twice; errors and crashes at every call |

`defence`, `admission` and `stores` check two components each. The two share no
state, so their MC modules let one move only while the other is in its initial
state: the states are those of either component, and none of their products.

`AttemptsAccounted` and `ExhaustionIsFinal` hold only while no client has
written back a header that had changed since it read it (`stale`). That is the
condition under which the counters can be trusted: with two overlapping clients
the code does lose counts and gives used-up overrides back (`OverridesNotReset`
below), and nothing in it prevents the overlap. `HeaderConsistent` asks a lockdown
to name its time only until somebody sets the clock, which may be to 0.
`AnnouncedWhenQuiet` likewise holds only while events were not under way
together; when they are, READY and LOGOUT can reach the bus in either order.
`AutoLockArmed` and `InactivityLocks` say nothing of a session whose interval was
set to 0; what the code then does is under `ZeroDisablesAutoLock` below.

`AcceptedAsSent` is about queries that the wire format can carry
(`Encodable`: at most `MaxFieldsCount` fields, lengths below `Radix`). `Encode`
caps the count and cuts lengths but writes every field in full, so that beyond
these limits a different query may be decoded and accepted; `NewQueryFrame`
checks neither. `PlayedInOrder` is what holds instead of the atomicity that the
`WriteTransaction` interface promises (`write_atomic` below): the
implementation's own comment (104-106) says that blocks written before an error
remain. `AccessJustified` does not say that one session met the whole policy. A
single lock between two questions is enough to have any namespace accepted, since
the user ID then reads as empty (`gql_locked` below), and a lock and an unlock let
the handle of one user and the identity of another be combined.

Deadlock is checked for `session` and `audit_log`. The others may stop: a
process exits or a vault is gone, or a bounded clock or counter has run out.

### Disagreements

Each of these configurations states a sentence of the repository that the code
does not keep, and ends in a violation. The first three are runs of
`PROJECT.json` with findings (`vault_fresh`, `write_atomic`, `gql_locked`); the
others can be run with `tlc -config <cfg> <module>`.

| Configuration | Module, property | The sentence | What the code does |
|---|---|---|---|
| `VaultClientFresh.cfg` | VaultClient, `WipedForManipulation` | main.rs:110 "Vault wiped due to time manipulation" | a new header has seen the clock at 0 (main.rs:317), so the next start wipes it although nobody set a clock |
| `WriteTransactionAtomic.cfg` | WriteTransaction, `StoreUnchangedOnError` | blockstore_v2.go:42 "the store remains unchanged" | Commit stops at the first error with the operations before it applied (blockstore_v2.go:114) |
| `MCGqlValidatorLocked.cfg` | MCGqlValidator, `NamespaceMatches` | validator.go:61, 63 "Session must be unlocked for any operation", "Namespace must match session UserID (RBAC)" | a session locked between two questions has an empty user ID, and validator.go:261 then compares nothing |
| `MCVaultClientReset.cfg` | MCVaultClient, `OverridesNotReset` | docs/code-review-guide.md:287 "decremented from 4, not reset mid-override" | main.rs:198 writes 4 over the count of a lockdown that began after this client read the header |
| `LockdownTimeout.cfg` | Lockdown, `TimeoutWipes` | docs/code-review-guide.md:281 "LOCKDOWN → (timeout 200min) → WIPE" | lockdown.go:136-141 returns to normal operation with fresh counters |
| `SessionZero.cfg` | Session, `ZeroDisablesAutoLock` | session.go:53 "Set to 0 to disable auto-lock entirely." | a running timer runs on, and `Reset(0)` at session.go:66 fires it at once |
| `SessionStale.cfg` | Session, `OldTimerCancelled` | session.go:87 "Cancel any existing timer before creating a new one" | a callback that waits for the mutex survives `Stop` and ends the new session (session.go:94) |
| `MCBusCycle.cfg` | MCBus, `CyclesBroken` | event.go:131 "the bus drops events at 0 to break cycles" | bus.go:186 takes TTL 0 for not set and starts again at the default of 8 |
| `AuditLogPrevHash.cfg` | AuditLog, `PrevHashLinks` | audit.go:35 "Hash of previous entry" | audit.go:74 aliases the array that every later Append overwrites |
| `RateLimiterRemaining.cfg` | RateLimiter, `RemainingToNextTier` | rate_limiter.go:120-121 "how many more failures are allowed before the next lockout tier triggers" | after the fifth failure it reports five more, and the next one locks |

validator.go:64 also says "Must have appropriate role for the operation". The code
asks for a role only when the namespace differs from the user ID, and the
repository does not say which role an operation needs, so there is nothing to
state.

### Fairness

- Lockdown: a goroutine inside `TriggerHard` goes on to the callback.
- Session: time passes, armed timers fire, callbacks and dispatches under way go
  on. Nothing is assumed of users; `InactivityLocks` is about behaviours in which
  they stop.
- Bus: goroutines inside `Dispatch` and `Request` go on, a select takes a branch
  that stays ready, and `Shutdown` cancels once it has nothing to wait for.
  Nothing is assumed of contexts, of `Stop` methods or of handlers. Under a
  context without deadline a `Stop` that blocks, in a `Request` for instance, keeps
  `Shutdown` waiting for ever (bus.go:309); `ShutdownReleases` begins where that
  wait is over.
- ZkpVerifier: time passes and the ticker of the cleanup loop never stops.
  Nothing is assumed of clients.
- The other modules: none, no liveness is claimed.

For Lockdown and Bus this is the progress of runnable goroutines, which the Go
scheduler guarantees; Session and ZkpVerifier also need the clock and the
runtime's timers. Weak fairness suffices.

## Proofs

`DefenceProofs`, `StoresProofs` and `AccessProofs` prove about two components
each, which they extend side by side; the specification names of the second are
its own for that reason (`DetectorInit` to `DetectorSpec`, `TxSpec`,
`RequestSpec`). The other proof modules have one component.

`DefenceProofs` proves about `Lockdown`, for all callers, thresholds,
durations and callbacks that satisfy `ConfigAssumption` (which the defaults of
`NewLockdownManager` enforce):

- `TypeCorrect`: `TypeOK`, so that no counter leaves its range;
- `CountersMatched`: `CountersMatchLevel`;
- `RemainingExact`: `RemainingIsExact`;
- `WipeEarned`: `WipeOnlyWhenEarned`;
- `SoftServed`: the action property `SoftLockdownServed`.

None of the invariants is inductive by itself: that the hard level needs
`Threshold + MaxOverrides` failures depends on the failures used up in a soft
lockdown, which depends on what a reset leaves. `Inv` therefore adds that
outside the hard level the streak is a function of the counters
(`streak = failures` in normal operation, `Threshold + MaxOverrides -
overridesLeft` in a soft lockdown) to `TypeOK`, `CountersMatchLevel` and
`WipeOnlyWhenEarned`. `InitInv` and `StepInv` establish it, one step per action.

About `IntrusionDetector` it proves, for any finite set of subjects, any window
and all thresholds (`DetectorAssumption`):

- `Sound`: `WindowsSound`;
- `Bursts`: the action property `BurstsDetected`.

`DetectorInv` says of every window that it is the tail of what really happened,
in order, that nothing before it is still inside the window, and that it spans
one window at most (`WindowOK`), and bounds the history. A burst is a set of
recorded events while the code counts entries that are left in the windows, those
of other subjects possibly stale; both are cardinalities, and `AllWithin` maps
the one into the other without collisions. Where a window has been cut is the
least place still inside it, which exists because the natural numbers are well
founded.

`RateLimiterProofs` proves about `RateLimiter`, for all subjects, finite sets of
callers and lockout lengths in increasing order (`LimiterAssumption`):

- `TypeCorrect`: `TypeOK`;
- `Throttled`: `GuessesThrottled`, a bound on guesses in terms of lockouts served;
- `TierMatched`: `LockoutMatchesTier`;
- `NotShortened`: the action property `LockoutNeverShortened`.

`GuessesThrottled` is not inductive: it says nothing of how many failures are
counted at the moment a lockout ends. `Inv` adds that while no lockout is running
the failures counted are paid for by the lockouts served (`Paid`), so that the
callers who now pass `Check` together, at most all of them, fit under the bound;
the first of their failures starts the next lockout, and nobody joins them until
it is served. The number in flight is a cardinality, handled by the finite-set
theorems.

`SessionProofs` proves about `Session`, for all finite sets of callers and
callbacks and all intervals (`SessionAssumption`):

- `AlwaysArmed`: `AutoLockArmed`;
- `LogoutOnce`: `OneLogoutPerSession`;
- `TypeCorrect`: `TypeOK`;
- `QuietAgrees`: `AnnouncedWhenQuiet`.

The first two are inductive together with the type of `pc` (`Inv`), relative to the interval
being a number (`IntervalHolds`). `LeavingStep` says how a step of one goroutine
changes the set of those about to send AUTH.LOGOUT, and `EndSessionInv` serves
both `Lock` and the callback.

`TypeOK` needs them both: that the debt of announcements is a natural number is
known only because it is a cardinality. `AnnouncedWhenQuiet` speaks of quiet
moments only; `Agreement` carries it through the others: while no two events have
been under way together, at most one goroutine is dispatching, and the event it
carries, or the last one announced, agrees with the state of the session.

`AuditLogProofs` proves about `AuditLog`, for every capacity of at least one and
any writers (`CapacityAssumption`):

- `TypeCorrect`: `TypeOK`;
- `ChainHolds`: `ChainUnbroken`;
- `RecentHolds`: `RecentIsSuffix`;
- `Implements`: the refinement `ImplementsBoundedLog`.

`ChainUnbroken` relates neighbours, and what a new event is chained to is
`lastHash`, so `Inv` adds that every kept event is covered by it. The rest is
arithmetic modulo the capacity, which the provers do not do unaided: `Wrap`,
`WrapInjective` and `WrapAdd` say what indices wrap to, `AppendRing` that a write
at the head extends the log, or replaces its oldest event when the ring is full.
`Implements` maps `Append` and `Drain` to the steps of the bounded log.

`BusProofs` proves about `Bus`, for any modules, subscribers, requesters,
dispatchers, channels and lifetimes of events (`BusAssumption`; there is at
least one channel):

- `TypeCorrect`: `TypeOK`;
- `Delivered`: `DeliveredWithinCall`; `Missed`: `NothingMissed`;
- `PendingExact`: `NoPendingLeak`; `RepliesKept`: `ReplyKept`.

Dispatch looks at the gate, the subscribers and the handlers in critical sections
of their own. `Witnessed` records, for every place between them, what the
decisions already taken say of the window of the call (`Decided`) and that the
window is up to date (`UpToDate`). For replies, `IdsIssued` and
`RequestsDistinct` keep the identifiers of requests apart, without which one
requester could remove another's channel, and a reply that was looked up before
its request left could be sent to the next. The attempt to prove `TypeOK` showed that the
bound it used to give for the lifetime of a delivered event, below `DefaultTTL`,
holds only when no caller asks for more; it now says below some lifetime that was
asked for.

`VaultClientProofs` proves about `VaultClient`, for every finite set of clients,
all limits and windows and any bound on the clocks (`VaultAssumption`):

- `TypeCorrect`: `TypeOK`; `HeaderHolds`: `HeaderConsistent`;
- `Accounted`: `AttemptsAccounted`;
- `Exhausted`: the action property `ExhaustionIsFinal`.

A client writes a header computed from the copy it read at its start, so the
invariants say too little about what a write will be. `OnCourse` adds what the
copy must have said for the client to stand where it does: below the limit when
it asked for a password, at the limit when it asked for coordinates, overrides
left in both cases. `Written` is what a write keeps, and that without a stale copy
it replaces the header it was computed from; `PendingCount` follows the number
of unreported guesses through the finite-set theorems. `TimesOK`, for
`HeaderConsistent`, says that until the clock is set it is past 0 and so is every
lockdown time.

`StoresProofs` proves about `KeyStores`, for any goroutines, handles, tokens,
buffers and keys (`KeyStoresAssumption`):

- `Residue`: `NoResidue`;
- `SliceRight`: `SliceShowsOwnKey`;
- `TakenRight`: `SecretTakenOnce`.

`Inv` is the ownership discipline behind them: a buffer belongs to one handle,
token or goroutine (`Disjoint`) and holds what was stored, or a rest of it while
its handle is being revoked (`Contents`); one goroutine revokes at a time
(`OneRevoker`); every buffer with secret bytes has an owner (`NothingLost`) or was
left by a panic (`Abandoned`); a slice is its handle's buffer until the handle is
revoked (`Slices`); a secret that was handed out has left its slot (`TakenOnce`);
and locked are the MVK store's buffers and those whose Unlock failed
(`PinnedRight`).

About `WriteTransaction` it proves, for any transactions and blocks
(`TransactionAssumption`: no transaction is called `"nobody"`, the name that
stands for a block nobody has written):

- `InOrder`: `PlayedInOrder`;
- `Durable`: `CommitIsDurable`.

`TxInv` adds to `PlayedInOrder` the types of the state and where each transaction
stands: it has played nothing before `Commit`, its plan is then what it had
staged, and it has played and flushed all of that once committed (`Progress`).
`PlayedInOrder` speaks of the last operation on a block among those played;
`LastInNone` and the lemmas around it say how that changes as one more is played,
and `ShowsOne` splits the property by transaction and block.

`AccessProofs` proves about `ZkpVerifier`, for any finite sets of challenges
and calls, any lifetime and any keys (`ZkpAssumption`):

- `SingleUse`: `VerifiedOnce`;
- `ActiveStays`: `ActiveKept`.

`Inv` adds that the verifier's maps agree, that a challenge which a call has
claimed is gone from them and claimed by no other call (`ClaimedOnce`), and that
the expiry it carries out of its critical section is that challenge's
(`ClaimsRight`), although it compares it with the clock only later.

About `GqlValidator` it proves, for any set of queries, operations and users, any
radix and limits below it (`CodecAssumption`), and any number of changes of the
session (`ValidatorAssumption`; the queries are values of the `GQLQuery` type):

- `Justified`: `AccessJustified`;
- `AsSent`: `AcceptedAsSent`.

For the first, `RequestInv` records at each place of `validateACL` what the
answers so far have established in some session since stage 2 began (`Answered`),
and that a session which is not unlocked has been cleared by `Lock` (`SessionOK`).

For the second, `WireInv` says that the frame on the way is one of those the
sender may have composed (`Frames`), that a frame without its tail does not
decode, and that a query under validation is the one that was sent. It rests on
`RoundTrip`: `DecodeQuery` inverts `Encode` for every query that is `Encodable`
and every order of its fields. That is an induction over the data, which the
library's theorems state for an arbitrary predicate, out of the provers' reach.
`NatSetInduction` is the same principle for a set, derived from the
well-foundedness of the natural numbers, and each induction here is about the set
of numbers up to which a fact holds. `Joins` is the sequence of prefixes of a
flattened sequence; `FlattenIsJoin` and `Reader` show that it solves the recursive
equations of `FlattenSeq` and `deserializeFields`, and that these have no other
solution. `Located` finds each text at the place the lengths before it
say, `SameMap` rebuilds the map from its keys and values, `Layout` is the whole
payload, and `CutIsNoticed` compares a cut frame with its header.

The inductive invariants about Bus, VaultClient, KeyStores, ZkpVerifier,
IntrusionDetector, WriteTransaction and GqlValidator were checked with TLC before
they were proved, on the instances of the runs (`WireInv` without changes of the
session, which it does not mention). The type invariants of RateLimiter and
AuditLog are proved only.

Every safety property of a passing run is proved. Only model-checked are the
liveness properties `HardRunsHook`, `InactivityLocks`, `DispatchReturns`,
`ShutdownReleases` and `NothingPiles`: liveness under fairness is out of the
prover's reach. The disagreements are counterexamples, which TLC shows.

## Not modelled

- Cryptographic primitives, the shredder, the bridge, the C interface's pointer
  conversions, handler decorators, error values and tools keep no state that
  could go wrong between steps.
- The Rust enclave is called with its one mutex held throughout: sequential maps.
- The registry starts modules in the order of their registration, in one loop.
- The unlock flow that `provider/interfaces.go` prescribes has no implementation
  in the repository; only its order of calls is used, for the callers of Lockdown.
  Likewise there is no `BlockStore`, `ReadTransaction` or daemon to model.
- `SanitizeFieldKey`, `isValidOperation` and `secure_wipe_file_contents` have no
  caller. Frame flags are written as none and never read. IPC framing, logging
  and terminal output are left out.

## Plan

1. Done: all modules above, and a theorem for each of their safety properties.
2. Left: the fairness arguments behind the five liveness properties, for a prover
   that handles `ENABLED`; and a run for requests whose caller reuses an ID
   (bus.go:260), should the code come to promise something about them.
