----------------------------- MODULE KeyStores -----------------------------
(***************************************************************************)
(* The two stores of secrets in engine/security: lockedMVKStore            *)
(* (mvk_store.go), which hands out the locked buffer itself, and           *)
(* SecretGuard (secret_guard.go), which hands out a copy once.  What       *)
(* matters is which buffers still hold secret bytes, so buffers are        *)
(* modelled apart from the maps that lead to them.  A Store fills its      *)
(* buffer before it takes the mutex: removals may fall between the two.    *)
(* Revoke and RevokeAll hold the mutex of the MVK store, but a slice that   *)
(* was handed out is read without it, while it is zeroed byte by byte.     *)
(***************************************************************************)
EXTENDS Integers, FiniteSets, Functions

CONSTANTS
  Goroutines,
  Handles,    \* handles of the MVK store
  Tokens,     \* tokens of the secret guard
  Keys,       \* secrets
  Buffers,    \* memory; bounds how many buffers are ever allocated
  Fresh,      \* content of a buffer that is not allocated yet
  Torn,       \* content of a buffer some bytes of which are zeroed
  Zero        \* content of a buffer after zeroize

ASSUME KeyStoresAssumption ==
  /\ {Fresh, Torn, Zero} \cap Keys = {}
  /\ Fresh # Torn /\ Fresh # Zero /\ Torn # Zero
  /\ Handles \cap Tokens = {}

VARIABLES
  heap,      \* content of every buffer
  handles,   \* s.handles: a function from handles to buffers
  slots,     \* g.slots: a function from tokens to buffers
  pinned,    \* buffers the guard has locked in memory
  frame,     \* the call each goroutine is in
  \* History of the run, read by properties only.
  stored,    \* the secret behind every handle and token ever returned
  taken,     \* tokens whose secret was handed out, with what was handed out
  orphaned,  \* buffers of the Stores that panicked
  stuck      \* buffers whose Unlock failed

keyHistory == <<stored, taken, orphaned, stuck>>
vars == <<heap, handles, slots, pinned, frame, keyHistory>>

Out == [at |-> "out"]
Drop(f, S) == Restrict(f, DOMAIN f \ S)
Put(f, x, y) == [z \in DOMAIN f \cup {x} |-> IF z = x THEN y ELSE f[z]]

-----------------------------------------------------------------------------

\* NewLockedMVKStore and NewSecretGuard
Init ==
  /\ heap = [b \in Buffers |-> Fresh]
  /\ handles = <<>> /\ slots = <<>> /\ pinned = {}
  /\ frame = [g \in Goroutines |-> Out]
  /\ stored = <<>> /\ taken = {} /\ orphaned = {} /\ stuck = {}

\* A store copies its argument into a buffer of its own.
Copy(g, b, k, at) ==
  /\ frame[g] = Out /\ heap[b] = Fresh
  /\ heap' = [heap EXCEPT ![b] = k]
  /\ frame' = [frame EXCEPT ![g] = [at |-> at, buf |-> b]]

\* AllocLocked and copy; a failing AllocLocked returns at once.
StoreMVK(g, b, k) ==
  /\ Copy(g, b, k, "mvk")
  /\ pinned' = pinned \cup {b}
  /\ UNCHANGED <<handles, slots, keyHistory>>

\* randomHandle panics if the random source returns an error, the bus recovers
\* the handler, and the buffer is left as it is.  (Since Go 1.24 rand.Read ends
\* the process instead of returning an error; the code has the branch.)
PanicMVK(g) ==
  /\ frame[g].at = "mvk"
  /\ orphaned' = orphaned \cup {frame[g].buf}
  /\ frame' = [frame EXCEPT ![g] = Out]
  /\ UNCHANGED <<heap, handles, slots, pinned, stored, taken, stuck>>

\* s.mu is free, or held by readers only: no Revoke or RevokeAll is under way.
NotRevoking == \A g \in Goroutines : frame[g].at # "revokes"

\* The critical section of Store, under a new random handle.
InsertMVK(g, h) ==
  /\ frame[g].at = "mvk" /\ h \notin DOMAIN stored /\ NotRevoking
  /\ handles' = Put(handles, h, frame[g].buf)
  /\ stored' = Put(stored, h, heap[frame[g].buf])
  /\ frame' = [frame EXCEPT ![g] = Out]
  /\ UNCHANGED <<heap, slots, pinned, taken, orphaned, stuck>>

\* Retrieve returns the stored slice, which its caller uses outside the mutex.
Retrieve(g, h) ==
  /\ frame[g] = Out /\ h \in DOMAIN handles /\ NotRevoking
  /\ frame' = [frame EXCEPT ![g] =
       [at |-> "uses", buf |-> handles[h], id |-> h]]
  /\ UNCHANGED <<heap, handles, slots, pinned, keyHistory>>

\* The caller's frame ends, and its reference with it.
EndUse(g) ==
  /\ frame[g].at = "uses"
  /\ frame' = [frame EXCEPT ![g] = Out]
  /\ UNCHANGED <<heap, handles, slots, pinned, keyHistory>>

\* Revoke for one handle, RevokeAll for all of them: the mutex is taken.
Revoke(g, hs) ==
  /\ frame[g] = Out /\ NotRevoking /\ hs # {}
  /\ frame' = [frame EXCEPT ![g] = [at |-> "revokes", todo |-> hs]]
  /\ UNCHANGED <<heap, handles, slots, pinned, keyHistory>>

\* g, which holds the mutex, is done with the handles before h.
At(g, h) ==
  /\ frame[g].at = "revokes" /\ h \in frame[g].todo
  /\ \A i \in frame[g].todo : i # h => heap[handles[i]] \in Keys

\* guard.Zeroize clears the bytes of the key one after the other.
ZeroizeKey(g, h) ==
  /\ At(g, h)
  /\ \/ heap[handles[h]] \in Keys /\ heap' = [heap EXCEPT ![handles[h]] = Torn]
     \/ heap[handles[h]] = Torn /\ heap' = [heap EXCEPT ![handles[h]] = Zero]
  /\ UNCHANGED <<handles, slots, pinned, frame, keyHistory>>

\* What follows Zeroize: guard.Unlock, whose error is ignored, delete, and after
\* the last handle the release of the mutex.
Forget(g, h) ==
  /\ \/ pinned' = pinned \ {handles[h]} /\ UNCHANGED stuck
     \/ stuck' = stuck \cup {handles[h]} /\ UNCHANGED pinned
  /\ handles' = Drop(handles, {h})
  /\ frame' = [frame EXCEPT ![g] =
       IF @.todo = {h} THEN Out ELSE [at |-> "revokes", todo |-> @.todo \ {h}]]
  /\ UNCHANGED <<heap, slots, stored, taken, orphaned>>

\* Slip: the handle is deleted before its buffer is zeroed to the end.
Release_Early(g, h) == At(g, h) /\ heap[handles[h]] \in {Torn, Zero} /\ Forget(g, h)

Release(g, h) == At(g, h) /\ heap[handles[h]] = Zero /\ Forget(g, h)

\* zeroize, of a buffer that nobody else can read meanwhile.
Zeroize(bs) == heap' = [b \in Buffers |-> IF b \in bs THEN Zero ELSE heap[b]]

StoreSecret(g, b, k) ==
  /\ Copy(g, b, k, "slot")
  /\ UNCHANGED <<handles, slots, pinned, keyHistory>>

InsertSecret(g, t) ==
  /\ frame[g].at = "slot" /\ t \notin DOMAIN stored
  /\ slots' = Put(slots, t, frame[g].buf)
  /\ stored' = Put(stored, t, heap[frame[g].buf])
  /\ frame' = [frame EXCEPT ![g] = Out]
  /\ UNCHANGED <<heap, handles, pinned, taken, orphaned, stuck>>

\* Slip: the zeroed slot is not removed.
RetrieveSecret_KeepsSlot(g, t, b) ==
  /\ frame[g] = Out /\ t \in DOMAIN slots /\ heap[b] = Fresh
  /\ heap' = [heap EXCEPT ![b] = heap[slots[t]], ![slots[t]] = Zero]
  /\ frame' = [frame EXCEPT ![g] = [at |-> "copy", buf |-> b]]
  /\ taken' = taken \cup {<<t, g, heap[slots[t]]>>}
  /\ UNCHANGED <<handles, slots, pinned, stored, orphaned, stuck>>

\* SecretGuard.Retrieve: copy, zero the slot, remove it.
RetrieveSecret(g, t, b) ==
  /\ frame[g] = Out /\ t \in DOMAIN slots /\ heap[b] = Fresh
  /\ heap' = [heap EXCEPT ![b] = heap[slots[t]], ![slots[t]] = Zero]
  /\ slots' = Drop(slots, {t})
  /\ frame' = [frame EXCEPT ![g] = [at |-> "copy", buf |-> b]]
  /\ taken' = taken \cup {<<t, g, heap[slots[t]]>>}
  /\ UNCHANGED <<handles, pinned, stored, orphaned, stuck>>

\* The caller of SecretGuard.Retrieve zeroes its copy after use.
ZeroCopy(g) ==
  /\ frame[g].at = "copy"
  /\ Zeroize({frame[g].buf})
  /\ frame' = [frame EXCEPT ![g] = Out]
  /\ UNCHANGED <<handles, slots, pinned, keyHistory>>

\* Wipe for one token, WipeAll for all of them.
Wipe(ts) ==
  /\ Zeroize({slots[t] : t \in ts})
  /\ slots' = Drop(slots, ts)
  /\ UNCHANGED <<handles, pinned, frame, keyHistory>>

Next ==
  \/ \E g \in Goroutines :
       \/ EndUse(g) \/ ZeroCopy(g) \/ PanicMVK(g)
       \/ \E h \in Handles :
            InsertMVK(g, h) \/ Retrieve(g, h) \/ ZeroizeKey(g, h) \/ Release(g, h)
       \/ \E h \in DOMAIN handles : Revoke(g, {h})
       \/ Revoke(g, DOMAIN handles)
       \/ \E t \in Tokens : InsertSecret(g, t)
       \/ \E b \in Buffers :
            \/ \E k \in Keys : StoreMVK(g, b, k) \/ StoreSecret(g, b, k)
            \/ \E t \in Tokens : RetrieveSecret(g, t, b)
  \/ \E t \in DOMAIN slots : Wipe({t})
  \/ Wipe(DOMAIN slots)

Spec == Init /\ [][Next]_vars

-----------------------------------------------------------------------------

In(at) == {frame[g].buf : g \in {g \in Goroutines : frame[g].at = at}}
Revoking == UNION {frame[g].todo : g \in {g \in Goroutines : frame[g].at = "revokes"}}

\* No secret outlives its removal, and locked memory leaks only where a call of
\* the guard or of the random source fails: a buffer with secret bytes, all of
\* them or some, is in a map, or a Store that has not reached the mutex yet or
\* the one taker of a secret still owns it, or its Store panicked.  The buffers
\* locked are those of the MVK store, in its map or on the way into it, those
\* of Stores that panicked, and those whose Unlock failed.
NoResidue ==
  /\ \A b \in Buffers :
       heap[b] \notin {Fresh, Zero} =>
         b \in Range(handles) \cup Range(slots) \cup orphaned
                 \cup UNION {In(at) : at \in {"mvk", "slot", "copy"}}
  /\ pinned = Range(handles) \cup In("mvk") \cup orphaned \cup stuck
  /\ \A b \in stuck : heap[b] = Zero

\* What a caller sees in the slice Retrieve gave it, in whatever goroutine it
\* still is: the key stored under its handle until a revocation of the handle
\* begins, that key, part of it or zeros while the revocation runs, and zeros
\* when the handle is gone; never the key of another.
SliceShowsOwnKey ==
  \A g \in Goroutines :
    frame[g].at = "uses" =>
      LET h == frame[g].id
          seen == heap[frame[g].buf]
      IN  /\ h \in DOMAIN handles \ Revoking => seen = stored[h]
          /\ h \in Revoking => seen \in {stored[h], Torn, Zero}
          /\ h \notin DOMAIN handles => seen = Zero

\* A secret from the guard is handed out at most once, to one goroutine,
\* unaltered, and only if it has left its slot.
SecretTakenOnce ==
  \A x, y \in taken : /\ x[3] = stored[x[1]] /\ x[1] \notin DOMAIN slots
                      /\ x[1] = y[1] => x = y

=============================================================================
