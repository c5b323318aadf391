---------------------------- MODULE ZkpVerifier ----------------------------
(***************************************************************************)
(* ZKPVerifier of engine/security/zkp.go: single-use challenges, removed   *)
(* by the first VerifyProof, by PendingCount or by the cleanup loop.       *)
(* IssueChallenge and VerifyProof hold v.mu for their map accesses only:   *)
(* the expiry is fixed before, and compared after, the critical section,   *)
(* so each is two steps.  Random IDs and nonces never repeat, BLAKE2b does *)
(* not collide, and a proof is the pair of the key and the nonce it masks. *)
(***************************************************************************)
EXTENDS Integers, FiniteSets

CONSTANTS
  Challenges,   \* challenge IDs; the nonce of a challenge goes by its ID
  Calls,        \* calls of VerifyProof
  Keys,         \* derived keys: the stored one and wrong ones
  StoredKey,    \* the key the daemon passes to VerifyProof
  TTL,          \* zkpNonceTTL, in ticks
  MaxTime       \* bounds the clock

ASSUME ZkpAssumption ==
  /\ IsFiniteSet(Challenges) /\ IsFiniteSet(Calls)
  /\ StoredKey \in Keys
  /\ TTL \in Nat /\ MaxTime \in Nat

VARIABLES
  clock,
  pending,    \* the IDs in v.pending
  expiries,   \* v.expiries, a function on the IDs it holds
  issuing,    \* expiries of challenges made but not yet in the maps
  call,       \* what each call of VerifyProof has read, and its result
  \* History of the run, read by properties only.
  born        \* expiry of every challenge that was ever in the maps

vars == <<clock, pending, expiries, issuing, call, born>>

Without(f, S) == [c \in DOMAIN f \ S |-> f[c]]
With(f, c, x) == [d \in DOMAIN f \cup {c} |-> IF d = c THEN x ELSE f[d]]
Idle == [at |-> "idle"]

-----------------------------------------------------------------------------

\* NewZKPVerifier
Init ==
  /\ clock = 0
  /\ pending = {} /\ expiries = <<>> /\ issuing = <<>>
  /\ call = [v \in Calls |-> Idle] /\ born = <<>>

\* IssueChallenge up to the lock; when the random source fails, nothing happens.
IssueChallenge(c) ==
  /\ c \notin DOMAIN issuing \cup DOMAIN born
  /\ clock + TTL < MaxTime
  /\ issuing' = With(issuing, c, clock + TTL)
  /\ UNCHANGED <<clock, pending, expiries, call, born>>

\* The critical section of IssueChallenge; its caller then sends the nonce.
Publish(c) ==
  /\ c \in DOMAIN issuing
  /\ pending' = pending \cup {c}
  /\ expiries' = With(expiries, c, issuing[c])
  /\ born' = With(born, c, issuing[c])
  /\ issuing' = Without(issuing, {c})
  /\ UNCHANGED <<clock, call>>

\* The proof of a key over the nonce of challenge n.
ComputeProof(key, n) == [key |-> key, nonce |-> n]

DeletePending(ids) ==
  /\ pending' = pending \ ids
  /\ expiries' = Without(expiries, ids)

\* Slip: the challenge stays until its proof has been checked.
VerifyProof_ConsumeLater(v, c, p) ==
  /\ call[v].at = "idle"
  /\ call' = [call EXCEPT ![v] =
       [at |-> "read", id |-> c, proof |-> p, ok |-> c \in pending,
        expiry |-> IF c \in DOMAIN expiries THEN expiries[c] ELSE 0]]
  /\ UNCHANGED <<clock, pending, expiries, issuing, born>>

\* The critical section of VerifyProof: read both maps, then consume.  A client
\* sends any proof over a nonce it was given, under any ID, any number of times.
VerifyProof(v, c, p) ==
  /\ call[v].at = "idle"
  /\ call' = [call EXCEPT ![v] =
       [at |-> "read", id |-> c, proof |-> p, ok |-> c \in pending,
        expiry |-> IF c \in DOMAIN expiries THEN expiries[c] ELSE 0]]
  /\ DeletePending({c})
  /\ UNCHANGED <<clock, issuing, born>>

\* The checks after the critical section, at the time of the second step.  A
\* proof of the wrong length is one more that differs from the expected.
Accepts(r) ==
  /\ r.ok
  /\ ~ clock > r.expiry
  /\ r.proof = ComputeProof(StoredKey, r.id)

Decide(v) ==
  /\ call[v].at = "read"
  /\ call' = [call EXCEPT ![v] =
       [at |-> IF Accepts(call[v]) THEN "verified" ELSE "refused",
        id |-> call[v].id, proof |-> call[v].proof, time |-> clock]]
  /\ UNCHANGED <<clock, pending, expiries, issuing, born>>

\* Slip: the challenges that are still active are the ones dropped.
PendingCount_Active ==
  /\ DeletePending({c \in DOMAIN expiries : clock < expiries[c]})
  /\ UNCHANGED <<clock, issuing, call, born>>

\* PendingCount drops whatever it does not count as active.
PendingCount ==
  /\ DeletePending({c \in DOMAIN expiries : ~ clock < expiries[c]})
  /\ UNCHANGED <<clock, issuing, call, born>>

\* Slip: the loop forgets the expiry and keeps the nonce.
cleanupLoop_Half ==
  /\ expiries' = Without(expiries, {c \in DOMAIN expiries : clock > expiries[c]})
  /\ UNCHANGED <<clock, pending, issuing, call, born>>

\* One round of the cleanup loop.
cleanupLoop ==
  /\ DeletePending({c \in DOMAIN expiries : clock > expiries[c]})
  /\ UNCHANGED <<clock, issuing, call, born>>

Tick ==
  /\ clock < MaxTime /\ clock' = clock + 1
  /\ UNCHANGED <<pending, expiries, issuing, call, born>>

Next ==
  \/ \E c \in Challenges : IssueChallenge(c) \/ Publish(c)
  \/ \E v \in Calls :
       \/ Decide(v)
       \/ \E c \in Challenges, k \in Keys, n \in DOMAIN born :
            VerifyProof(v, c, ComputeProof(k, n))
  \/ PendingCount \/ cleanupLoop \/ Tick

\* The ticker of the cleanup loop never stops, and time passes.
Spec ==
  Init /\ [][Next]_vars /\ WF_vars(cleanupLoop) /\ WF_vars(Tick)

-----------------------------------------------------------------------------

Verified == {v \in Calls : call[v].at = "verified"}

\* However proofs are duplicated, swapped between challenges or delivered to
\* two calls at once, a challenge is verified at most once, and then by a proof
\* of the stored key over its own nonce that was judged before it expired.
VerifiedOnce ==
  \A v \in Verified :
    LET c == call[v].id
    IN /\ c \in DOMAIN born /\ call[v].time <= born[c]
       /\ call[v].proof = [key |-> StoredKey, nonce |-> c]
       /\ \A w \in Verified \ {v} : call[w].id # c

\* Until its time is up a challenge is taken away by nothing but a VerifyProof
\* for it: the two cleaning paths, which compare differently, spare it.
ActiveKept ==
  \A c \in DOMAIN born :
    \/ c \in pending /\ c \in DOMAIN expiries /\ expiries[c] = born[c]
    \/ clock >= born[c]
    \/ \E v \in Calls : call[v].at # "idle" /\ call[v].id = c

\* Every challenge, answered or not, is eventually gone from both maps.
NothingPiles ==
  \A c \in Challenges :
    c \in DOMAIN born ~> c \notin pending \cup DOMAIN expiries

=============================================================================
