---------------------------- MODULE AccessProofs ----------------------------
(***************************************************************************)
(* Who gets in, and what a request may do.                                 *)
(*                                                                         *)
(* For any number of challenges and of calls of VerifyProof, any key space *)
(* and any lifetime of a challenge: a challenge is verified at most once,  *)
(* in time and by the stored key, and nothing but a VerifyProof for it     *)
(* takes it away before its time is up.                                    *)
(*                                                                         *)
(* For any set of queries, operations and users, any limits, and however   *)
(* the session changes under the validator: the verdict on a GQL request   *)
(* is justified by the sessions that were asked, and the query it is about *)
(* is the query that was sent.                                             *)
(***************************************************************************)
EXTENDS ZkpVerifier, GqlValidator, FiniteSetTheorems, WellFoundedInduction, TLAPS

-----------------------------------------------------------------------------
\* The ZKP verifier.

Proofs == [key: Keys, nonce: Challenges]
Records ==
  {Idle} \cup [at: {"read"}, id: Challenges, proof: Proofs, ok: BOOLEAN, expiry: Int]
         \cup [at: {"verified", "refused"}, id: Challenges, proof: Proofs, time: Int]

Types ==
  /\ clock \in Nat
  /\ DOMAIN issuing \subseteq Challenges /\ issuing \in [DOMAIN issuing -> Nat]
  /\ DOMAIN born \subseteq Challenges /\ born \in [DOMAIN born -> Nat]
  /\ expiries \in [DOMAIN expiries -> Nat]
  /\ call \in [Calls -> Records]

\* The two maps hold the same challenges, each with its own expiry, and a
\* challenge that was ever in them is not made again.
MapsAgree ==
  /\ DOMAIN expiries = pending /\ pending \subseteq DOMAIN born
  /\ \A c \in pending : expiries[c] = born[c]
  /\ DOMAIN issuing \cap DOMAIN born = {}

\* Call v has taken its challenge out of the maps and may succeed.
Claims(v) == call[v].at = "verified" \/ (call[v].at = "read" /\ call[v].ok)

\* A challenge is claimed by one call, and is no longer to be had.
ClaimedOnce ==
  /\ \A v \in Calls : Claims(v) => call[v].id \in DOMAIN born \ pending
  /\ \A v, w \in Calls : Claims(v) /\ Claims(w) /\ call[v].id = call[w].id => v = w

\* What a call carries from its critical section is the challenge's expiry, and
\* a call that succeeded did so before it.
ClaimsRight ==
  \A v \in Calls :
    /\ call[v].at = "read" /\ call[v].ok => call[v].expiry = born[call[v].id]
    /\ call[v].at = "verified" =>
         /\ call[v].time <= born[call[v].id]
         /\ call[v].proof = [key |-> StoredKey, nonce |-> call[v].id]

\* The inductive invariant.
Inv == Types /\ MapsAgree /\ ClaimedOnce /\ ClaimsRight /\ ActiveKept

-----------------------------------------------------------------------------
(* Operators and record types.                                             *)

\* What is known of a call from where it stands.
LEMMA RecordType ==
  ASSUME NEW r \in Records
  PROVE  /\ r.at \in {"idle", "read", "verified", "refused"}
         /\ r.at # "idle" => r.id \in Challenges /\ r.proof \in Proofs
         /\ r.at = "read" => r.ok \in BOOLEAN /\ r.expiry \in Int
         /\ r.at \in {"verified", "refused"} => r.time \in Int
BY DEF Records, Idle

-----------------------------------------------------------------------------
(* The invariant.                                                          *)

\* A new verifier satisfies the invariant.
LEMMA InitInv == Init => Inv
<1> SUFFICES ASSUME Init PROVE Inv
  OBVIOUS
<1>1. /\ pending = {} /\ DOMAIN expiries = {} /\ DOMAIN issuing = {} /\ DOMAIN born = {}
      /\ expiries \in [{} -> Nat] /\ issuing \in [{} -> Nat] /\ born \in [{} -> Nat]
  BY DEF Init
<1>2. /\ call \in [Calls -> Records] /\ clock \in Nat
      /\ \A v \in Calls : call[v].at = "idle"
  BY DEF Init, Records, Idle
<1>3. Types
  BY <1>1, <1>2 DEF Types
<1>4. MapsAgree
  BY <1>1 DEF MapsAgree
<1>5. ClaimedOnce /\ ClaimsRight /\ ActiveKept
  BY <1>1, <1>2 DEF ClaimedOnce, ClaimsRight, ActiveKept, Claims
<1> QED
  BY <1>3, <1>4, <1>5 DEF Inv

\* IssueChallenge before the lock
LEMMA IssueInv ==
  ASSUME Inv, NEW c \in Challenges, IssueChallenge(c)
  PROVE  Inv'
<1>1. /\ issuing \in [DOMAIN issuing -> Nat] /\ clock \in Nat /\ TTL \in Nat
      /\ c \notin DOMAIN born
      /\ issuing' = With(issuing, c, clock + TTL)
      /\ UNCHANGED <<clock, pending, expiries, call, born>>
  BY ZkpAssumption DEF ZkpAssumption, Inv, Types, IssueChallenge
<1>2. clock + TTL \in Nat
  BY <1>1
<1>3. DOMAIN issuing' = DOMAIN issuing \cup {c} /\ issuing' \in [DOMAIN issuing' -> Nat]
  BY <1>1, <1>2 DEF With
<1>4. Types'
  BY <1>1, <1>3 DEF Inv, Types
<1>5. MapsAgree'
  BY <1>1, <1>3 DEF Inv, MapsAgree
<1>6. ClaimedOnce' /\ ClaimsRight' /\ ActiveKept'
  BY <1>1 DEF Inv, ClaimedOnce, ClaimsRight, ActiveKept, Claims
<1> QED
  BY <1>4, <1>5, <1>6 DEF Inv

\* The critical section of IssueChallenge: nobody has claimed a new challenge.
LEMMA PublishInv ==
  ASSUME Inv, NEW c \in Challenges, Publish(c)
  PROVE  Inv'
<1>1. /\ issuing \in [DOMAIN issuing -> Nat] /\ expiries \in [DOMAIN expiries -> Nat]
      /\ born \in [DOMAIN born -> Nat]
      /\ c \in DOMAIN issuing /\ c \notin DOMAIN born
      /\ pending' = pending \cup {c}
      /\ expiries' = With(expiries, c, issuing[c])
      /\ born' = With(born, c, issuing[c])
      /\ issuing' = Without(issuing, {c})
      /\ UNCHANGED <<clock, call>>
  BY DEF Inv, Types, MapsAgree, Publish
<1>2. /\ DOMAIN issuing' = DOMAIN issuing \ {c} /\ issuing' \in [DOMAIN issuing' -> Nat]
  BY <1>1 DEF Without
<1>3. /\ DOMAIN expiries' = DOMAIN expiries \cup {c} /\ expiries' \in [DOMAIN expiries' -> Nat]
      /\ expiries'[c] = issuing[c] /\ \A d \in DOMAIN expiries : d # c => expiries'[d] = expiries[d]
  BY <1>1 DEF With
<1>4. /\ DOMAIN born' = DOMAIN born \cup {c} /\ born' \in [DOMAIN born' -> Nat]
      /\ born'[c] = issuing[c] /\ \A d \in DOMAIN born : born'[d] = born[d]
  BY <1>1 DEF With
<1>5. Types'
  BY <1>1, <1>2, <1>3, <1>4 DEF Inv, Types
<1>6. MapsAgree'
  BY <1>1, <1>2, <1>3, <1>4 DEF Inv, MapsAgree
<1>7. ClaimedOnce'
  BY <1>1, <1>4 DEF Inv, ClaimedOnce, Claims
<1>8. ClaimsRight'
  BY <1>1, <1>4 DEF Inv, ClaimedOnce, ClaimsRight, Claims
<1>9. ActiveKept'
  <2> SUFFICES ASSUME NEW d \in DOMAIN born'
               PROVE  \/ d \in pending' /\ d \in DOMAIN expiries' /\ expiries'[d] = born'[d]
                      \/ clock' >= born'[d]
                      \/ \E v \in Calls : call'[v].at # "idle" /\ call'[v].id = d
    BY DEF ActiveKept
  <2>1. CASE d = c
    BY <1>1, <1>3, <1>4, <2>1
  <2>2. CASE d # c
    <3>1. d \in DOMAIN born /\ born'[d] = born[d]
      BY <1>4, <2>2
    <3> QED
      BY <1>1, <1>3, <2>2, <3>1 DEF Inv, ActiveKept
  <2> QED
    BY <2>1, <2>2
<1> QED
  BY <1>5, <1>6, <1>7, <1>8, <1>9 DEF Inv

\* Challenges are removed from both maps.
LEMMA DeleteType ==
  ASSUME Inv, NEW ids, DeletePending(ids)
  PROVE  /\ pending' = pending \ ids /\ DOMAIN expiries' = DOMAIN expiries \ ids
         /\ expiries' \in [DOMAIN expiries' -> Nat]
         /\ \A c \in DOMAIN expiries \ ids : expiries'[c] = expiries[c]
<1>1. expiries \in [DOMAIN expiries -> Nat]
  BY DEF Inv, Types
<1> QED
  BY <1>1 DEF DeletePending, Without

\* PendingCount and the cleanup loop remove challenges whose time is up.
LEMMA CleanInv ==
  ASSUME Inv, NEW ids \in SUBSET DOMAIN expiries, DeletePending(ids),
         \A c \in ids : clock >= expiries[c], UNCHANGED <<clock, issuing, call, born>>
  PROVE  Inv'
<1>1. /\ pending' = pending \ ids /\ DOMAIN expiries' = DOMAIN expiries \ ids
      /\ expiries' \in [DOMAIN expiries' -> Nat]
      /\ \A c \in DOMAIN expiries \ ids : expiries'[c] = expiries[c]
  BY DeleteType
<1>2. Types'
  BY <1>1 DEF Inv, Types
<1>3. MapsAgree'
  BY <1>1 DEF Inv, MapsAgree
<1>4. ClaimedOnce' /\ ClaimsRight'
  BY <1>1 DEF Inv, ClaimedOnce, ClaimsRight, Claims
<1>5. ActiveKept'
  <2>1. \A c \in ids : c \in pending /\ clock >= born[c]
    BY DEF Inv, MapsAgree
  <2> QED
    BY <1>1, <2>1 DEF Inv, ActiveKept
<1> QED
  BY <1>2, <1>3, <1>4, <1>5 DEF Inv

\* The critical section of VerifyProof: the first call claims the challenge.
LEMMA VerifyProofInv ==
  ASSUME Inv, NEW v \in Calls, NEW c \in Challenges, NEW p \in Proofs, VerifyProof(v, c, p)
  PROVE  Inv'
<1> DEFINE x == IF c \in DOMAIN expiries THEN expiries[c] ELSE 0
           ok == c \in pending
           r == [at |-> "read", id |-> c, proof |-> p, ok |-> ok, expiry |-> x]
<1>1. /\ call \in [Calls -> Records] /\ expiries \in [DOMAIN expiries -> Nat]
      /\ call[v].at = "idle" /\ call' = [call EXCEPT ![v] = r] /\ DeletePending({c})
      /\ UNCHANGED <<clock, issuing, born>>
  BY DEF Inv, Types, VerifyProof
<1>2. x \in Int /\ (c \in pending => x = born[c] /\ c \in DOMAIN born)
  BY <1>1 DEF Inv, MapsAgree
<1> HIDE DEF x
<1>3. /\ r \in Records /\ r.at = "read" /\ r.id = c /\ r.expiry = x
      /\ r.ok <=> c \in pending
  <2>1. ok \in BOOLEAN
    OBVIOUS
  <2>2. r.at = "read" /\ r.id = c /\ r.expiry = x /\ r.ok = ok
    BY Zenon
  <2> HIDE DEF ok
  <2>3. r \in Records
    BY <1>2, <2>1 DEF Records
  <2> QED
    BY <2>2, <2>3 DEF ok
<1> HIDE DEF r
<1>4. /\ call' \in [Calls -> Records] /\ call'[v] = r
      /\ \A w \in Calls : w # v => call'[w] = call[w]
  BY <1>1, <1>3
<1>5. /\ pending' = pending \ {c} /\ DOMAIN expiries' = DOMAIN expiries \ {c}
      /\ expiries' \in [DOMAIN expiries' -> Nat]
      /\ \A d \in DOMAIN expiries \ {c} : expiries'[d] = expiries[d]
  BY <1>1, DeleteType
<1>6. /\ \A w \in Calls : w # v => (Claims(w)' <=> Claims(w))
      /\ Claims(v)' <=> c \in pending
  BY <1>3, <1>4 DEF Claims
<1>7. Types'
  BY <1>1, <1>4, <1>5 DEF Inv, Types
<1>8. MapsAgree'
  BY <1>1, <1>5 DEF Inv, MapsAgree
<1>9. ClaimedOnce'
  <2>1. ASSUME NEW w \in Calls, Claims(w)' PROVE call'[w].id \in DOMAIN born \ pending'
    <3>1. CASE w = v
      BY <1>2, <1>3, <1>4, <1>5, <1>6, <2>1, <3>1
    <3>2. CASE w # v
      BY <1>4, <1>5, <1>6, <2>1, <3>2 DEF Inv, ClaimedOnce
    <3> QED
      BY <3>1, <3>2
  <2>2. ASSUME NEW w \in Calls, w # v, Claims(w)', Claims(v)' PROVE call'[w].id # call'[v].id
    BY <1>3, <1>4, <1>6, <2>2 DEF Inv, ClaimedOnce
  <2>3. ASSUME NEW u \in Calls, NEW w \in Calls, Claims(u)', Claims(w)',
               call'[u].id = call'[w].id
        PROVE  u = w
    BY <1>4, <1>6, <2>2, <2>3 DEF Inv, ClaimedOnce
  <2> QED
    BY <1>1, <2>1, <2>3 DEF ClaimedOnce
<1>10. ClaimsRight'
  BY <1>1, <1>2, <1>3, <1>4 DEF Inv, ClaimsRight
<1>11. ActiveKept'
  <2> SUFFICES ASSUME NEW d \in DOMAIN born
               PROVE  \/ d \in pending' /\ d \in DOMAIN expiries' /\ expiries'[d] = born[d]
                      \/ clock >= born[d]
                      \/ \E w \in Calls : call'[w].at # "idle" /\ call'[w].id = d
    BY <1>1 DEF ActiveKept
  <2>1. CASE d = c
    BY <1>3, <1>4, <2>1
  <2>2. CASE d # c
    <3>1. ASSUME NEW w \in Calls, call[w].at # "idle", call[w].id = d
          PROVE  call'[w].at # "idle" /\ call'[w].id = d
      BY <1>1, <1>4, <3>1
    <3> QED
      BY <1>5, <2>2, <3>1 DEF Inv, ActiveKept
  <2> QED
    BY <2>1, <2>2
<1> QED
  BY <1>7, <1>8, <1>9, <1>10, <1>11 DEF Inv

\* The end of VerifyProof: only a call with a claim succeeds.
LEMMA DecideInv ==
  ASSUME Inv, NEW v \in Calls, Decide(v)
  PROVE  Inv'
<1> DEFINE a == IF Accepts(call[v]) THEN "verified" ELSE "refused"
           r == [at |-> a, id |-> call[v].id, proof |-> call[v].proof, time |-> clock]
<1>1. /\ call \in [Calls -> Records] /\ clock \in Nat
      /\ call[v].at = "read" /\ call' = [call EXCEPT ![v] = r]
      /\ UNCHANGED <<clock, pending, expiries, issuing, born>>
  BY DEF Inv, Types, Decide
<1>2. call[v].id \in Challenges /\ call[v].proof \in Proofs /\ call[v].expiry \in Int
  BY <1>1, RecordType
<1>3. /\ r \in Records /\ r.at = a /\ r.id = call[v].id /\ r.proof = call[v].proof
      /\ r.time = clock
  BY <1>1, <1>2 DEF Records
<1>4. a \in {"verified", "refused"} /\ (a = "verified" <=> Accepts(call[v]))
  OBVIOUS
<1> HIDE DEF a, r
<1>5. /\ call' \in [Calls -> Records] /\ call'[v] = r
      /\ \A w \in Calls : w # v => call'[w] = call[w]
  BY <1>1, <1>3
<1>6. /\ Claims(v)' => Claims(v)
      /\ \A w \in Calls : w # v => (Claims(w)' <=> Claims(w))
      /\ \A w \in Calls : call'[w].id = call[w].id
  BY <1>1, <1>3, <1>4, <1>5 DEF Claims, Accepts
<1>7. Types'
  BY <1>1, <1>5 DEF Inv, Types
<1>8. MapsAgree'
  BY <1>1 DEF Inv, MapsAgree
<1>9. ClaimedOnce'
  BY <1>1, <1>6 DEF Inv, ClaimedOnce
<1>10. ClaimsRight'
  <2>1. ASSUME a = "verified"
        PROVE  /\ clock <= born[call[v].id]
               /\ call[v].proof = [key |-> StoredKey, nonce |-> call[v].id]
    <3>1. call[v].ok /\ ~(clock > call[v].expiry)
          /\ call[v].proof = [key |-> StoredKey, nonce |-> call[v].id]
      BY <1>4, <2>1 DEF Accepts, ComputeProof
    <3>2. call[v].expiry = born[call[v].id]
      BY <1>1, <3>1 DEF Inv, ClaimsRight
    <3> QED
      BY <1>1, <1>2, <3>1, <3>2
  <2>2. ASSUME NEW w \in Calls, w # v
        PROVE  /\ call'[w].at = "read" /\ call'[w].ok => call'[w].expiry = born[call'[w].id]
               /\ call'[w].at = "verified" =>
                    /\ call'[w].time <= born[call'[w].id]
                    /\ call'[w].proof = [key |-> StoredKey, nonce |-> call'[w].id]
    BY <1>5, <2>2 DEF Inv, ClaimsRight
  <2>3. /\ call'[v].at # "read"
        /\ call'[v].at = "verified" =>
             /\ call'[v].time <= born[call'[v].id]
             /\ call'[v].proof = [key |-> StoredKey, nonce |-> call'[v].id]
    BY <1>3, <1>4, <1>5, <2>1
  <2> QED
    BY <1>1, <2>2, <2>3 DEF ClaimsRight
<1>11. ActiveKept'
  <2>1. ASSUME NEW w \in Calls, call[w].at # "idle" PROVE call'[w].at # "idle"
    BY <1>3, <1>4, <1>5, <2>1
  <2> QED
    BY <1>1, <1>6, <2>1 DEF Inv, ActiveKept
<1> QED
  BY <1>7, <1>8, <1>9, <1>10, <1>11 DEF Inv

\* One step per action of the verifier.
LEMMA StepInv == Inv /\ [Next]_vars => Inv'
<1> SUFFICES ASSUME Inv, [Next]_vars PROVE Inv'
  OBVIOUS
<1>1. ASSUME NEW c \in Challenges, IssueChallenge(c) PROVE Inv'
  BY <1>1, IssueInv
<1>2. ASSUME NEW c \in Challenges, Publish(c) PROVE Inv'
  BY <1>2, PublishInv
<1>3. ASSUME NEW v \in Calls, Decide(v) PROVE Inv'
  BY <1>3, DecideInv
<1>4. ASSUME NEW v \in Calls, NEW c \in Challenges, NEW k \in Keys, NEW n \in DOMAIN born,
             VerifyProof(v, c, ComputeProof(k, n))
      PROVE  Inv'
  <2>1. ComputeProof(k, n) \in Proofs
    BY DEF ComputeProof, Proofs, Inv, Types
  <2> QED
    BY <1>4, <2>1, VerifyProofInv
<1>5. clock \in Nat /\ expiries \in [DOMAIN expiries -> Nat]
  BY DEF Inv, Types
<1>6. CASE PendingCount
  <2> DEFINE ids == {c \in DOMAIN expiries : ~ clock < expiries[c]}
  <2>1. ids \in SUBSET DOMAIN expiries /\ \A c \in ids : clock >= expiries[c]
    BY <1>5
  <2>2. DeletePending(ids) /\ UNCHANGED <<clock, issuing, call, born>>
    BY <1>6 DEF PendingCount
  <2> HIDE DEF ids
  <2> QED
    BY <2>1, <2>2, CleanInv
<1>7. CASE cleanupLoop
  <2> DEFINE ids == {c \in DOMAIN expiries : clock > expiries[c]}
  <2>1. ids \in SUBSET DOMAIN expiries /\ \A c \in ids : clock >= expiries[c]
    BY <1>5
  <2>2. DeletePending(ids) /\ UNCHANGED <<clock, issuing, call, born>>
    BY <1>7 DEF cleanupLoop
  <2> HIDE DEF ids
  <2> QED
    BY <2>1, <2>2, CleanInv
<1>8. CASE Tick
  <2>1. clock' = clock + 1 /\ UNCHANGED <<pending, expiries, issuing, call, born>>
    BY <1>8 DEF Tick
  <2>2. Types' /\ MapsAgree' /\ ClaimedOnce' /\ ClaimsRight'
    BY <1>5, <2>1 DEF Inv, Types, MapsAgree, ClaimedOnce, ClaimsRight, Claims
  <2>3. \A c \in DOMAIN born : clock >= born[c] => clock' >= born[c]
    BY <1>5, <2>1 DEF Inv, Types
  <2>4. ActiveKept'
    BY <2>1, <2>3 DEF Inv, ActiveKept
  <2> QED
    BY <2>2, <2>4 DEF Inv
<1>9. CASE UNCHANGED vars
  BY <1>9 DEF vars, Inv, Types, MapsAgree, ClaimedOnce, ClaimsRight, Claims, ActiveKept
<1> QED
  BY <1>1, <1>2, <1>3, <1>4, <1>6, <1>7, <1>8, <1>9 DEF Next

\* The inductive invariant holds in every reachable state.
THEOREM InvHolds == Spec => []Inv
  BY InitInv, StepInv, PTL DEF Spec

\* Replays, swapped proofs and concurrent calls verify a challenge at most once,
\* with the stored key and in time.
THEOREM SingleUse == Spec => []VerifiedOnce
<1>1. Inv => VerifiedOnce
  <2> SUFFICES ASSUME Inv, NEW v \in Verified
               PROVE  /\ call[v].id \in DOMAIN born /\ call[v].time <= born[call[v].id]
                      /\ call[v].proof = [key |-> StoredKey, nonce |-> call[v].id]
                      /\ \A w \in Verified \ {v} : call[w].id # call[v].id
    BY DEF VerifiedOnce
  <2>1. v \in Calls /\ call[v].at = "verified" /\ Claims(v)
    BY DEF Verified, Claims
  <2>2. \A w \in Verified : w \in Calls /\ Claims(w)
    BY DEF Verified, Claims
  <2> QED
    BY <2>1, <2>2 DEF Inv, ClaimedOnce, ClaimsRight
<1> QED
  BY <1>1, InvHolds, PTL

\* Neither PendingCount nor the cleanup loop takes an active challenge away.
THEOREM ActiveStays == Spec => []ActiveKept
<1>1. Inv => ActiveKept
  BY DEF Inv
<1> QED
  BY <1>1, InvHolds, PTL

-----------------------------------------------------------------------------
\* The GQL validator.

\* Where the validator stands when it asks, and before it has a query.
Questions == {"unlocked?", "handle?", "user?", "admin?"}
Undecoded == {"compose", "wire", "cut"}

\* What the answers so far have established, each in a session of the time.
Answered ==
  /\ pc \in {"user?", "admin?", "accepted"} => \E s \in seen : s.unlocked /\ s.handle
  /\ pc \in {"user?", "admin?", "accepted"} =>
       (isWriteOperation(query.operation) => query.credentials # <<>>)
  /\ pc = "accepted" => \E s \in seen : MayUse(s, query.namespace)

\* A session is unlocked, or answers like a locked one.
SessionOK(s) == s = Locked \/ s.unlocked

\* The inductive invariant: what each place of the validator has established.
RequestInv ==
  /\ pc \in Undecoded => query = Malformed /\ seen = {}
  /\ pc \in Questions => session \in seen
  /\ SessionOK(session) /\ \A s \in seen : SessionOK(s)
  /\ Answered

\* Nothing has been decoded or asked in the beginning.
LEMMA RequestInitInv == RequestInit => RequestInv
BY DEF RequestInit, RequestInv, Undecoded, Questions, Answered, SessionOK, Locked, UnlockedBy

\* Stage 2 starts in the session of the moment; stage 1 may refuse before that.
LEMMA StepReceive ==
  ASSUME RequestInv, Receive
  PROVE  RequestInv'
<1>1. session' = session /\ SessionOK(session)
  BY DEF RequestInv, Receive
<1>2. CASE UNCHANGED <<query, seen>> /\ pc' \in {"refused", "nothing"}
  BY <1>1, <1>2 DEF RequestInv, Undecoded, Questions, Answered, SessionOK
<1>3. CASE /\ pc' = IF query' = Malformed THEN "refused" ELSE "unlocked?"
           /\ seen' = {session} /\ session' = session
  BY <1>1, <1>3 DEF RequestInv, Undecoded, Questions, Answered, SessionOK
<1> QED BY <1>2, <1>3 DEF Receive

\* The four questions.
LEMMA StepCheck ==
  ASSUME RequestInv, CheckUnlocked \/ CheckHandle \/ CheckUser \/ CheckAdmin
  PROVE  RequestInv'
<1>1. UNCHANGED <<session, query, seen>> /\ session \in seen /\ SessionOK(session)
  BY DEF RequestInv, CheckUnlocked, CheckHandle, CheckUser, CheckAdmin, messageVars, Questions
<1>2. pc' \notin Undecoded
  BY DEF CheckUnlocked, CheckHandle, CheckUser, CheckAdmin, Undecoded
<1>3. Answered'
  <2>1. CASE CheckUnlocked
    BY <2>1 DEF CheckUnlocked, Answered
  <2>2. CASE CheckHandle
    BY <1>1, <2>2 DEF CheckHandle, Answered, SessionOK, Locked
  <2>3. CASE CheckUser
    BY <1>1, <2>3 DEF CheckUser, RequestInv, Answered, MayUse
  <2>4. CASE CheckAdmin
    BY <1>1, <2>4 DEF CheckAdmin, RequestInv, Answered, MayUse
  <2> QED BY <2>1, <2>2, <2>3, <2>4
<1> QED BY <1>1, <1>2, <1>3 DEF RequestInv, SessionOK

\* A session that changes between two questions is one more that was seen: what
\* earlier answers established stays established by the sessions they met.
LEMMA StepChange ==
  ASSUME RequestInv, ChangeSession
  PROVE  RequestInv'
<1>1. UNCHANGED <<query, pc, userID>>
  BY DEF ChangeSession, messageVars
<1>2. SessionOK(session')
  BY DEF ChangeSession, SessionOK, Locked, UnlockedBy
<1>3. CASE seen = {} \/ pc \in {"accepted", "refused"}
  <2>1. seen' = seen
    BY <1>3 DEF ChangeSession
  <2>2. pc \notin Questions
    BY <1>3 DEF RequestInv, Questions
  <2> QED BY <1>1, <1>2, <2>1, <2>2 DEF RequestInv, Answered, MayUse, SessionOK
<1>4. CASE ~ (seen = {} \/ pc \in {"accepted", "refused"})
  <2>1. seen' = seen \cup {session'}
    BY <1>4 DEF ChangeSession
  <2>2. Answered'
    BY <1>1, <1>4, <2>1 DEF RequestInv, Answered
  <2> QED BY <1>1, <1>2, <1>4, <2>1, <2>2 DEF RequestInv, SessionOK
<1> QED BY <1>3, <1>4

\* One step for each action of the request.
LEMMA RequestStepInv == RequestInv /\ [RequestNext]_requestVars => RequestInv'
<1> SUFFICES ASSUME RequestInv, [RequestNext]_requestVars PROVE RequestInv'
  OBVIOUS
<1>1. CASE Send \/ Cut
  <2>1. pc \in Undecoded /\ pc' \in Undecoded /\ UNCHANGED <<query, seen, session, userID>>
    BY <1>1 DEF Send, Cut, Undecoded
  <2> QED BY <2>1 DEF RequestInv, Undecoded, Questions, Answered, SessionOK
<1>2. CASE UNCHANGED requestVars
  BY <1>2 DEF requestVars, RequestInv, Answered, MayUse, SessionOK
<1> QED BY <1>1, <1>2, StepReceive, StepCheck, StepChange DEF RequestNext

\* The invariant holds from the composed request to the verdict.
THEOREM RequestInvHolds == RequestSpec => []RequestInv
BY RequestInitInv, RequestStepInv, PTL DEF RequestSpec

\* validateACL accepts a request only if a session there was while it asked was
\* unlocked and had a handle, the request brings the credentials it needs, and a
\* session of the time was unlocked and may use its namespace, or was locked.
THEOREM Justified == RequestSpec => []AccessJustified
<1>1. RequestInv => AccessJustified
  BY DEF RequestInv, Answered, SessionOK, AccessJustified
<1> QED BY <1>1, RequestInvHolds, PTL

-----------------------------------------------------------------------------
\* The wire format.

\* Induction over the natural numbers, for a set instead of a predicate.
LEMMA NatSetInduction ==
  ASSUME NEW S \in SUBSET Nat, 0 \in S, \A n \in S : n + 1 \in S
  PROVE  \A n \in Nat : n \in S
<1> SUFFICES ASSUME Nat \ S # {} PROVE FALSE
  OBVIOUS
<1> DEFINE Less == OpToRel(<, Nat)
           B == Nat \ S
<1>1. IsWellFoundedOn(Less, Nat)
  BY NatLessThanWellFounded
<1>2. \A x, y \in Nat : <<y, x>> \notin Less => x <= y
  BY DEF OpToRel
<1>3. B \in SUBSET Nat /\ B # {}
  OBVIOUS
<1> HIDE DEF Less
<1>4. PICK x \in B : \A y \in B : ~ (<<y, x>> \in Less)
  BY <1>1, <1>3, WFMin
<1>5. x \in Nat /\ x \notin S /\ x # 0
  BY <1>4
<1>6. x - 1 \in Nat /\ (x - 1) + 1 = x
  BY <1>5
<1>7. CASE x - 1 \in S
  BY <1>5, <1>6, <1>7
<1>8. CASE x - 1 \notin S
  <2>1. x - 1 \in B
    BY <1>6, <1>8
  <2>2. x <= x - 1
    BY <1>2, <1>4, <1>5, <1>6, <2>1
  <2> QED BY <1>5, <2>2
<1> QED BY <1>7, <1>8

\* The text so far, after each of the sequences.
Joins(F, seqs, A, n) ==
  /\ F \in [0 .. n -> Seq(A)] /\ F[0] = <<>>
  /\ \A i \in 1 .. n : F[i] = F[i - 1] \o seqs[i]

\* There are such texts, for any sequences.
LEMMA JoinsExist ==
  ASSUME NEW A, NEW seqs \in Seq(Seq(A))
  PROVE  \E F : Joins(F, seqs, A, Len(seqs))
<1> DEFINE S == {n \in Nat : n <= Len(seqs) => \E F : Joins(F, seqs, A, n)}
<1>1. 0 \in S
  <2> DEFINE F == [i \in 0 .. 0 |-> <<>>]
  <2>1. Joins(F, seqs, A, 0)
    BY DEF Joins
  <2> QED BY <2>1
<1>2. ASSUME NEW n \in S PROVE n + 1 \in S
  <2> SUFFICES ASSUME n + 1 <= Len(seqs) PROVE \E F : Joins(F, seqs, A, n + 1)
    OBVIOUS
  <2>0. n \in Nat /\ Len(seqs) \in Nat
    OBVIOUS
  <2>1. n <= Len(seqs) /\ n + 1 \in 1 .. Len(seqs) /\ (n + 1) - 1 = n
    BY <2>0
  <2>2. PICK F : Joins(F, seqs, A, n)
    BY <2>1
  <2> DEFINE H == [i \in 0 .. n + 1 |-> IF i = n + 1 THEN F[n] \o seqs[n + 1] ELSE F[i]]
  <2>3. seqs[n + 1] \in Seq(A)
    BY <2>1
  <2>4. F \in [0 .. n -> Seq(A)] /\ F[0] = <<>>
        /\ \A i \in 1 .. n : F[i] = F[i - 1] \o seqs[i]
    BY <2>2 DEF Joins
  <2>5. F[n] \o seqs[n + 1] \in Seq(A)
    BY <2>0, <2>3, <2>4
  <2>6. H \in [0 .. n + 1 -> Seq(A)]
    BY <2>0, <2>4, <2>5
  <2>7. H[0] = <<>>
    BY <2>0, <2>4
  <2>8. ASSUME NEW i \in 1 .. n + 1 PROVE H[i] = H[i - 1] \o seqs[i]
    <3>1. CASE i = n + 1
      <4>1. i - 1 = n /\ n # n + 1 /\ n \in 0 .. n + 1 /\ i \in 0 .. n + 1
        BY <2>0, <3>1
      <4> QED BY <3>1, <4>1
    <3>2. CASE i # n + 1
      <4>1. i \in 1 .. n /\ i - 1 \in 0 .. n /\ i - 1 # n + 1 /\ i \in 0 .. n + 1
            /\ i - 1 \in 0 .. n + 1
        BY <2>0, <3>2
      <4> QED BY <2>4, <3>2, <4>1
    <3> QED BY <3>1, <3>2
  <2> HIDE DEF H
  <2>9. Joins(H, seqs, A, n + 1)
    BY <2>6, <2>7, <2>8 DEF Joins
  <2> QED BY <2>9
<1>3. S \in SUBSET Nat /\ Len(seqs) \in Nat
  OBVIOUS
<1> HIDE DEF S
<1>4. Len(seqs) \in S
  BY <1>1, <1>2, <1>3, NatSetInduction
<1> QED BY <1>3, <1>4 DEF S

\* FlattenSeq is the last of them.
LEMMA FlattenIsJoin ==
  ASSUME NEW A, NEW seqs \in Seq(Seq(A)), NEW F, Joins(F, seqs, A, Len(seqs))
  PROVE  FlattenSeq(seqs) = F[Len(seqs)]
<1> DEFINE N == Len(seqs)
           Eq(g) == g = [i \in 1 .. Len(seqs) |->
                           IF i = 1 THEN seqs[i] ELSE g[i - 1] \o seqs[i]]
           flatten == CHOOSE g : Eq(g)
           g == [i \in 1 .. N |-> F[i]]
<1>1. /\ N \in Nat /\ F \in [0 .. N -> Seq(A)] /\ F[0] = <<>>
      /\ \A i \in 1 .. N : F[i] = F[i - 1] \o seqs[i]
      /\ \A i \in 1 .. N : seqs[i] \in Seq(A)
  BY DEF Joins
<1>2. N # 0 => F[1] = seqs[1]
  <2> SUFFICES ASSUME N # 0 PROVE F[1] = seqs[1]
    OBVIOUS
  <2>1. 1 \in 1 .. N /\ 1 - 1 = 0
    BY <1>1
  <2>2. F[1] = <<>> \o seqs[1] /\ seqs[1] \in Seq(A)
    BY <1>1, <2>1
  <2> QED BY <2>2
<1>3. CASE N = 0
  <2>1. seqs = <<>>
    BY <1>3
  <2> QED BY <1>1, <1>3, <2>1 DEF FlattenSeq
<1>4. CASE N # 0
  <2>1. FlattenSeq(seqs) = flatten[N]
    BY <1>4 DEF FlattenSeq
  <2>2. Eq(g)
    <3>1. ASSUME NEW i \in 1 .. N
          PROVE  F[i] = IF i = 1 THEN seqs[i] ELSE g[i - 1] \o seqs[i]
      <4>1. CASE i = 1
        BY <1>2, <1>4, <4>1
      <4>2. CASE i # 1
        <5>1. i - 1 \in 1 .. N
          BY <1>1, <4>2
        <5> QED BY <1>1, <4>2, <5>1
      <4> QED BY <4>1, <4>2
    <3> QED BY <3>1
  <2>3. Eq(flatten)
    BY <2>2
  <2> DEFINE S == {n \in Nat : n + 1 <= N => flatten[n + 1] = F[n + 1]}
  <2>4. \A i \in 1 .. N : flatten[i] = IF i = 1 THEN seqs[i] ELSE flatten[i - 1] \o seqs[i]
    BY <2>3
  <2> HIDE DEF flatten
  <2>5. 0 \in S
    <3>1. 1 \in 1 .. N /\ 0 + 1 = 1
      BY <1>1, <1>4
    <3>2. flatten[1] = F[1]
      BY <1>2, <1>4, <2>4, <3>1
    <3> QED BY <3>1, <3>2
  <2>6. ASSUME NEW n \in S PROVE n + 1 \in S
    <3> SUFFICES ASSUME (n + 1) + 1 <= N PROVE flatten[(n + 1) + 1] = F[(n + 1) + 1]
      OBVIOUS
    <3>1. n + 1 <= N /\ (n + 1) + 1 \in 1 .. N /\ (n + 1) + 1 # 1 /\ ((n + 1) + 1) - 1 = n + 1
      BY <1>1
    <3>2. flatten[n + 1] = F[n + 1]
      BY <3>1
    <3> DEFINE j == (n + 1) + 1
    <3>3. j \in 1 .. N /\ j # 1 /\ j - 1 = n + 1
      BY <3>1
    <3> HIDE DEF j
    <3>4. flatten[j] = flatten[n + 1] \o seqs[j] /\ F[j] = F[n + 1] \o seqs[j]
      BY <1>1, <2>4, <3>3
    <3> QED BY <3>2, <3>4 DEF j
  <2>7. S \in SUBSET Nat /\ N - 1 \in Nat /\ (N - 1) + 1 = N
    BY <1>1, <1>4
  <2> HIDE DEF S
  <2>8. N - 1 \in S
    BY <2>5, <2>6, <2>7, NatSetInduction
  <2>9. flatten[N] = F[N]
    BY <1>1, <2>7, <2>8 DEF S
  <2> QED BY <2>1, <2>9
<1> QED BY <1>3, <1>4

\* What a concatenation is made of.
LEMMA Concat ==
  \A s, t \in Seq(Nat) :
    /\ s \o t \in Seq(Nat) /\ Len(s \o t) = Len(s) + Len(t)
    /\ \A i \in 1 .. Len(s) : (s \o t)[i] = s[i]
    /\ \A i \in 1 .. Len(t) : (s \o t)[Len(s) + i] = t[i]
OBVIOUS

\* What a part of a sequence is made of.
LEMMA Part ==
  \A s \in Seq(Nat) : \A m, n \in Nat : m >= 1 /\ m <= n + 1 /\ n <= Len(s) =>
    /\ SubSeq(s, m, n) \in Seq(Nat) /\ Len(SubSeq(s, m, n)) = (n - m) + 1
    /\ \A i \in 1 .. (n - m) + 1 : SubSeq(s, m, n)[i] = s[(m + i) - 1]
OBVIOUS

\* Sequences are equal when they agree place by place.
LEMMA SameSeq ==
  \A s, t \in Seq(Nat) : Len(s) = Len(t) /\ (\A i \in 1 .. Len(s) : s[i] = t[i]) => s = t
OBVIOUS

\* What has been joined stays where it is.
LEMMA JoinsPrefix ==
  ASSUME NEW A, NEW seqs \in Seq(Seq(A)), NEW F, Joins(F, seqs, A, Len(seqs)),
         NEW j \in 0 .. Len(seqs)
  PROVE  /\ Len(F[j]) <= Len(F[Len(seqs)])
         /\ \A i \in 1 .. Len(F[j]) : F[Len(seqs)][i] = F[j][i]
<1> DEFINE N == Len(seqs)
           Fits(d) == /\ Len(F[j]) <= Len(F[j + d])
                      /\ \A i \in 1 .. Len(F[j]) : F[j + d][i] = F[j][i]
           S == {d \in Nat : j + d <= N => Fits(d)}
<1>1. N \in Nat /\ j \in 0 .. N
  OBVIOUS
<1>2. \A i \in 1 .. N : seqs[i] \in Seq(A)
  OBVIOUS
<1>3. /\ F \in [0 .. N -> Seq(A)]
      /\ \A i \in 1 .. N : F[i] = F[i - 1] \o seqs[i]
  BY DEF Joins
<1> HIDE DEF N
<1>4. /\ N \in Nat /\ F \in [0 .. N -> Seq(A)] /\ j \in 0 .. N
      /\ \A i \in 1 .. N : F[i] = F[i - 1] \o seqs[i]
      /\ \A i \in 1 .. N : seqs[i] \in Seq(A)
  BY <1>1, <1>2, <1>3
<1>5. 0 \in S
  <2>1. j + 0 = j /\ F[j] \in Seq(A)
    BY <1>1, <1>3
  <2>2. Fits(0)
    BY <2>1
  <2> QED BY <2>2
<1>6. ASSUME NEW d \in S PROVE d + 1 \in S
  <2> SUFFICES ASSUME j + (d + 1) <= N PROVE Fits(d + 1)
    OBVIOUS
  <2> DEFINE m == j + d
  <2>1. d \in Nat /\ m <= N /\ m \in 0 .. N /\ m + 1 \in 1 .. N /\ (m + 1) - 1 = m
        /\ j + (d + 1) = m + 1
    BY <1>4
  <2>2. Fits(d)
    BY <2>1
  <2>3. /\ Len(F[j]) <= Len(F[m])
        /\ \A i \in 1 .. Len(F[j]) : F[m][i] = F[j][i]
    BY <2>2
  <2> HIDE DEF m, Fits
  <2>4. F[m + 1] = F[m] \o seqs[m + 1] /\ F[m] \in Seq(A) /\ seqs[m + 1] \in Seq(A)
        /\ F[j] \in Seq(A)
    BY <1>4, <2>1
  <2>5. /\ Len(F[m + 1]) = Len(F[m]) + Len(seqs[m + 1])
        /\ \A i \in 1 .. Len(F[m]) : F[m + 1][i] = F[m][i]
    <3> DEFINE s == F[m]
               t == seqs[m + 1]
    <3>1. s \in Seq(A) /\ t \in Seq(A) /\ F[m + 1] = s \o t
      BY <2>4
    <3> HIDE DEF s, t
    <3>2. Len(s \o t) = Len(s) + Len(t) /\ \A i \in 1 .. Len(s) : (s \o t)[i] = s[i]
      BY <3>1
    <3> QED BY <3>1, <3>2 DEF s, t
  <2>6. Len(F[j]) \in Nat /\ Len(F[m]) \in Nat /\ Len(seqs[m + 1]) \in Nat
    BY <2>4
  <2>7. Len(F[j]) <= Len(F[m + 1])
    <3>1. \A x, y, z \in Nat : x <= y => x <= y + z
      OBVIOUS
    <3> QED BY <2>3, <2>5, <2>6, <3>1
  <2>8. \A i \in 1 .. Len(F[j]) : F[m + 1][i] = F[j][i]
    <3> TAKE i \in 1 .. Len(F[j])
    <3>1. i \in 1 .. Len(F[m])
      BY <2>3, <2>6
    <3> QED BY <2>3, <2>5, <3>1
  <2> QED BY <2>1, <2>7, <2>8 DEF Fits
<1>7. S \in SUBSET Nat /\ N - j \in Nat /\ j + (N - j) = N
  BY <1>4
<1> HIDE DEF S, Fits
<1>8. N - j \in S
  BY <1>5, <1>6, <1>7, NatSetInduction
<1>9. Fits(N - j)
  BY <1>4, <1>7, <1>8 DEF S
<1> QED BY <1>7, <1>9 DEF Fits, N

\* The limits, and lengths below the radix.
LEMMA RadixType == Radix \in Nat /\ MaxFieldsCount \in 1 .. Radix - 1
BY CodecAssumption

\* A length that fits its cell is written as it is.
LEMMA Remainder == \A n \in Nat : n < Radix => n % Radix = n
BY RadixType

\* What is written in a cell is a number.
LEMMA RemainderType == \A n \in Nat : n % Radix \in Nat
BY RadixType

\* A text on the wire: one cell with its length, then the text.
LEMMA Serialized ==
  ASSUME NEW s \in Texts
  PROVE  /\ serializeField(s) \in Seq(Nat) /\ Len(serializeField(s)) = Len(s) + 1
         /\ s \in Seq(Nat) /\ Len(s) \in Nat
         /\ \A i \in 1 .. Len(s) : serializeField(s)[1 + i] = s[i]
         /\ Len(s) < Radix => serializeField(s)[1] = Len(s)
<1>1. s \in Seq(Nat) /\ Len(s) \in Nat
  BY RadixType DEF Texts, Cells
<1> DEFINE a == <<Len(s) % Radix>>
<1>2. a \in Seq(Nat) /\ Len(a) = 1 /\ a[1] = Len(s) % Radix
  BY <1>1, RemainderType
<1>3. serializeField(s) = a \o s
  BY DEF serializeField
<1> HIDE DEF a
<1>4. /\ a \o s \in Seq(Nat) /\ Len(a \o s) = Len(a) + Len(s)
      /\ \A i \in 1 .. Len(a) : (a \o s)[i] = a[i]
      /\ \A i \in 1 .. Len(s) : (a \o s)[Len(a) + i] = s[i]
  <2>1. a \in Seq(Nat) /\ s \in Seq(Nat)
    BY <1>1, <1>2
  <2> QED BY <2>1, Concat
<1>5. (a \o s)[1] = a[1]
  BY <1>2, <1>4
<1>6. Len(s) < Radix => a[1] = Len(s)
  BY <1>1, <1>2, Remainder
<1> QED BY <1>1, <1>2, <1>3, <1>4, <1>5, <1>6

\* The texts on the wire, one after the other.
Fields(texts) == [i \in DOMAIN texts |-> serializeField(texts[i])]

\* The cells p of a payload hold the texts from cell 2 on.
Carries(p, texts, F) ==
  /\ p \in Seq(Nat) /\ texts \in Seq(Texts)
  /\ \A i \in 1 .. Len(texts) : Len(texts[i]) < Radix
  /\ Joins(F, Fields(texts), Nat, Len(texts))
  /\ 1 + Len(F[Len(texts)]) <= Len(p)
  /\ \A x \in 1 .. Len(F[Len(texts)]) : p[1 + x] = F[Len(texts)][x]

\* The texts on the wire are sequences of numbers.
LEMMA FieldsType ==
  ASSUME NEW texts \in Seq(Texts)
  PROVE  /\ Fields(texts) \in Seq(Seq(Nat)) /\ Len(Fields(texts)) = Len(texts)
         /\ \A i \in 1 .. Len(texts) : /\ Fields(texts)[i] = serializeField(texts[i])
                                       /\ texts[i] \in Texts
<1>1. DOMAIN texts = 1 .. Len(texts) /\ Len(texts) \in Nat
      /\ \A i \in 1 .. Len(texts) : texts[i] \in Texts
  OBVIOUS
<1>2. \A i \in 1 .. Len(texts) : serializeField(texts[i]) \in Seq(Nat)
  BY <1>1, Serialized
<1>3. Fields(texts) \in [1 .. Len(texts) -> Seq(Nat)]
  BY <1>1, <1>2 DEF Fields
<1>4. \A i \in 1 .. Len(texts) : Fields(texts)[i] = serializeField(texts[i])
  BY <1>1 DEF Fields
<1>5. Fields(texts) \in Seq(Seq(Nat)) /\ Len(Fields(texts)) = Len(texts)
  BY <1>1, <1>3
<1> QED BY <1>1, <1>4, <1>5

\* The cell with the length of the k-th text.
Start(F, k) == 2 + Len(F[k - 1])

\* Each text is where the lengths before it say.
LEMMA Located ==
  ASSUME NEW p, NEW texts, NEW F, Carries(p, texts, F), NEW k \in 1 .. Len(texts)
  PROVE  /\ Start(F, k) \in Nat /\ Start(F, k) <= Len(p)
         /\ p[Start(F, k)] = Len(texts[k])
         /\ Start(F, k) + Len(texts[k]) <= Len(p)
         /\ SubSeq(p, Start(F, k) + 1, Start(F, k) + Len(texts[k])) = texts[k]
         /\ Start(F, k) + Len(texts[k]) + 1 = 2 + Len(F[k])
<1> DEFINE N == Len(texts)
           t == texts[k]
           a == F[k - 1]
           b == serializeField(t)
           L == F[N]
<1>1. /\ p \in Seq(Nat) /\ texts \in Seq(Texts) /\ N \in Nat /\ k \in 1 .. N
      /\ Joins(F, Fields(texts), Nat, N) /\ 1 + Len(L) <= Len(p)
      /\ \A x \in 1 .. Len(L) : p[1 + x] = L[x]
  BY DEF Carries
<1>2. k - 1 \in 0 .. N /\ k \in 0 .. N /\ N \in 0 .. N
  BY <1>1
<1>3. t \in Texts /\ Fields(texts)[k] = b
  BY <1>1, FieldsType
<1>4. Len(t) < Radix
  BY <1>1 DEF Carries
<1>5. a \in Seq(Nat) /\ F[k] \in Seq(Nat) /\ L \in Seq(Nat) /\ F[k] = a \o b
  BY <1>1, <1>2, <1>3 DEF Joins
<1>6. /\ b \in Seq(Nat) /\ Len(b) = Len(t) + 1 /\ Len(t) \in Nat /\ t \in Seq(Nat)
      /\ b[1] = Len(t) /\ \A i \in 1 .. Len(t) : b[1 + i] = t[i]
  BY <1>3, <1>4, Serialized
<1>7. Len(F[k]) <= Len(L) /\ \A i \in 1 .. Len(F[k]) : L[i] = F[k][i]
  <2> DEFINE seqs == Fields(texts)
  <2>1. seqs \in Seq(Seq(Nat)) /\ Len(seqs) = N
    BY <1>1, FieldsType
  <2>2. Joins(F, seqs, Nat, Len(seqs)) /\ k \in 0 .. Len(seqs)
    BY <1>1, <1>2, <2>1
  <2> HIDE DEF seqs, N, t, a, b, L
  <2>3. /\ Len(F[k]) <= Len(F[Len(seqs)])
        /\ \A i \in 1 .. Len(F[k]) : F[Len(seqs)][i] = F[k][i]
    BY <2>1, <2>2, JoinsPrefix
  <2> QED BY <2>1, <2>3 DEF L
<1> HIDE DEF a, b, t, L, N
<1>8. /\ Len(a \o b) = Len(a) + Len(b)
      /\ \A i \in 1 .. Len(b) : (a \o b)[Len(a) + i] = b[i]
  BY <1>5, <1>6, Concat
<1>9. Len(a) \in Nat /\ Len(b) \in Nat /\ Len(L) \in Nat /\ Len(p) \in Nat
      /\ Len(a) + Len(t) + 1 <= Len(L) /\ Len(F[k]) = Len(a) + Len(t) + 1
      /\ 1 + Len(L) <= Len(p) /\ Len(t) \in Nat /\ Len(b) = Len(t) + 1
  <2>1. Len(a) \in Nat /\ Len(b) \in Nat /\ Len(L) \in Nat /\ Len(p) \in Nat
    BY <1>1, <1>5, <1>6
  <2>2. Len(F[k]) = Len(a) + Len(b)
    BY <1>5, <1>8
  <2> QED BY <1>1, <1>6, <1>7, <2>1, <2>2
<1>10. ASSUME NEW i \in 1 .. Len(b) PROVE p[1 + (Len(a) + i)] = b[i]
  <2>1. Len(a) + i \in 1 .. Len(L) /\ Len(a) + i \in 1 .. Len(F[k])
    BY <1>9
  <2>2. p[1 + (Len(a) + i)] = L[Len(a) + i]
    BY <1>1, <2>1
  <2>3. L[Len(a) + i] = F[k][Len(a) + i]
    BY <1>7, <2>1
  <2>4. F[k][Len(a) + i] = b[i]
    BY <1>5, <1>8
  <2> QED BY <2>2, <2>3, <2>4
<1> DEFINE off == 2 + Len(a)
<1>11. off \in Nat /\ off <= Len(p) /\ off + Len(t) <= Len(p)
       /\ off + Len(t) + 1 = 2 + Len(F[k])
  BY <1>9
<1>12. p[off] = Len(t)
  <2>1. 1 \in 1 .. Len(b) /\ 1 + (Len(a) + 1) = off
    BY <1>9
  <2> QED BY <1>6, <1>10, <2>1
<1>13. SubSeq(p, off + 1, off + Len(t)) = t
  <2> DEFINE s == SubSeq(p, off + 1, off + Len(t))
  <2>1. off + 1 \in 1 .. Len(p) + 1 /\ off + Len(t) \in 0 .. Len(p)
        /\ (off + Len(t)) - (off + 1) + 1 = Len(t)
    BY <1>9
  <2>2. /\ s \in Seq(Nat) /\ Len(s) = Len(t)
        /\ \A i \in 1 .. Len(t) : s[i] = p[off + i]
    <3> HIDE DEF off
    <3>1. \A i \in 1 .. Len(t) : ((off + 1) + i) - 1 = off + i
      BY <1>9, <1>11
    <3> DEFINE m == off + 1
               n == off + Len(t)
    <3>2. m \in Nat /\ n \in Nat /\ m >= 1 /\ m <= n + 1 /\ n <= Len(p) /\ (n - m) + 1 = Len(t)
      BY <1>9, <1>11
    <3> HIDE DEF m, n
    <3>3. /\ SubSeq(p, m, n) \in Seq(Nat) /\ Len(SubSeq(p, m, n)) = (n - m) + 1
          /\ \A i \in 1 .. (n - m) + 1 : SubSeq(p, m, n)[i] = p[(m + i) - 1]
      BY <1>1, <3>2, Part
    <3> QED BY <3>1, <3>2, <3>3 DEF m, n
  <2>3. ASSUME NEW i \in 1 .. Len(t) PROVE s[i] = t[i]
    <3>1. 1 + i \in 1 .. Len(b) /\ 1 + (Len(a) + (1 + i)) = off + i
      BY <1>9
    <3>2. p[off + i] = b[1 + i]
      BY <1>10, <3>1
    <3> QED BY <1>6, <2>2, <3>2
  <2> HIDE DEF s
  <2>4. s = t
    BY <1>6, <2>2, <2>3, SameSeq
  <2> QED BY <2>4 DEF s
<1> QED BY <1>11, <1>12, <1>13 DEF a, t, Start

\* The texts read so far, after one more.
LEMMA OneMore ==
  \A s \in Seq(Texts) :
    /\ SubSeq(s, 1, 0) = <<>> /\ SubSeq(s, 1, Len(s)) = s
    /\ \A k \in 1 .. Len(s) : SubSeq(s, 1, k) = Append(SubSeq(s, 1, k - 1), s[k])
<1> TAKE s \in Seq(Texts)
<1>1. SubSeq(s, 1, 0) = <<>> /\ SubSeq(s, 1, Len(s)) = s
  OBVIOUS
<1>2. ASSUME NEW k \in 1 .. Len(s) PROVE SubSeq(s, 1, k) = Append(SubSeq(s, 1, k - 1), s[k])
  OBVIOUS
<1> QED BY <1>1, <1>2

\* Reading the texts from the wire yields the texts.
LEMMA Reader ==
  ASSUME NEW p, NEW texts, NEW F, Carries(p, texts, F)
  PROVE  deserializeFields(p, Len(texts)) =
           [ok |-> TRUE, off |-> 2 + Len(F[Len(texts)]), texts |-> texts]
<1> DEFINE N == Len(texts)
           Upto(k) == [ok |-> TRUE, off |-> 2 + Len(F[k]), texts |-> SubSeq(texts, 1, k)]
           Then(r) == IF r.ok /\ r.off <= Len(p) /\ r.off + p[r.off] <= Len(p)
                      THEN [ok |-> TRUE, off |-> r.off + p[r.off] + 1,
                            texts |-> Append(r.texts,
                                        SubSeq(p, r.off + 1, r.off + p[r.off]))]
                      ELSE [r EXCEPT !.ok = FALSE]
           Eq(g) == g = [k \in 0 .. N |->
                           IF k = 0 THEN [ok |-> TRUE, off |-> 2, texts |-> <<>>]
                           ELSE Then(g[k - 1])]
           Read == CHOOSE g : Eq(g)
           R == [k \in 0 .. N |-> Upto(k)]
<1>1. texts \in Seq(Texts) /\ N \in Nat /\ F[0] = <<>>
  BY DEF Carries, Joins
<1>2. deserializeFields(p, Len(texts)) = Read[N]
  BY DEF deserializeFields
<1>3. Upto(0) = [ok |-> TRUE, off |-> 2, texts |-> <<>>]
  <2>1. Len(F[0]) = 0 /\ 2 + 0 = 2
    BY <1>1
  <2>2. SubSeq(texts, 1, 0) = <<>>
    BY <1>1, OneMore
  <2> QED BY <2>1, <2>2
<1>4. ASSUME NEW k \in 1 .. N PROVE Then(Upto(k - 1)) = Upto(k)
  <2> DEFINE r == Upto(k - 1)
             off == Start(F, k)
  <2>1. /\ off \in Nat /\ off <= Len(p) /\ p[off] = Len(texts[k])
        /\ off + Len(texts[k]) <= Len(p)
        /\ SubSeq(p, off + 1, off + Len(texts[k])) = texts[k]
        /\ off + Len(texts[k]) + 1 = 2 + Len(F[k])
    <3>1. k \in 1 .. Len(texts)
      OBVIOUS
    <3> HIDE DEF N, Upto, Then, Read, R, r
    <3> QED BY <3>1, Located
  <2>2. SubSeq(texts, 1, k) = Append(SubSeq(texts, 1, k - 1), texts[k])
    BY <1>1, OneMore
  <2>3. r.ok = TRUE /\ r.off = off /\ r.texts = SubSeq(texts, 1, k - 1)
    BY DEF Start
  <2> HIDE DEF r, off
  <2>4. Then(r) = [ok |-> TRUE, off |-> r.off + p[r.off] + 1,
                   texts |-> Append(r.texts, SubSeq(p, r.off + 1, r.off + p[r.off]))]
    BY <2>1, <2>3
  <2>5. r.off + p[r.off] + 1 = 2 + Len(F[k])
    BY <2>1, <2>3
  <2>6. Append(r.texts, SubSeq(p, r.off + 1, r.off + p[r.off])) = SubSeq(texts, 1, k)
    BY <2>1, <2>2, <2>3
  <2> QED BY <2>4, <2>5, <2>6 DEF r
<1> HIDE DEF Upto, Then
<1>5. Eq(R)
  <2>1. ASSUME NEW k \in 0 .. N
        PROVE  Upto(k) = IF k = 0 THEN [ok |-> TRUE, off |-> 2, texts |-> <<>>]
                         ELSE Then(R[k - 1])
    <3>1. CASE k = 0
      BY <1>3, <3>1
    <3>2. CASE k # 0
      <4>1. k \in 1 .. N /\ k - 1 \in 0 .. N
        BY <1>1, <3>2
      <4> QED BY <1>4, <3>2, <4>1
    <3> QED BY <3>1, <3>2
  <2> QED BY <2>1
<1>6. Eq(Read)
  BY <1>5
<1>7. /\ Read[0] = Upto(0)
      /\ \A k \in 1 .. N : Read[k] = Then(Read[k - 1])
  <2>1. \A k \in 0 .. N : Read[k] = IF k = 0 THEN [ok |-> TRUE, off |-> 2, texts |-> <<>>]
                                    ELSE Then(Read[k - 1])
    BY <1>6
  <2> HIDE DEF Read
  <2>2. 0 \in 0 .. N /\ \A k \in 1 .. N : k \in 0 .. N /\ k # 0
    BY <1>1
  <2> QED BY <1>3, <2>1, <2>2
<1> HIDE DEF Read
<1> DEFINE S == {k \in Nat : k <= N => Read[k] = Upto(k)}
<1>8. 0 \in S
  BY <1>7
<1>9. ASSUME NEW k \in S PROVE k + 1 \in S
  <2> SUFFICES ASSUME k + 1 <= N PROVE Read[k + 1] = Upto(k + 1)
    OBVIOUS
  <2>1. k \in Nat /\ k <= N /\ k + 1 \in 1 .. N /\ (k + 1) - 1 = k
    BY <1>1
  <2>2. Read[k] = Upto(k)
    BY <2>1
  <2>3. Read[k + 1] = Then(Read[k]) /\ Then(Upto(k)) = Upto(k + 1)
    BY <1>4, <1>7, <2>1
  <2> QED BY <2>2, <2>3
<1>10. S \in SUBSET Nat
  OBVIOUS
<1> HIDE DEF S
<1>11. N \in S
  BY <1>1, <1>8, <1>9, <1>10, NatSetInduction
<1>12. Read[N] = Upto(N)
  BY <1>1, <1>11 DEF S
<1> QED BY <1>1, <1>2, <1>12, OneMore DEF Upto


\* An order of a map's keys has each of them, and each once.
LEMMA OrderOfKeys ==
  ASSUME NEW D, IsFiniteSet(D), NEW order \in SetToSeqs(D)
  PROVE  /\ order \in Seq(D) /\ Len(order) = Cardinality(D) /\ Cardinality(D) \in Nat
         /\ \A i, j \in 1 .. Len(order) : order[i] = order[j] => i = j
         /\ \A k \in D : \E i \in 1 .. Len(order) : order[i] = k
<1> DEFINE n == Cardinality(D)
<1>1. n \in Nat
  BY FS_CardinalityType
<1>2. order \in [1 .. n -> D] /\ \A i, j \in 1 .. n : i # j => order[i] # order[j]
  BY DEF SetToSeqs
<1>3. order \in Seq(D) /\ Len(order) = n
  BY <1>1, <1>2
<1>4. IsFiniteSet(1 .. n) /\ Cardinality(1 .. n) = n
  BY <1>1, FS_Interval
<1> HIDE DEF n
<1>5. order \in Injection(1 .. n, D)
  BY <1>2 DEF Injection, IsInjective
<1>6. order \in Surjection(1 .. n, D)
  BY <1>4, <1>5, FS_Injection DEF n
<1>7. \A k \in D : \E i \in 1 .. n : order[i] = k
  BY <1>6 DEF Surjection
<1> QED BY <1>1, <1>2, <1>3, <1>7 DEF n

\* What a concatenation of texts is made of.
LEMMA ConcatTexts ==
  \A s, t \in Seq(Texts) :
    /\ s \o t \in Seq(Texts) /\ Len(s \o t) = Len(s) + Len(t)
    /\ \A i \in 1 .. Len(s) : (s \o t)[i] = s[i]
    /\ \A i \in 1 .. Len(t) : (s \o t)[Len(s) + i] = t[i]
OBVIOUS

\* The keys and the values of a map, in some order.
Pairs(fields, order) == [i \in DOMAIN order |-> <<order[i], fields[order[i]]>>]

\* Flattened, keys stand at the odd places and their values at the even ones.
LEMMA KeysAndValues ==
  ASSUME NEW D \in SUBSET Texts, NEW fields \in [D -> Texts], NEW order \in Seq(D)
  PROVE  /\ FlattenSeq(Pairs(fields, order)) \in Seq(Texts)
         /\ Len(FlattenSeq(Pairs(fields, order))) = 2 * Len(order)
         /\ \A i \in 1 .. Len(order) :
              /\ FlattenSeq(Pairs(fields, order))[2 * i - 1] = order[i]
              /\ FlattenSeq(Pairs(fields, order))[2 * i] = fields[order[i]]
<1> DEFINE m == Len(order)
           seqs == Pairs(fields, order)
<1>1. m \in Nat /\ DOMAIN order = 1 .. m /\ \A i \in 1 .. m : order[i] \in D
  OBVIOUS
<1>2. \A i \in 1 .. m : order[i] \in Texts /\ fields[order[i]] \in Texts
  BY <1>1
<1>3. \A i \in 1 .. m : seqs[i] = <<order[i], fields[order[i]]>>
  BY <1>1 DEF Pairs
<1>4. \A i \in 1 .. m : seqs[i] \in Seq(Texts)
  <2>1. \A a, b \in Texts : <<a, b>> \in Seq(Texts)
    OBVIOUS
  <2> HIDE DEF seqs, m
  <2> QED BY <1>2, <1>3, <2>1
<1>5. seqs = [i \in 1 .. m |-> <<order[i], fields[order[i]]>>]
  BY <1>1 DEF Pairs
<1>6. seqs \in [1 .. m -> Seq(Texts)]
  BY <1>3, <1>4, <1>5
<1> HIDE DEF m, seqs
<1>7. seqs \in Seq(Seq(Texts)) /\ Len(seqs) = m
  BY <1>1, <1>6
<1>8. PICK G : Joins(G, seqs, Texts, m)
  BY <1>7, JoinsExist
<1>9. FlattenSeq(seqs) = G[m]
  BY <1>7, <1>8, FlattenIsJoin
<1>10. /\ G \in [0 .. m -> Seq(Texts)] /\ G[0] = <<>>
       /\ \A i \in 1 .. m : G[i] = G[i - 1] \o seqs[i]
  BY <1>8 DEF Joins
<1> DEFINE Fits(n) == /\ Len(G[n]) = 2 * n
                      /\ \A i \in 1 .. n : /\ G[n][2 * i - 1] = order[i]
                                           /\ G[n][2 * i] = fields[order[i]]
           S == {n \in Nat : n <= m => Fits(n)}
<1>11. 0 \in S
  BY <1>10
<1>12. ASSUME NEW n \in S PROVE n + 1 \in S
  <2> SUFFICES ASSUME n + 1 <= m PROVE Fits(n + 1)
    OBVIOUS
  <2>1. n \in Nat /\ n <= m /\ n \in 0 .. m /\ n + 1 \in 1 .. m /\ (n + 1) - 1 = n
    BY <1>1
  <2>2. Len(G[n]) = 2 * n /\ \A i \in 1 .. n : /\ G[n][2 * i - 1] = order[i]
                                               /\ G[n][2 * i] = fields[order[i]]
    BY <2>1
  <2> HIDE DEF S
  <2> DEFINE s == G[n]
             t == seqs[n + 1]
  <2>3. s \in Seq(Texts) /\ t \in Seq(Texts) /\ G[n + 1] = s \o t
    BY <1>4, <1>10, <2>1
  <2>4. t = <<order[n + 1], fields[order[n + 1]]>>
    BY <1>3, <2>1
  <2>5. Len(t) = 2 /\ t[1] = order[n + 1] /\ t[2] = fields[order[n + 1]]
    BY <2>4
  <2>6. /\ Len(s) = 2 * n
        /\ \A i \in 1 .. n : s[2 * i - 1] = order[i] /\ s[2 * i] = fields[order[i]]
    BY <2>2
  <2> HIDE DEF s, t, Fits
  <2>7. /\ Len(s \o t) = Len(s) + Len(t)
        /\ \A i \in 1 .. Len(s) : (s \o t)[i] = s[i]
        /\ \A i \in 1 .. Len(t) : (s \o t)[Len(s) + i] = t[i]
    BY <2>3, ConcatTexts
  <2>8. Len(s \o t) = 2 * (n + 1)
    BY <2>1, <2>5, <2>6, <2>7
  <2>9. ASSUME NEW i \in 1 .. n + 1
        PROVE  (s \o t)[2 * i - 1] = order[i] /\ (s \o t)[2 * i] = fields[order[i]]
    <3>1. CASE i = n + 1
      <4>1. /\ 2 * i - 1 = Len(s) + 1 /\ 2 * i = Len(s) + 2
            /\ 1 \in 1 .. Len(t) /\ 2 \in 1 .. Len(t)
        BY <2>1, <2>5, <2>6, <3>1
      <4>2. (s \o t)[Len(s) + 1] = t[1] /\ (s \o t)[Len(s) + 2] = t[2]
        BY <2>7, <4>1
      <4> QED BY <2>5, <3>1, <4>1, <4>2
    <3>2. CASE i # n + 1
      <4>1. i \in 1 .. n /\ 2 * i - 1 \in 1 .. Len(s) /\ 2 * i \in 1 .. Len(s)
        BY <2>1, <2>6, <3>2
      <4> QED BY <2>6, <2>7, <4>1
    <3> QED BY <3>1, <3>2
  <2> QED BY <2>3, <2>8, <2>9 DEF Fits
<1>13. S \in SUBSET Nat
  OBVIOUS
<1> HIDE DEF S, Fits
<1>14. m \in S
  BY <1>1, <1>11, <1>12, <1>13, NatSetInduction
<1>15. Fits(m) /\ G[m] \in Seq(Texts)
  BY <1>1, <1>10, <1>14 DEF S
<1> QED BY <1>9, <1>15 DEF Fits, m, seqs

\* The map that is built from them is the map they come from.
LEMMA SameMap ==
  ASSUME NEW D \in SUBSET Texts, IsFiniteSet(D), NEW fields \in [D -> Texts],
         NEW order \in SetToSeqs(D)
  PROVE  FieldMap(FlattenSeq(Pairs(fields, order))) = fields
<1> DEFINE g == FlattenSeq(Pairs(fields, order))
           m == Len(order)
           P == 1 .. Len(g) \div 2
<1>1. /\ order \in Seq(D) /\ m \in Nat
      /\ \A i, j \in 1 .. m : order[i] = order[j] => i = j
      /\ \A k \in D : \E i \in 1 .. m : order[i] = k
  BY OrderOfKeys
<1>2. /\ Len(g) = 2 * m
      /\ \A i \in 1 .. m : g[2 * i - 1] = order[i] /\ g[2 * i] = fields[order[i]]
  <2> HIDE DEF P
  <2>1. order \in Seq(D)
    BY <1>1
  <2> QED BY <2>1, KeysAndValues
<1>3. FieldMap(g) = [k \in {g[2 * i - 1] : i \in P} |->
                       g[2 * Max({i \in P : g[2 * i - 1] = k})]]
  BY DEF FieldMap
<1> HIDE DEF g, m
<1>4. P = 1 .. m
  <2>1. (2 * m) \div 2 = m
    BY <1>1
  <2> QED BY <1>2, <2>1
<1>5. \A i \in 1 .. m : order[i] \in D
  BY <1>1 DEF m
<1>6. {g[2 * i - 1] : i \in P} = D
  <2>1. ASSUME NEW i \in P PROVE g[2 * i - 1] \in D
    <3>1. i \in 1 .. m
      BY <1>4
    <3> QED BY <1>2, <1>5, <3>1
  <2>2. ASSUME NEW k \in D PROVE \E i \in P : k = g[2 * i - 1]
    <3>1. PICK i \in 1 .. m : order[i] = k
      BY <1>1
    <3>2. i \in P /\ g[2 * i - 1] = k
      BY <1>2, <1>4, <3>1
    <3> QED BY <3>2
  <2> HIDE DEF P
  <2> QED BY <2>1, <2>2
<1>7. ASSUME NEW k \in D PROVE g[2 * Max({i \in P : g[2 * i - 1] = k})] = fields[k]
  <2>1. PICK j \in 1 .. m : order[j] = k
    BY <1>1
  <2>2. {i \in P : g[2 * i - 1] = k} = {j}
    <3>1. j \in P /\ g[2 * j - 1] = k
      BY <1>2, <1>4, <2>1
    <3>2. ASSUME NEW i \in P, g[2 * i - 1] = k PROVE i = j
      <4>1. i \in 1 .. m
        BY <1>4
      <4>2. order[i] = order[j]
        BY <1>2, <2>1, <3>2, <4>1
      <4> QED BY <1>1, <2>1, <4>1, <4>2
    <3> HIDE DEF P
    <3> QED BY <3>1, <3>2
  <2>3. Max({j}) = j
    BY <2>1 DEF Max
  <2> QED BY <1>2, <2>1, <2>2, <2>3
<1>8. FieldMap(g) = [k \in D |-> fields[k]]
  BY <1>3, <1>6, <1>7
<1> QED BY <1>8 DEF g

\* The texts of a query in the order in which Encode writes them.
QueryTexts(q, order) ==
  <<q.operation, q.namespace, q.entryID, q.category, q.title>>
    \o FlattenSeq(Pairs(q.fields, order))

\* What follows the first part.
LEMMA PartOfTexts ==
  \A s, t \in Seq(Texts) : SubSeq(s \o t, Len(s) + 1, Len(s \o t)) = t
OBVIOUS

\* Its five texts, and behind them the map, are what the wire has to carry.
LEMMA TextsOfQuery ==
  ASSUME NEW q, IsGQLQuery(q), NEW order \in SetToSeqs(DOMAIN q.fields)
  PROVE  LET t == QueryTexts(q, order)
         IN /\ t \in Seq(Texts) /\ Len(order) \in Nat /\ Len(t) = 5 + 2 * Len(order)
            /\ Len(order) = Cardinality(DOMAIN q.fields)
            /\ t[1] = q.operation /\ t[2] = q.namespace /\ t[3] = q.entryID
            /\ t[4] = q.category /\ t[5] = q.title
            /\ FieldMap(SubSeq(t, 6, Len(t))) = q.fields
            /\ \A x \in 1 .. Len(t) :
                 t[x] \in {q.operation, q.namespace, q.entryID, q.category, q.title}
                            \cup DOMAIN q.fields \cup {q.fields[k] : k \in DOMAIN q.fields}
<1> DEFINE D == DOMAIN q.fields
           s == <<q.operation, q.namespace, q.entryID, q.category, q.title>>
           g == FlattenSeq(Pairs(q.fields, order))
           t == QueryTexts(q, order)
           m == Len(order)
<1>1. /\ q.operation \in Texts /\ q.namespace \in Texts /\ q.entryID \in Texts
      /\ q.category \in Texts /\ q.title \in Texts
      /\ q.fields \in [D -> Texts] /\ IsFiniteSet(D) /\ D \in SUBSET Texts
  BY DEF IsGQLQuery
<1>2. /\ order \in Seq(D) /\ m = Cardinality(D) /\ m \in Nat
  BY <1>1, OrderOfKeys
<1>3. /\ g \in Seq(Texts) /\ Len(g) = 2 * m
      /\ \A i \in 1 .. m : g[2 * i - 1] = order[i] /\ g[2 * i] = q.fields[order[i]]
  <2> HIDE DEF D, s, t
  <2> QED BY <1>1, <1>2, KeysAndValues
<1>4. FieldMap(g) = q.fields
  <2> HIDE DEF s, t
  <2> QED BY <1>1, SameMap
<1>5. s \in Seq(Texts) /\ Len(s) = 5 /\ s[1] = q.operation /\ s[2] = q.namespace
      /\ s[3] = q.entryID /\ s[4] = q.category /\ s[5] = q.title
  BY <1>1
<1>6. t = s \o g
  BY DEF QueryTexts
<1>7. \A i \in 1 .. m : order[i] \in D
  BY <1>2
<1> HIDE DEF s, g, t, m, D
<1>8. /\ t \in Seq(Texts) /\ Len(t) = Len(s) + Len(g)
      /\ \A i \in 1 .. Len(s) : t[i] = s[i]
      /\ \A i \in 1 .. Len(g) : t[Len(s) + i] = g[i]
  BY <1>3, <1>5, <1>6, ConcatTexts
<1>9. SubSeq(t, 6, Len(t)) = g
  <2>1. SubSeq(s \o g, Len(s) + 1, Len(s \o g)) = g
    BY <1>3, <1>5, PartOfTexts
  <2> QED BY <1>5, <1>6, <2>1
<1>10. /\ t[1] = q.operation /\ t[2] = q.namespace /\ t[3] = q.entryID
       /\ t[4] = q.category /\ t[5] = q.title
  BY <1>5, <1>8
<1>11. ASSUME NEW x \in 1 .. Len(t)
       PROVE  t[x] \in {q.operation, q.namespace, q.entryID, q.category, q.title}
                         \cup D \cup {q.fields[k] : k \in D}
  <2>1. CASE x \in 1 .. 5
    <3>1. x = 1 \/ x = 2 \/ x = 3 \/ x = 4 \/ x = 5
      BY <2>1
    <3> QED BY <1>10, <3>1
  <2>2. CASE x \notin 1 .. 5
    <3> DEFINE y == x - 5
    <3>1. y \in 1 .. 2 * m /\ x = 5 + y
      BY <1>2, <1>3, <1>5, <1>8, <2>2
    <3> HIDE DEF y
    <3>2. t[x] = g[y]
      BY <1>3, <1>5, <1>8, <3>1
    <3>3. \E i \in 1 .. m : y = 2 * i - 1 \/ y = 2 * i
      <4>1. CASE y % 2 = 0
        <5>1. y \div 2 \in 1 .. m /\ y = 2 * (y \div 2)
          BY <1>2, <3>1, <4>1
        <5> QED BY <5>1
      <4>2. CASE y % 2 # 0
        <5>1. (y + 1) \div 2 \in 1 .. m /\ y = 2 * ((y + 1) \div 2) - 1
          BY <1>2, <3>1, <4>2
        <5> QED BY <5>1
      <4> QED BY <4>1, <4>2
    <3>4. PICK i \in 1 .. m : y = 2 * i - 1 \/ y = 2 * i
      BY <3>3
    <3>5. g[y] = order[i] \/ g[y] = q.fields[order[i]]
      BY <1>3, <3>4
    <3> QED BY <1>7, <3>2, <3>5
  <2> QED BY <2>1, <2>2
<1>12. Len(t) = 5 + 2 * m
  BY <1>3, <1>5, <1>8
<1> QED BY <1>2, <1>4, <1>8, <1>9, <1>10, <1>11, <1>12 DEF t, m, D

\* Cells p consist of one cell, the sequence b, two cells, and the sequence d.
Consists(p, a, b, c, d) ==
  /\ p \in Seq(Nat) /\ Len(p) = Len(b) + Len(d) + 3
  /\ p[1] = a[1]
  /\ \A x \in 1 .. Len(b) : p[1 + x] = b[x]
  /\ p[2 + Len(b)] = c[1] /\ p[3 + Len(b)] = c[2]
  /\ \A x \in 1 .. Len(d) : p[(3 + Len(b)) + x] = d[x]

\* A concatenation of four such parts does.
LEMMA FourParts ==
  ASSUME NEW a \in Seq(Nat), NEW b \in Seq(Nat), NEW c \in Seq(Nat), NEW d \in Seq(Nat),
         Len(a) = 1, Len(c) = 2
  PROVE  Consists(((a \o b) \o c) \o d, a, b, c, d)
<1> DEFINE ab == a \o b
           abc == ab \o c
           p == abc \o d
<1>1. /\ ab \in Seq(Nat) /\ Len(ab) = Len(a) + Len(b)
      /\ \A i \in 1 .. Len(a) : ab[i] = a[i]
      /\ \A i \in 1 .. Len(b) : ab[Len(a) + i] = b[i]
  BY Concat
<1> HIDE DEF ab
<1>2. /\ abc \in Seq(Nat) /\ Len(abc) = Len(ab) + Len(c)
      /\ \A i \in 1 .. Len(ab) : abc[i] = ab[i]
      /\ \A i \in 1 .. Len(c) : abc[Len(ab) + i] = c[i]
  BY <1>1, Concat
<1> HIDE DEF abc
<1>3. /\ p \in Seq(Nat) /\ Len(p) = Len(abc) + Len(d)
      /\ \A i \in 1 .. Len(abc) : p[i] = abc[i]
      /\ \A i \in 1 .. Len(d) : p[Len(abc) + i] = d[i]
  BY <1>2, Concat
<1> HIDE DEF p
<1>4. Len(ab) = Len(a) + Len(b) /\ Len(abc) = Len(ab) + Len(c) /\ Len(p) = Len(abc) + Len(d)
      /\ Len(b) \in Nat /\ Len(d) \in Nat
  <2>1. Len(b) \in Nat /\ Len(d) \in Nat
    OBVIOUS
  <2>2. Len(ab) = Len(a) + Len(b)
    BY <1>1
  <2>3. Len(abc) = Len(ab) + Len(c)
    BY <1>2
  <2>4. Len(p) = Len(abc) + Len(d)
    BY <1>3
  <2> QED BY <2>1, <2>2, <2>3, <2>4
<1>5. Len(b) \in Nat /\ Len(d) \in Nat /\ Len(ab) = 1 + Len(b) /\ Len(abc) = 3 + Len(b)
      /\ Len(p) = Len(b) + Len(d) + 3
  BY <1>4
<1>6. p[1] = a[1]
  <2>1. 1 \in 1 .. Len(a) /\ 1 \in 1 .. Len(ab) /\ 1 \in 1 .. Len(abc)
    BY <1>5
  <2> QED BY <1>1, <1>2, <1>3, <2>1
<1>7. ASSUME NEW x \in 1 .. Len(b) PROVE p[1 + x] = b[x]
  <2>1. 1 + x \in 1 .. Len(ab) /\ 1 + x \in 1 .. Len(abc)
    BY <1>5
  <2>2. ab[1 + x] = b[x]
    BY <1>1
  <2> QED BY <1>2, <1>3, <2>1, <2>2
<1>8. p[2 + Len(b)] = c[1] /\ p[3 + Len(b)] = c[2]
  <2>1. /\ 2 + Len(b) = Len(ab) + 1 /\ 3 + Len(b) = Len(ab) + 2
        /\ 2 + Len(b) \in 1 .. Len(abc) /\ 3 + Len(b) \in 1 .. Len(abc)
        /\ 1 \in 1 .. Len(c) /\ 2 \in 1 .. Len(c)
    BY <1>5
  <2>2. abc[Len(ab) + 1] = c[1] /\ abc[Len(ab) + 2] = c[2]
    BY <1>2, <2>1
  <2>3. p[2 + Len(b)] = abc[2 + Len(b)] /\ p[3 + Len(b)] = abc[3 + Len(b)]
    BY <1>3, <2>1
  <2> QED BY <2>1, <2>2, <2>3
<1>9. ASSUME NEW x \in 1 .. Len(d) PROVE p[(3 + Len(b)) + x] = d[x]
  BY <1>3, <1>5
<1>10. Consists(p, a, b, c, d)
  BY <1>3, <1>5, <1>6, <1>7, <1>8, <1>9 DEF Consists
<1> QED BY <1>10 DEF p, abc, ab

\* The payload: the field count, the texts, two numbers, the credentials.
LEMMA Layout ==
  ASSUME NEW q, IsGQLQuery(q), NEW order \in SetToSeqs(DOMAIN q.fields), NEW L \in Seq(Nat),
         FlattenSeq(Fields(QueryTexts(q, order))) = L
  PROVE  /\ Encode(q, order) \in Seq(Nat) /\ Len(L) \in Nat
         /\ Len(q.credentials) \in Nat
         /\ Len(Encode(q, order)) = Len(L) + Len(q.credentials) + 4
         /\ Encode(q, order)[1] = FieldCount(Len(order))
         /\ \A x \in 1 .. Len(L) : Encode(q, order)[1 + x] = L[x]
         /\ Encode(q, order)[2 + Len(L)] = q.limit
         /\ Encode(q, order)[3 + Len(L)] = q.offset
         /\ \A x \in 1 .. Len(q.credentials) + 1 :
              Encode(q, order)[(3 + Len(L)) + x] = serializeField(q.credentials)[x]
<1> DEFINE p == Encode(q, order)
           a == <<FieldCount(Len(order))>>
           c == <<q.limit, q.offset>>
           d == serializeField(q.credentials)
<1>1. Len(order) \in Nat /\ Len(L) \in Nat
  BY TextsOfQuery
<1>2. p = ((a \o L) \o c) \o d
  BY DEF Encode, QueryTexts, Pairs, Fields
<1>3. a \in Seq(Nat) /\ Len(a) = 1 /\ a[1] = FieldCount(Len(order))
  <2>1. FieldCount(Len(order)) \in Nat
    BY <1>1, RadixType, RemainderType DEF FieldCount
  <2> QED BY <2>1
<1>4. q.limit \in Nat /\ q.offset \in Nat /\ q.credentials \in Texts
  BY RadixType DEF IsGQLQuery, Cells
<1>5. c \in Seq(Nat) /\ Len(c) = 2 /\ c[1] = q.limit /\ c[2] = q.offset
  BY <1>4
<1>6. d \in Seq(Nat) /\ Len(d) = Len(q.credentials) + 1 /\ Len(q.credentials) \in Nat
  BY <1>4, Serialized
<1> HIDE DEF a, c, d, p
<1>7. /\ p \in Seq(Nat) /\ Len(p) = Len(L) + Len(d) + 3 /\ p[1] = a[1]
      /\ \A x \in 1 .. Len(L) : p[1 + x] = L[x]
      /\ p[2 + Len(L)] = c[1] /\ p[3 + Len(L)] = c[2]
      /\ \A x \in 1 .. Len(d) : p[(3 + Len(L)) + x] = d[x]
  <2>1. a \in Seq(Nat) /\ c \in Seq(Nat) /\ d \in Seq(Nat) /\ Len(a) = 1 /\ Len(c) = 2
    BY <1>3, <1>5, <1>6
  <2>2. Consists(((a \o L) \o c) \o d, a, L, c, d)
    BY <2>1, FourParts
  <2>3. Consists(p, a, L, c, d)
    BY <1>2, <2>2
  <2> QED BY <2>3 DEF Consists
<1>8. Len(p) = Len(L) + Len(q.credentials) + 4
  BY <1>1, <1>6, <1>7
<1> QED BY <1>1, <1>3, <1>5, <1>6, <1>7, <1>8 DEF p, d

\* DecodeQuery inverts Encode for every query that the format can carry, whatever
\* the order in which the map yields its fields.
LEMMA RoundTrip ==
  ASSUME NEW q, IsGQLQuery(q), Encodable(q), NEW order \in SetToSeqs(DOMAIN q.fields)
  PROVE  DecodeQuery(Encode(q, order)) = q
<1> DEFINE p == Encode(q, order)
           t == QueryTexts(q, order)
           n == Len(t)
           m == Len(order)
<1>1. /\ t \in Seq(Texts) /\ m \in Nat /\ n = 5 + 2 * m /\ m = Cardinality(DOMAIN q.fields)
      /\ t[1] = q.operation /\ t[2] = q.namespace /\ t[3] = q.entryID
      /\ t[4] = q.category /\ t[5] = q.title
      /\ FieldMap(SubSeq(t, 6, Len(t))) = q.fields
      /\ \A x \in 1 .. n :
           t[x] \in {q.operation, q.namespace, q.entryID, q.category, q.title}
                      \cup DOMAIN q.fields \cup {q.fields[k] : k \in DOMAIN q.fields}
  BY TextsOfQuery
<1>2. m <= MaxFieldsCount /\ FieldCount(m) = m
  <2>1. m <= MaxFieldsCount
    BY <1>1 DEF Encodable
  <2>2. m < Radix /\ MaxFieldsCount \in Nat
    BY <1>1, <2>1, RadixType
  <2>3. m % Radix = m
    BY <1>1, <2>2, Remainder
  <2> QED BY <1>1, <2>1, <2>2, <2>3 DEF FieldCount
<1>3. \A x \in 1 .. n : Len(t[x]) < Radix
  <2> HIDE DEF t, n, m, p
  <2> QED BY <1>1 DEF Encodable
<1>4. Len(q.credentials) < Radix /\ q.credentials \in Texts
  BY DEF Encodable, IsGQLQuery
<1>5. Fields(t) \in Seq(Seq(Nat)) /\ Len(Fields(t)) = n
  BY <1>1, FieldsType
<1>6. PICK F : Joins(F, Fields(t), Nat, n)
  <2> HIDE DEF t, n
  <2> QED BY <1>5, JoinsExist
<1> DEFINE L == F[n]
           off == 2 + Len(L)
<1>7. /\ p \in Seq(Nat) /\ L \in Seq(Nat) /\ Len(L) \in Nat
      /\ Len(q.credentials) \in Nat
      /\ Len(p) = Len(L) + Len(q.credentials) + 4
      /\ p[1] = m
      /\ \A x \in 1 .. Len(L) : p[1 + x] = L[x]
      /\ p[2 + Len(L)] = q.limit /\ p[3 + Len(L)] = q.offset
      /\ \A x \in 1 .. Len(q.credentials) + 1 :
           p[(3 + Len(L)) + x] = serializeField(q.credentials)[x]
  <2>1. FlattenSeq(Fields(t)) = L /\ L \in Seq(Nat)
    <3> HIDE DEF t, p
    <3>1. n \in Nat /\ F \in [0 .. n -> Seq(Nat)]
      BY <1>1, <1>6 DEF Joins
    <3>2. L \in Seq(Nat)
      BY <3>1
    <3> HIDE DEF n
    <3> QED BY <1>5, <1>6, <3>2, FlattenIsJoin
  <2>2. FlattenSeq(Fields(QueryTexts(q, order))) = L
    BY <2>1
  <2> HIDE DEF L, p, t, m, n
  <2>3. /\ Encode(q, order) \in Seq(Nat) /\ Len(L) \in Nat
        /\ Len(q.credentials) \in Nat
        /\ Len(Encode(q, order)) = Len(L) + Len(q.credentials) + 4
        /\ Encode(q, order)[1] = FieldCount(Len(order))
        /\ \A x \in 1 .. Len(L) : Encode(q, order)[1 + x] = L[x]
        /\ Encode(q, order)[2 + Len(L)] = q.limit
        /\ Encode(q, order)[3 + Len(L)] = q.offset
        /\ \A x \in 1 .. Len(q.credentials) + 1 :
             Encode(q, order)[(3 + Len(L)) + x] = serializeField(q.credentials)[x]
    BY <2>1, <2>2, Layout
  <2> QED BY <1>2, <2>1, <2>3 DEF p, m
<1> HIDE DEF p, t, n, m, L
<1>8. Len(L) \in Nat /\ Len(q.credentials) \in Nat
      /\ Len(p) = Len(L) + Len(q.credentials) + 4
  BY <1>7
<1>9. Carries(p, t, F)
  <2>1. 1 + Len(L) <= Len(p)
    BY <1>8
  <2> QED BY <1>1, <1>3, <1>6, <1>7, <2>1 DEF Carries, L, n
<1>10. deserializeFields(p, 5 + 2 * p[1]) = [ok |-> TRUE, off |-> off, texts |-> t]
  <2>1. deserializeFields(p, Len(t)) = [ok |-> TRUE, off |-> 2 + Len(F[Len(t)]), texts |-> t]
    BY <1>9, Reader
  <2>2. 5 + 2 * p[1] = Len(t)
    BY <1>1, <1>7 DEF n
  <2> QED BY <2>1, <2>2 DEF L, n
<1>11. p # <<>> /\ ~ (p[1] > MaxFieldsCount)
  <2>1. Len(p) # 0
    BY <1>7
  <2>2. MaxFieldsCount \in Nat
    BY RadixType
  <2> QED BY <1>1, <1>2, <1>7, <2>1, <2>2
<1> DEFINE c == q.credentials
           e == serializeField(c)
<1>12. /\ e[1] = Len(c) /\ c \in Seq(Nat)
       /\ \A x \in 1 .. Len(c) : e[1 + x] = c[x]
  BY <1>4, Serialized
<1>13. /\ off + 1 <= Len(p) /\ off + 2 <= Len(p) /\ p[off + 2] = Len(c)
       /\ (off + 2) + Len(c) = Len(p) /\ off \in Nat
  <2>1. /\ off + 1 <= Len(p) /\ off + 2 <= Len(p) /\ (off + 2) + Len(c) = Len(p)
        /\ off \in Nat /\ 1 \in 1 .. Len(c) + 1 /\ off + 2 = (3 + Len(L)) + 1
    <3> DEFINE x == Len(L)
               y == Len(c)
               z == Len(p)
    <3>1. x \in Nat /\ y \in Nat /\ z = x + y + 4 /\ off = 2 + x
      BY <1>8
    <3> HIDE DEF x, y, z, off
    <3>2. /\ off + 1 <= z /\ off + 2 <= z /\ (off + 2) + y = z
          /\ off \in Nat /\ 1 \in 1 .. y + 1 /\ off + 2 = (3 + x) + 1
      BY <3>1
    <3> QED BY <3>2 DEF x, y, z
  <2>2. p[(3 + Len(L)) + 1] = e[1]
    BY <1>7, <2>1
  <2> QED BY <1>12, <2>1, <2>2
<1>14. ASSUME NEW x \in 1 .. Len(c) PROVE p[(off + 2) + x] = c[x]
  <2>1. 1 + x \in 1 .. Len(c) + 1 /\ (off + 2) + x = (3 + Len(L)) + (1 + x)
    BY <1>8
  <2>2. p[(3 + Len(L)) + (1 + x)] = e[1 + x]
    BY <1>7, <2>1
  <2> QED BY <1>12, <2>1, <2>2
<1> HIDE DEF e
<1>15. Credentials(p, off + 2) = c
  <2> DEFINE j == (off + 2) + 1
             k == (off + 2) + Len(c)
             s == SubSeq(p, j, k)
  <2>1. Credentials(p, off + 2) = s
    <3>1. ~ (off + 2 > Len(p))
      BY <1>8, <1>13
    <3> QED BY <1>13, <3>1 DEF Credentials
  <2>2. /\ j \in Nat /\ k \in Nat /\ j >= 1 /\ j <= k + 1 /\ k <= Len(p)
        /\ (k - j) + 1 = Len(c) /\ \A x \in 1 .. Len(c) : (j + x) - 1 = (off + 2) + x
    <3> DEFINE y == Len(c)
    <3>1. off \in Nat /\ y \in Nat /\ (off + 2) + y = Len(p)
      BY <1>8, <1>13
    <3> HIDE DEF off, c, y
    <3>2. /\ j \in Nat /\ (off + 2) + y \in Nat /\ j >= 1 /\ j <= ((off + 2) + y) + 1
          /\ (((off + 2) + y) - j) + 1 = y
          /\ \A x \in 1 .. y : (j + x) - 1 = (off + 2) + x
      BY <3>1
    <3>3. (off + 2) + y <= Len(p)
      BY <3>1
    <3> QED BY <3>2, <3>3 DEF y
  <2> HIDE DEF j, k, off, c
  <2>3. /\ s \in Seq(Nat) /\ Len(s) = (k - j) + 1
        /\ \A i \in 1 .. (k - j) + 1 : s[i] = p[(j + i) - 1]
    BY <1>7, <2>2, Part
  <2>4. \A x \in 1 .. Len(c) : s[x] = c[x]
    BY <1>14, <2>2, <2>3
  <2> HIDE DEF s
  <2>5. s = c
    BY <1>12, <2>2, <2>3, <2>4, SameSeq
  <2> QED BY <2>1, <2>5
<1> DEFINE r == deserializeFields(p, 5 + 2 * p[1])
<1>16. r.ok = TRUE /\ r.off = off /\ r.texts = t
  BY <1>10
<1> HIDE DEF r
<1>17. DecodeQuery(p) =
         [operation |-> t[1], namespace |-> t[2], entryID |-> t[3],
          category |-> t[4], title |-> t[5],
          fields |-> FieldMap(SubSeq(t, 6, Len(t))),
          limit |-> p[off], offset |-> p[off + 1],
          credentials |-> Credentials(p, off + 2)]
  <2>1. ~ (off + 1 > Len(p)) /\ ~ ((off + 2) + p[off + 2] > Len(p))
    <3> DEFINE z == Len(p)
    <3>1. z \in Nat /\ off \in Nat /\ off + 1 <= z /\ (off + 2) + p[off + 2] = z
      <4>1. z \in Nat
        BY <1>7
      <4>2. off \in Nat /\ off + 1 <= z /\ (off + 2) + p[off + 2] = z
        <5> HIDE DEF off, c
        <5> QED BY <1>13
      <4> QED BY <4>1, <4>2
    <3> HIDE DEF off, z
    <3> QED BY <3>1 DEF z
  <2> HIDE DEF off
  <2> QED BY <1>11, <1>16, <2>1 DEF DecodeQuery, r
<1>18. p[off] = q.limit /\ p[off + 1] = q.offset
  <2>1. off + 1 = 3 + Len(L)
    BY <1>7
  <2> QED BY <1>7, <2>1
<1> HIDE DEF off
<1>19. DecodeQuery(p) =
         [operation |-> q.operation, namespace |-> q.namespace, entryID |-> q.entryID,
          category |-> q.category, title |-> q.title, fields |-> q.fields,
          limit |-> q.limit, offset |-> q.offset, credentials |-> q.credentials]
  BY <1>1, <1>15, <1>17, <1>18
<1>20. q = [operation |-> q.operation, namespace |-> q.namespace, entryID |-> q.entryID,
            category |-> q.category, title |-> q.title, fields |-> q.fields,
            limit |-> q.limit, offset |-> q.offset, credentials |-> q.credentials]
  BY DEF IsGQLQuery
<1> QED BY <1>19, <1>20 DEF p

-----------------------------------------------------------------------------
\* From the sender to the verdict.

\* The frames that may be on the way.
Frames == {NewQueryFrame(sent, order) : order \in SetToSeqs(DOMAIN sent.fields)}
            \cup {NewResultFrame(<<0>>), NewErrorFrame(<<0>>)}

\* The inductive invariant: what is on the way, and what has been made of it.
WireInv ==
  /\ sent \in Queries
  /\ pc = "wire" => data \in Frames
  /\ pc = "cut" => ~ FrameDecodes(data)
  /\ pc \in Questions \cup {"accepted"} => (Encodable(sent) => query = sent)

\* Header and payload of a frame.
LEMMA FrameParts ==
  ASSUME NEW op \in Opcodes, NEW payload \in Seq(Nat)
  PROVE  LET d == FrameBytes(op, payload)
         IN /\ d \in Seq(Nat) /\ Len(d) = 4 + Len(payload)
            /\ d[2] = op /\ d[4] = Len(payload) /\ Payload(d) = payload
<1> DEFINE h == <<Version, op, 0, Len(payload)>>
           d == FrameBytes(op, payload)
<1>1. op \in Nat /\ Len(payload) \in Nat
  BY DEF Opcodes, QUERY, MUTATE, RESULT, ERROR
<1>2. h \in Seq(Nat) /\ Len(h) = 4 /\ h[2] = op /\ h[4] = Len(payload)
  BY <1>1 DEF Version
<1>3. d = h \o payload
  BY DEF FrameBytes
<1> HIDE DEF h, d
<1>4. /\ d \in Seq(Nat) /\ Len(d) = Len(h) + Len(payload)
      /\ \A i \in 1 .. Len(h) : d[i] = h[i]
      /\ \A i \in 1 .. Len(payload) : d[Len(h) + i] = payload[i]
  BY <1>2, <1>3, Concat
<1>5. Len(d) = 4 + Len(payload)
  BY <1>2, <1>4
<1>6. d[2] = op /\ d[4] = Len(payload)
  BY <1>2, <1>4
<1>7. Payload(d) = payload
  <2> DEFINE z == Len(d)
             s == SubSeq(d, 5, z)
  <2>1. /\ z \in Nat /\ 5 \in Nat /\ 5 >= 1 /\ 5 <= z + 1 /\ z <= Len(d)
        /\ (z - 5) + 1 = Len(payload)
        /\ \A i \in 1 .. Len(payload) : (5 + i) - 1 = 4 + i
    BY <1>1, <1>5
  <2>2. Payload(d) = s
    BY DEF Payload, FrameHeaderSize
  <2> HIDE DEF z
  <2>3. /\ s \in Seq(Nat) /\ Len(s) = (z - 5) + 1
        /\ \A i \in 1 .. (z - 5) + 1 : s[i] = d[(5 + i) - 1]
    BY <1>4, <2>1, Part
  <2> HIDE DEF s
  <2>4. \A i \in 1 .. Len(payload) : s[i] = payload[i]
    BY <1>2, <1>4, <2>1, <2>3
  <2>5. s = payload
    BY <2>1, <2>3, <2>4, SameSeq
  <2> QED BY <2>2, <2>5
<1> QED BY <1>4, <1>5, <1>6, <1>7 DEF d

\* Encode yields cells, whatever the query.
LEMMA EncodeType ==
  ASSUME NEW q, IsGQLQuery(q), NEW order \in SetToSeqs(DOMAIN q.fields)
  PROVE  Encode(q, order) \in Seq(Nat)
<1> DEFINE t == QueryTexts(q, order)
<1>1. t \in Seq(Texts)
  BY TextsOfQuery
<1>2. Fields(t) \in Seq(Seq(Nat)) /\ Len(t) \in Nat /\ Len(Fields(t)) = Len(t)
  BY <1>1, FieldsType
<1> HIDE DEF t
<1>3. PICK F : Joins(F, Fields(t), Nat, Len(t))
  BY <1>2, JoinsExist
<1>4. F[Len(t)] \in Seq(Nat)
  BY <1>2, <1>3 DEF Joins
<1>5. FlattenSeq(Fields(t)) = F[Len(t)]
  BY <1>2, <1>3, FlattenIsJoin
<1> DEFINE L == F[Len(t)]
<1>6. FlattenSeq(Fields(QueryTexts(q, order))) = L /\ L \in Seq(Nat)
  BY <1>4, <1>5 DEF t
<1> HIDE DEF L
<1> QED BY <1>6, Layout

\* A frame on the way: an opcode and a payload, of the query if it has one.
LEMMA FrameOnTheWay ==
  ASSUME WireInv, NEW d \in Frames
  PROVE  \E op \in Opcodes, payload \in Seq(Nat) :
           /\ d = FrameBytes(op, payload)
           /\ op \notin {RESULT, ERROR} =>
                \E order \in SetToSeqs(DOMAIN sent.fields) : payload = Encode(sent, order)
<1>1. IsGQLQuery(sent)
  BY ValidatorAssumption DEF WireInv
<1>2. CASE \E order \in SetToSeqs(DOMAIN sent.fields) : d = NewQueryFrame(sent, order)
  <2>1. PICK order \in SetToSeqs(DOMAIN sent.fields) : d = NewQueryFrame(sent, order)
    BY <1>2
  <2>2. Encode(sent, order) \in Seq(Nat)
    BY <1>1, EncodeType
  <2> DEFINE op == IF isWriteOperation(sent.operation) THEN MUTATE ELSE QUERY
  <2>3. op \in Opcodes /\ d = FrameBytes(op, Encode(sent, order))
    BY <2>1 DEF Opcodes, NewQueryFrame
  <2> HIDE DEF op
  <2> QED BY <2>2, <2>3
<1>3. CASE d \in {NewResultFrame(<<0>>), NewErrorFrame(<<0>>)}
  <2>1. <<0>> \in Seq(Nat)
    OBVIOUS
  <2>2. RESULT \in Opcodes /\ ERROR \in Opcodes
    BY DEF Opcodes
  <2> QED BY <1>3, <2>1, <2>2 DEF NewResultFrame, NewErrorFrame
<1> QED BY <1>2, <1>3 DEF Frames

\* A frame that has lost its tail is shorter than its header says.
LEMMA CutIsNoticed ==
  ASSUME WireInv, NEW d \in Frames, NEW n \in 0 .. Len(d) - 1
  PROVE  ~ FrameDecodes(SubSeq(d, 1, n))
<1>1. PICK op \in Opcodes, payload \in Seq(Nat) : d = FrameBytes(op, payload)
  BY FrameOnTheWay
<1>2. d \in Seq(Nat) /\ Len(d) = 4 + Len(payload) /\ d[4] = Len(payload)
  BY <1>1, FrameParts
<1>3. Len(payload) \in Nat /\ Len(d) \in Nat /\ n \in Nat /\ n < 4 + Len(payload)
      /\ n <= Len(d) /\ 1 <= n + 1 /\ (n - 1) + 1 = n
  <2>1. Len(payload) \in Nat /\ Len(d) \in Nat
    BY <1>2
  <2> QED BY <1>2, <2>1
<1> DEFINE s == SubSeq(d, 1, n)
<1>4. /\ Len(s) = n /\ \A i \in 1 .. n : s[i] = d[(1 + i) - 1]
  <2>1. /\ SubSeq(d, 1, n) \in Seq(Nat) /\ Len(SubSeq(d, 1, n)) = (n - 1) + 1
        /\ \A i \in 1 .. (n - 1) + 1 : SubSeq(d, 1, n)[i] = d[(1 + i) - 1]
    BY <1>2, <1>3, Part
  <2> QED BY <1>3, <2>1
<1> HIDE DEF s
<1>5. SUFFICES ASSUME Len(s) >= 4, Len(s) = 4 + s[4] PROVE FALSE
  BY DEF FrameDecodes, FrameHeaderSize, s
<1>6. 4 \in 1 .. n /\ (1 + 4) - 1 = 4
  BY <1>3, <1>4, <1>5
<1>7. s[4] = Len(payload)
  BY <1>2, <1>4, <1>6
<1> QED BY <1>3, <1>4, <1>5, <1>7

\* Stage 1 of the validator hands on the query that was sent, or none.
LEMMA StageOneAsSent ==
  ASSUME WireInv, data \in Frames, data[2] \notin {RESULT, ERROR}, Encodable(sent)
  PROVE  Stage1(data) \in {sent, Malformed}
<1>1. IsGQLQuery(sent)
  BY ValidatorAssumption DEF WireInv
<1>2. PICK op \in Opcodes, payload \in Seq(Nat) :
        /\ data = FrameBytes(op, payload)
        /\ op \notin {RESULT, ERROR} =>
             \E order \in SetToSeqs(DOMAIN sent.fields) : payload = Encode(sent, order)
  BY FrameOnTheWay
<1>3. data[2] = op /\ Payload(data) = payload
  BY <1>2, FrameParts
<1>4. PICK order \in SetToSeqs(DOMAIN sent.fields) : payload = Encode(sent, order)
  BY <1>2, <1>3
<1>5. DecodeQuery(payload) = sent
  BY <1>1, <1>4, RoundTrip
<1> QED BY <1>3, <1>5 DEF Stage1

\* Nothing is on the way in the beginning.
LEMMA WireInit == RequestInit => WireInv
BY DEF RequestInit, WireInv, Questions

\* One step for each action of the request.
LEMMA WireStep == WireInv /\ [RequestNext]_requestVars => WireInv'
<1> SUFFICES ASSUME WireInv, [RequestNext]_requestVars PROVE WireInv'
  OBVIOUS
<1>1. sent' = sent /\ sent \in Queries
  BY DEF WireInv, RequestNext, requestVars, Send, Cut, Receive, CheckUnlocked, CheckHandle,
         CheckUser, CheckAdmin, ChangeSession, messageVars
<1>2. CASE Send
  <2>1. data' \in Frames' /\ pc' = "wire"
    BY <1>1, <1>2 DEF Send, Frames
  <2> QED BY <1>1, <2>1 DEF WireInv, Questions
<1>3. CASE Cut
  <2>1. PICK n \in 0 .. Len(data) - 1 : data' = SubSeq(data, 1, n)
    BY <1>3 DEF Cut
  <2>2. ~ FrameDecodes(data') /\ pc' = "cut"
    <3>1. data \in Frames
      BY <1>3 DEF Cut, WireInv
    <3>2. ~ FrameDecodes(SubSeq(data, 1, n))
      BY <3>1, CutIsNoticed
    <3> QED BY <1>3, <2>1, <3>2 DEF Cut
  <2> QED BY <1>1, <2>2 DEF WireInv, Questions
<1>4. CASE Receive
  <2>1. CASE pc' \in {"refused", "nothing"}
    BY <1>1, <2>1 DEF WireInv, Questions
  <2>2. CASE pc' \notin {"refused", "nothing"}
    <3>1. /\ FrameDecodes(data) /\ data[2] \notin {RESULT, ERROR}
          /\ query' = Stage1(data) /\ query' # Malformed /\ pc' = "unlocked?"
      BY <1>4, <2>2 DEF Receive
    <3>2. data \in Frames
      BY <1>4, <3>1 DEF Receive, WireInv
    <3>3. Encodable(sent) => query' = sent
      BY <3>1, <3>2, StageOneAsSent
    <3> QED BY <1>1, <3>1, <3>3 DEF WireInv
  <2> QED BY <2>1, <2>2
<1>5. CASE CheckUnlocked \/ CheckHandle \/ CheckUser \/ CheckAdmin
  <2>1. pc \in Questions /\ query' = query /\ pc' \in Questions \cup {"accepted", "refused"}
    BY <1>5 DEF CheckUnlocked, CheckHandle, CheckUser, CheckAdmin, messageVars, Questions
  <2> QED BY <1>1, <2>1 DEF WireInv, Questions
<1>6. CASE ChangeSession \/ UNCHANGED requestVars
  <2>1. UNCHANGED <<sent, data, query, pc>>
    BY <1>6 DEF ChangeSession, requestVars, messageVars
  <2> QED BY <2>1 DEF WireInv, Frames
<1> QED BY <1>2, <1>3, <1>4, <1>5, <1>6 DEF RequestNext

\* The query that ValidateFrame accepts is the query that the sender encoded, with
\* every text, every field and both numbers, for every query whose lengths and count
\* fit their place on the wire; no frame without its tail is accepted.
THEOREM AsSent == RequestSpec => []AcceptedAsSent
<1>1. WireInv => AcceptedAsSent
  BY DEF WireInv, AcceptedAsSent
<1> QED BY <1>1, WireInit, WireStep, PTL DEF RequestSpec

=============================================================================
