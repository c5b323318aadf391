---------------------------- MODULE StoresProofs ----------------------------
(***************************************************************************)
(* The stores of secrets and of blocks.                                    *)
(*                                                                         *)
(* For any number of goroutines, handles, tokens and buffers: no secret    *)
(* outlives its removal from the two key stores, locked memory leaks only  *)
(* where a call fails, and what callers are handed is what was stored, up  *)
(* to a revocation under their eyes.                                       *)
(*                                                                         *)
(* For any number of write transactions and blocks: a commit is played in  *)
(* order, in memory and on disk, and is durable once it has returned.      *)
(***************************************************************************)
EXTENDS KeyStores, WriteTransaction, TLAPS

-----------------------------------------------------------------------------
\* The key stores.

Frames ==
  {Out} \cup [at: {"mvk", "slot", "copy"}, buf: Buffers]
        \cup [at: {"uses"}, buf: Buffers, id: Handles]
        \cup [at: {"revokes"}, todo: SUBSET Handles]

Contained == Keys \cup {Fresh, Torn, Zero}

Types ==
  /\ heap \in [Buffers -> Contained]
  /\ DOMAIN handles \subseteq Handles /\ handles \in [DOMAIN handles -> Buffers]
  /\ DOMAIN slots \subseteq Tokens /\ slots \in [DOMAIN slots -> Buffers]
  /\ frame \in [Goroutines -> Frames]
  /\ stored \in [DOMAIN stored -> Keys]
  /\ \A x \in taken : x[1] \in Tokens

\* g is the only one to know its buffer.
Holds(g) == frame[g].at \in {"mvk", "slot", "copy"}

\* A buffer belongs to one handle, token or goroutine ...
Disjoint ==
  /\ \A h, i \in DOMAIN handles : handles[h] = handles[i] => h = i
  /\ \A s, t \in DOMAIN slots : slots[s] = slots[t] => s = t
  /\ \A h \in DOMAIN handles, t \in DOMAIN slots : handles[h] # slots[t]
  /\ \A g, k \in Goroutines : Holds(g) /\ Holds(k) /\ frame[g].buf = frame[k].buf => g = k
  /\ \A g \in Goroutines : Holds(g) =>
       /\ \A h \in DOMAIN handles : frame[g].buf # handles[h]
       /\ \A t \in DOMAIN slots : frame[g].buf # slots[t]

\* ... and holds the secret stored under it, unless that is being revoked.
Contents ==
  /\ \A h \in DOMAIN handles : h \in DOMAIN stored /\ heap[handles[h]] \in {stored[h], Torn, Zero}
  /\ \A t \in DOMAIN slots : t \in DOMAIN stored /\ heap[slots[t]] = stored[t]
  /\ \A g \in Goroutines : Holds(g) => heap[frame[g].buf] \in Keys

\* The mutex of the MVK store has one holder, which is at the handles there are;
\* the keys of the others are whole.
Revokes(g) == frame[g].at = "revokes"
BeingRevoked(h) == \E g \in Goroutines : Revokes(g) /\ h \in frame[g].todo
OneRevoker ==
  /\ \A g, k \in Goroutines : Revokes(g) /\ Revokes(k) => g = k
  /\ \A g \in Goroutines : Revokes(g) => frame[g].todo \subseteq DOMAIN handles
  /\ \A h \in DOMAIN handles : BeingRevoked(h) \/ heap[handles[h]] = stored[h]

\* A slice from the MVK store is the buffer of its handle until that is revoked.
Slices ==
  \A g \in Goroutines : frame[g].at = "uses" =>
    /\ frame[g].id \in DOMAIN stored
    /\ frame[g].id \in DOMAIN handles => frame[g].buf = handles[frame[g].id]
    /\ frame[g].id \notin DOMAIN handles => heap[frame[g].buf] = Zero

\* A secret that was handed out has left its slot, and was handed out once.
TakenOnce ==
  /\ \A x \in taken : /\ x[1] \in DOMAIN stored /\ x[1] \notin DOMAIN slots
                      /\ x[3] = stored[x[1]]
  /\ \A x, y \in taken : x[1] = y[1] => x = y

\* Every buffer with secret bytes belongs to somebody.
Owned(b) ==
  \/ \E h \in DOMAIN handles : b = handles[h]
  \/ \E t \in DOMAIN slots : b = slots[t]
  \/ \E g \in Goroutines : Holds(g) /\ b = frame[g].buf
NothingLost == \A b \in Buffers : heap[b] \notin {Fresh, Zero} => Owned(b) \/ b \in orphaned

\* What a failing call left behind belongs to nobody.
Abandoned ==
  /\ orphaned \cup stuck \subseteq Buffers
  /\ \A b \in orphaned : heap[b] \in Keys
  /\ \A b \in stuck : heap[b] = Zero
  /\ \A b \in orphaned \cup stuck : ~Owned(b)

\* Exactly the buffers of the MVK store, and those left behind, are locked.
PinnedRight ==
  \A b : b \in pinned <=> \/ \E h \in DOMAIN handles : b = handles[h]
                          \/ \E g \in Goroutines : frame[g].at = "mvk" /\ b = frame[g].buf
                          \/ b \in orphaned \cup stuck

\* The inductive invariant.
Inv ==
  /\ Types /\ Disjoint /\ Contents /\ OneRevoker /\ Slices /\ TakenOnce
  /\ NothingLost /\ Abandoned /\ PinnedRight

-----------------------------------------------------------------------------
(* Operators of the stores.                                                *)

\* A frame and what is known of it from where it stands.
LEMMA FrameType ==
  ASSUME NEW r \in Frames
  PROVE  /\ r.at \in {"out", "mvk", "slot", "copy", "uses", "revokes"}
         /\ r.at = "out" <=> r = Out
         /\ r.at \in {"mvk", "slot", "copy", "uses"} => r.buf \in Buffers
         /\ r.at = "uses" => r.id \in Handles
         /\ r.at = "revokes" => r.todo \in SUBSET Handles
BY DEF Frames, Out

\* The contents of buffers are told apart.
LEMMA Distinct ==
  /\ Fresh \notin Keys /\ Torn \notin Keys /\ Zero \notin Keys
  /\ Fresh # Torn /\ Fresh # Zero /\ Torn # Zero
BY KeyStoresAssumption DEF KeyStoresAssumption

\* Who revokes what is left alone by a step of another goroutine.
LEMMA RevokersKept ==
  ASSUME OneRevoker, NEW g \in Goroutines, ~Revokes(g), frame'[g].at # "revokes",
         \A j \in Goroutines : j # g => frame'[j] = frame[j],
         DOMAIN handles \subseteq DOMAIN handles'
  PROVE  /\ \A i, k \in Goroutines : Revokes(i)' /\ Revokes(k)' => i = k
         /\ \A i \in Goroutines : Revokes(i)' => frame'[i].todo \subseteq DOMAIN handles'
         /\ \A h : BeingRevoked(h) => BeingRevoked(h)'
<1>1. \A i \in Goroutines : Revokes(i)' <=> Revokes(i)
  BY DEF Revokes
<1>2. \A i \in Goroutines : Revokes(i) => frame'[i] = frame[i]
  OBVIOUS
<1> QED
  BY <1>1, <1>2 DEF OneRevoker, BeingRevoked

-----------------------------------------------------------------------------
(* The invariant.                                                          *)

\* Two new stores satisfy the invariant.
LEMMA InitInv == Init => Inv
<1> SUFFICES ASSUME Init PROVE Inv
  OBVIOUS
<1>1. /\ DOMAIN handles = {} /\ DOMAIN slots = {} /\ DOMAIN stored = {}
      /\ taken = {} /\ pinned = {} /\ orphaned = {} /\ stuck = {}
  BY DEF Init
<1>2. /\ handles \in [{} -> Buffers] /\ slots \in [{} -> Buffers] /\ stored \in [{} -> Keys]
  BY DEF Init
<1>3. /\ heap \in [Buffers -> Contained]
      /\ frame \in [Goroutines -> Frames]
      /\ \A g \in Goroutines : frame[g].at = "out"
      /\ \A b \in Buffers : heap[b] = Fresh
  BY DEF Init, Frames, Out, Contained
<1>4. Types
  BY <1>1, <1>2, <1>3 DEF Types
<1>5. Disjoint /\ Contents /\ OneRevoker /\ Slices /\ TakenOnce
  BY <1>1, <1>3 DEF Disjoint, Contents, OneRevoker, Revokes, Slices, TakenOnce, Holds
<1>6. NothingLost /\ Abandoned /\ PinnedRight
  BY <1>1, <1>3 DEF NothingLost, Abandoned, PinnedRight
<1> QED
  BY <1>4, <1>5, <1>6 DEF Inv

\* A buffer that is not allocated yet belongs to nobody.
LEMMA FreshUnowned ==
  ASSUME Inv, NEW b \in Buffers, heap[b] = Fresh
  PROVE  /\ \A h \in DOMAIN handles : b # handles[h]
         /\ \A t \in DOMAIN slots : b # slots[t]
         /\ \A g \in Goroutines : Holds(g) => b # frame[g].buf
         /\ \A g \in Goroutines : frame[g].at = "uses" => b # frame[g].buf
         /\ b \notin orphaned \cup stuck
<1>1. Fresh \notin Keys /\ Zero # Fresh /\ Torn # Fresh
  BY Distinct
<1>2. \A h \in DOMAIN handles : heap[handles[h]] \in Keys \cup {Torn, Zero}
  BY DEF Inv, Types, Contents
<1>3. \A t \in DOMAIN slots : heap[slots[t]] \in Keys
  BY DEF Inv, Types, Contents
<1>4. \A g \in Goroutines : Holds(g) => heap[frame[g].buf] \in Keys
  BY DEF Inv, Contents
<1>5. \A g \in Goroutines : frame[g].at = "uses" => heap[frame[g].buf] \in Keys \cup {Torn, Zero}
  BY <1>2 DEF Inv, Slices
<1>6. b \notin orphaned \cup stuck
  BY <1>1 DEF Inv, Abandoned
<1> QED
  BY <1>1, <1>2, <1>3, <1>4, <1>5, <1>6

\* Store, before the mutex, in either store.
LEMMA CopyInv ==
  ASSUME Inv, NEW g \in Goroutines, NEW b \in Buffers, NEW k \in Keys,
         NEW where \in {"mvk", "slot"}, Copy(g, b, k, where),
         pinned' = IF where = "mvk" THEN pinned \cup {b} ELSE pinned,
         UNCHANGED <<handles, slots, keyHistory>>
  PROVE  Inv'
<1>1. /\ heap \in [Buffers -> Contained] /\ frame \in [Goroutines -> Frames]
      /\ handles \in [DOMAIN handles -> Buffers] /\ slots \in [DOMAIN slots -> Buffers]
      /\ frame[g] = Out /\ heap[b] = Fresh
      /\ heap' = [heap EXCEPT ![b] = k]
      /\ frame' = [frame EXCEPT ![g] = [at |-> where, buf |-> b]]
  BY DEF Inv, Types, Copy
<1>0. UNCHANGED <<stored, taken, orphaned, stuck>>
  BY DEF keyHistory
<1>2. [at |-> where, buf |-> b] \in Frames
  BY DEF Frames
<1>3. /\ heap' \in [Buffers -> Contained] /\ heap'[b] = k
      /\ \A c \in Buffers : c # b => heap'[c] = heap[c]
  BY <1>1 DEF Contained
<1>4. /\ frame' \in [Goroutines -> Frames]
      /\ frame'[g].at = where /\ frame'[g].buf = b
      /\ \A j \in Goroutines : j # g => frame'[j] = frame[j]
      /\ frame[g].at = "out"
  BY <1>1, <1>2 DEF Out
<1>5. /\ \A h \in DOMAIN handles : b # handles[h]
      /\ \A t \in DOMAIN slots : b # slots[t]
      /\ \A j \in Goroutines : Holds(j) => b # frame[j].buf
      /\ \A j \in Goroutines : frame[j].at = "uses" => b # frame[j].buf
      /\ b \notin orphaned \cup stuck
  BY <1>1, FreshUnowned
<1>6. \A j \in Goroutines : j # g => (Holds(j)' <=> Holds(j))
  BY <1>4 DEF Holds
<1>7. Holds(g)' /\ ~Holds(g)
  BY <1>4 DEF Holds
<1>8. \A j \in Goroutines : Holds(j) \/ frame[j].at = "uses" => frame[j].buf \in Buffers
  BY <1>1, FrameType DEF Holds
<1>9. Types'
  BY <1>0, <1>3, <1>4 DEF Inv, Types
<1>10. Disjoint'
  BY <1>4, <1>5, <1>6, <1>7 DEF Inv, Disjoint
<1>11. Contents'
  BY <1>0, <1>1, <1>3, <1>4, <1>5, <1>6, <1>7, <1>8 DEF Inv, Contents
<1>16. OneRevoker'
  <2>1. ~Revokes(g) /\ frame'[g].at # "revokes"
    BY <1>4 DEF Revokes
  <2>2. /\ \A i, j \in Goroutines : Revokes(i)' /\ Revokes(j)' => i = j
        /\ \A i \in Goroutines : Revokes(i)' => frame'[i].todo \subseteq DOMAIN handles'
        /\ \A h : BeingRevoked(h) => BeingRevoked(h)'
    BY <1>4, <2>1, RevokersKept DEF Inv
  <2>3. \A h \in DOMAIN handles : heap'[handles[h]] = heap[handles[h]]
    BY <1>1, <1>3, <1>5
  <2> QED
    BY <1>0, <2>2, <2>3 DEF Inv, OneRevoker
<1>12. Slices'
  BY <1>0, <1>3, <1>4, <1>5, <1>8 DEF Inv, Slices
<1>13. TakenOnce'
  BY <1>0 DEF Inv, TakenOnce
<1>14. NothingLost'
  <2> SUFFICES ASSUME NEW c \in Buffers, heap'[c] \notin {Fresh, Zero}
               PROVE  Owned(c)' \/ c \in orphaned'
    BY DEF NothingLost
  <2>1. CASE c = b
    BY <1>4, <1>7, <2>1 DEF Owned
  <2>2. CASE c # b
    <3>1. Owned(c) \/ c \in orphaned
      BY <1>3, <2>2 DEF Inv, NothingLost
    <3> QED
      BY <1>0, <1>4, <1>6, <1>7, <3>1 DEF Owned
  <2> QED
    BY <2>1, <2>2
<1>17. Abandoned'
  <2>1. ASSUME NEW c \in orphaned \cup stuck PROVE c # b /\ ~Owned(c)'
    <3>1. c # b /\ ~Owned(c)
      BY <1>5 DEF Inv, Abandoned
    <3> QED
      BY <1>4, <1>6, <1>7, <3>1 DEF Owned
  <2> QED
    BY <1>0, <1>3, <2>1 DEF Inv, Abandoned
<1>15. PinnedRight'
  <2>1. CASE where = "mvk"
    <3>1. pinned' = pinned \cup {b}
      BY <2>1
    <3> QED
      BY <1>0, <1>4, <2>1, <3>1 DEF Inv, PinnedRight
  <2>2. CASE where = "slot"
    <3>1. pinned' = pinned
      BY <2>2
    <3> QED
      BY <1>0, <1>4, <2>2, <3>1 DEF Inv, PinnedRight
  <2> QED
    BY <2>1, <2>2
<1> QED
  BY <1>9, <1>10, <1>11, <1>12, <1>13, <1>14, <1>15, <1>16, <1>17 DEF Inv

\* randomHandle panics: the buffer of the Store is left behind.
LEMMA PanicMVKInv ==
  ASSUME Inv, NEW g \in Goroutines, PanicMVK(g)
  PROVE  Inv'
<1> DEFINE b == frame[g].buf
<1>1. /\ frame \in [Goroutines -> Frames] /\ frame[g].at = "mvk" /\ Holds(g)
      /\ orphaned' = orphaned \cup {b} /\ frame' = [frame EXCEPT ![g] = Out]
      /\ UNCHANGED <<heap, handles, slots, pinned, stored, taken, stuck>>
  BY DEF Inv, Types, PanicMVK, Holds
<1>2. b \in Buffers /\ heap[b] \in Keys
  BY <1>1, FrameType DEF Inv, Contents
<1>3. /\ frame' \in [Goroutines -> Frames] /\ frame'[g].at = "out"
      /\ \A j \in Goroutines : j # g => frame'[j] = frame[j]
  BY <1>1 DEF Frames, Out
<1>4. ~Holds(g)' /\ \A j \in Goroutines : j # g => (Holds(j)' <=> Holds(j))
  BY <1>3 DEF Holds
<1>5. /\ \A i \in DOMAIN handles : handles[i] # b
      /\ \A t \in DOMAIN slots : slots[t] # b
      /\ \A j \in Goroutines : j # g /\ Holds(j) => frame[j].buf # b
  BY <1>1 DEF Inv, Disjoint
<1> HIDE DEF b
<1>6. Types'
  BY <1>1, <1>3 DEF Inv, Types
<1>7. Disjoint' /\ Contents' /\ TakenOnce'
  BY <1>1, <1>3, <1>4 DEF Inv, Disjoint, Contents, TakenOnce
<1>8. Slices'
  BY <1>1, <1>3 DEF Inv, Slices
<1>9. OneRevoker'
  <2>1. ~Revokes(g) /\ frame'[g].at # "revokes"
    BY <1>1, <1>3 DEF Revokes
  <2>2. /\ \A i, j \in Goroutines : Revokes(i)' /\ Revokes(j)' => i = j
        /\ \A i \in Goroutines : Revokes(i)' => frame'[i].todo \subseteq DOMAIN handles'
        /\ \A h : BeingRevoked(h) => BeingRevoked(h)'
    BY <1>1, <1>3, <2>1, RevokersKept DEF Inv
  <2> QED
    BY <1>1, <2>2 DEF Inv, OneRevoker
<1>10. \A c : Owned(c) <=> Owned(c)' \/ c = b
  BY <1>1, <1>3, <1>4 DEF Owned, b
<1>11. NothingLost'
  BY <1>1, <1>10 DEF Inv, NothingLost
<1>12. \A c : c = b => ~Owned(c)'
  <2>1. ~\E i \in DOMAIN handles' : b = handles'[i]
    BY <1>1, <1>5
  <2>2. ~\E t \in DOMAIN slots' : b = slots'[t]
    BY <1>1, <1>5
  <2>3. ASSUME NEW j \in Goroutines, Holds(j)' PROVE frame'[j].buf # b
    BY <1>3, <1>4, <1>5, <2>3
  <2> QED
    BY <2>1, <2>2, <2>3 DEF Owned
<1>13. Abandoned'
  <2>1. /\ orphaned \cup stuck \subseteq Buffers
        /\ \A c \in orphaned : heap[c] \in Keys
        /\ \A c \in stuck : heap[c] = Zero
        /\ \A c \in orphaned \cup stuck : ~Owned(c)
    BY DEF Inv, Abandoned
  <2>2. \A c \in orphaned' \cup stuck' : ~Owned(c)'
    BY <1>1, <1>10, <1>12, <2>1
  <2>3. /\ orphaned' \cup stuck' \subseteq Buffers
        /\ \A c \in orphaned' : heap'[c] \in Keys
        /\ \A c \in stuck' : heap'[c] = Zero
    BY <1>1, <1>2, <2>1
  <2> QED
    BY <2>2, <2>3 DEF Abandoned
<1>14. PinnedRight'
  <2>1. \A c : (\E j \in Goroutines : frame'[j].at = "mvk" /\ c = frame'[j].buf) \/ c = b <=>
               \E j \in Goroutines : frame[j].at = "mvk" /\ c = frame[j].buf
    BY <1>1, <1>3, <1>4, <1>5 DEF b
  <2> QED
    BY <1>1, <2>1 DEF Inv, PinnedRight
<1> QED
  BY <1>6, <1>7, <1>8, <1>9, <1>11, <1>13, <1>14 DEF Inv

\* The critical section of the MVK store's Store: the buffer changes hands.
LEMMA InsertMVKInv ==
  ASSUME Inv, NEW g \in Goroutines, NEW h \in Handles, InsertMVK(g, h)
  PROVE  Inv'
<1> DEFINE b == frame[g].buf
<1>1. handles \in [DOMAIN handles -> Buffers] /\ stored \in [DOMAIN stored -> Keys]
  BY DEF Inv, Types
<1>2. /\ frame \in [Goroutines -> Frames] /\ frame[g].at = "mvk"
      /\ h \notin DOMAIN stored
      /\ handles' = Put(handles, h, b) /\ stored' = Put(stored, h, heap[b])
      /\ frame' = [frame EXCEPT ![g] = Out]
      /\ UNCHANGED <<heap, slots, pinned, taken, orphaned, stuck>>
  BY DEF Inv, Types, InsertMVK
<1>3. b \in Buffers /\ Holds(g) /\ heap[b] \in Keys
  BY <1>2, FrameType DEF Inv, Contents, Holds
<1>4. h \notin DOMAIN handles
  BY <1>2 DEF Inv, Contents
<1>5. /\ DOMAIN handles' = DOMAIN handles \cup {h} /\ handles'[h] = b
      /\ handles' \in [DOMAIN handles' -> Buffers]
      /\ \A i \in DOMAIN handles : handles'[i] = handles[i]
  BY <1>1, <1>2, <1>3, <1>4 DEF Put
<1>6. /\ DOMAIN stored' = DOMAIN stored \cup {h} /\ stored'[h] = heap[b]
      /\ stored' \in [DOMAIN stored' -> Keys]
      /\ \A i \in DOMAIN stored : stored'[i] = stored[i]
  BY <1>1, <1>2, <1>3 DEF Put
<1>7. /\ frame' \in [Goroutines -> Frames] /\ frame'[g].at = "out"
      /\ \A j \in Goroutines : j # g => frame'[j] = frame[j]
  BY <1>2 DEF Frames, Out
<1>8. ~Holds(g)' /\ \A j \in Goroutines : j # g => (Holds(j)' <=> Holds(j))
  BY <1>7 DEF Holds
<1>9. /\ \A i \in DOMAIN handles : handles[i] # b
      /\ \A t \in DOMAIN slots : slots[t] # b
      /\ \A j \in Goroutines : j # g /\ Holds(j) => frame[j].buf # b
  BY <1>3 DEF Inv, Disjoint
<1> HIDE DEF b
<1>10. Types'
  BY <1>2, <1>5, <1>6, <1>7 DEF Inv, Types
<1>11. Disjoint'
  BY <1>2, <1>5, <1>7, <1>8, <1>9 DEF Inv, Disjoint
<1>12. Contents'
  BY <1>2, <1>5, <1>6, <1>7, <1>8 DEF Inv, Contents
<1>13. Slices'
  BY <1>2, <1>5, <1>6, <1>7 DEF Inv, Slices
<1>14. TakenOnce'
  BY <1>2, <1>6 DEF Inv, TakenOnce
<1>15. OneRevoker'
  <2>1. ~Revokes(g) /\ frame'[g].at # "revokes"
    BY <1>2, <1>7 DEF Revokes
  <2>2. /\ \A i, j \in Goroutines : Revokes(i)' /\ Revokes(j)' => i = j
        /\ \A i \in Goroutines : Revokes(i)' => frame'[i].todo \subseteq DOMAIN handles'
        /\ \A i : BeingRevoked(i) => BeingRevoked(i)'
    BY <1>5, <1>7, <2>1, RevokersKept DEF Inv
  <2>3. \A i \in DOMAIN handles' : i = h \/ i \in DOMAIN handles
    BY <1>5
  <2>4. \A i \in DOMAIN handles : i \in DOMAIN stored
    BY DEF Inv, Contents
  <2> QED
    BY <1>2, <1>5, <1>6, <2>2, <2>3, <2>4 DEF Inv, OneRevoker
<1>16. \A c : Owned(c)' <=> Owned(c)
  <2>1. \A c : (\E i \in DOMAIN handles' : c = handles'[i]) <=>
               c = b \/ \E i \in DOMAIN handles : c = handles[i]
    BY <1>5
  <2>2. \A c : (\E j \in Goroutines : Holds(j)' /\ c = frame'[j].buf) \/ c = b <=>
               \E j \in Goroutines : Holds(j) /\ c = frame[j].buf
    BY <1>3, <1>7, <1>8 DEF b
  <2> QED
    BY <1>2, <2>1, <2>2 DEF Owned
<1>17. NothingLost' /\ Abandoned'
  BY <1>2, <1>16 DEF Inv, NothingLost, Abandoned
<1>18. PinnedRight'
  <2>1. \A c : (\E i \in DOMAIN handles' : c = handles'[i]) <=>
               c = b \/ \E i \in DOMAIN handles : c = handles[i]
    BY <1>5
  <2>2. \A c : (\E j \in Goroutines : frame'[j].at = "mvk" /\ c = frame'[j].buf) \/ c = b <=>
               \E j \in Goroutines : frame[j].at = "mvk" /\ c = frame[j].buf
    BY <1>2, <1>7 DEF b
  <2> QED
    BY <1>2, <2>1, <2>2 DEF Inv, PinnedRight
<1> QED
  BY <1>10, <1>11, <1>12, <1>13, <1>14, <1>15, <1>17, <1>18 DEF Inv

\* The critical section of SecretGuard.Store: the buffer changes hands.
LEMMA InsertSecretInv ==
  ASSUME Inv, NEW g \in Goroutines, NEW t \in Tokens, InsertSecret(g, t)
  PROVE  Inv'
<1> DEFINE b == frame[g].buf
<1>1. slots \in [DOMAIN slots -> Buffers] /\ stored \in [DOMAIN stored -> Keys]
  BY DEF Inv, Types
<1>2. /\ frame \in [Goroutines -> Frames] /\ frame[g].at = "slot"
      /\ t \notin DOMAIN stored
      /\ slots' = Put(slots, t, b) /\ stored' = Put(stored, t, heap[b])
      /\ frame' = [frame EXCEPT ![g] = Out]
      /\ UNCHANGED <<heap, handles, pinned, taken, orphaned, stuck>>
  BY DEF Inv, Types, InsertSecret
<1>3. b \in Buffers /\ Holds(g) /\ heap[b] \in Keys
  BY <1>2, FrameType DEF Inv, Contents, Holds
<1>4. t \notin DOMAIN slots
  BY <1>2 DEF Inv, Contents
<1>5. /\ DOMAIN slots' = DOMAIN slots \cup {t} /\ slots'[t] = b
      /\ slots' \in [DOMAIN slots' -> Buffers]
      /\ \A i \in DOMAIN slots : slots'[i] = slots[i]
  BY <1>1, <1>2, <1>3, <1>4 DEF Put
<1>6. /\ DOMAIN stored' = DOMAIN stored \cup {t} /\ stored'[t] = heap[b]
      /\ stored' \in [DOMAIN stored' -> Keys]
      /\ \A i \in DOMAIN stored : stored'[i] = stored[i]
  BY <1>1, <1>2, <1>3 DEF Put
<1>7. /\ frame' \in [Goroutines -> Frames] /\ frame'[g].at = "out"
      /\ \A j \in Goroutines : j # g => frame'[j] = frame[j]
  BY <1>2 DEF Frames, Out
<1>8. ~Holds(g)' /\ \A j \in Goroutines : j # g => (Holds(j)' <=> Holds(j))
  BY <1>7 DEF Holds
<1>9. /\ \A i \in DOMAIN handles : handles[i] # b
      /\ \A i \in DOMAIN slots : slots[i] # b
      /\ \A j \in Goroutines : j # g /\ Holds(j) => frame[j].buf # b
  BY <1>3 DEF Inv, Disjoint
<1> HIDE DEF b
<1>10. Types'
  BY <1>2, <1>5, <1>6, <1>7 DEF Inv, Types
<1>11. Disjoint'
  BY <1>2, <1>5, <1>7, <1>8, <1>9 DEF Inv, Disjoint
<1>12. Contents'
  BY <1>2, <1>5, <1>6, <1>7, <1>8 DEF Inv, Contents
<1>13. Slices'
  BY <1>2, <1>6, <1>7 DEF Inv, Slices
<1>14. TakenOnce'
  BY <1>2, <1>5, <1>6 DEF Inv, TakenOnce
<1>15. OneRevoker'
  <2>1. ~Revokes(g) /\ frame'[g].at # "revokes"
    BY <1>2, <1>7 DEF Revokes
  <2>2. /\ \A i, j \in Goroutines : Revokes(i)' /\ Revokes(j)' => i = j
        /\ \A i \in Goroutines : Revokes(i)' => frame'[i].todo \subseteq DOMAIN handles'
        /\ \A i : BeingRevoked(i) => BeingRevoked(i)'
    BY <1>2, <1>7, <2>1, RevokersKept DEF Inv
  <2>3. \A i \in DOMAIN handles : i \in DOMAIN stored
    BY DEF Inv, Contents
  <2> QED
    BY <1>2, <1>6, <2>2, <2>3 DEF Inv, OneRevoker
<1>16. \A c : Owned(c)' <=> Owned(c)
  <2>1. \A c : (\E i \in DOMAIN slots' : c = slots'[i]) <=>
               c = b \/ \E i \in DOMAIN slots : c = slots[i]
    BY <1>5
  <2>2. \A c : (\E j \in Goroutines : Holds(j)' /\ c = frame'[j].buf) \/ c = b <=>
               \E j \in Goroutines : Holds(j) /\ c = frame[j].buf
    BY <1>3, <1>7, <1>8 DEF b
  <2> QED
    BY <1>2, <2>1, <2>2 DEF Owned
<1>17. NothingLost' /\ Abandoned'
  BY <1>2, <1>16 DEF Inv, NothingLost, Abandoned
<1>18. PinnedRight'
  BY <1>2, <1>7 DEF Inv, PinnedRight
<1> QED
  BY <1>10, <1>11, <1>12, <1>13, <1>14, <1>15, <1>17, <1>18 DEF Inv

\* A goroutine that holds no buffer takes up or drops a slice of the MVK store.
LEMMA FrameInv ==
  ASSUME Inv, NEW g \in Goroutines, NEW f \in Frames, frame' = [frame EXCEPT ![g] = f],
         frame[g].at \in {"out", "uses"}, f.at \in {"out", "uses"},
         f.at = "uses" => f.id \in DOMAIN handles /\ f.buf = handles[f.id],
         UNCHANGED <<heap, handles, slots, pinned, keyHistory>>
  PROVE  Inv'
<1>1. frame \in [Goroutines -> Frames] /\ UNCHANGED <<stored, taken, orphaned, stuck>>
  BY DEF Inv, Types, keyHistory
<1>2. /\ frame' \in [Goroutines -> Frames] /\ frame'[g] = f
      /\ \A j \in Goroutines : j # g => frame'[j] = frame[j]
  BY <1>1
<1>3. ~Holds(g) /\ ~Holds(g)' /\ \A j \in Goroutines : j # g => (Holds(j)' <=> Holds(j))
  BY <1>2 DEF Holds
<1>4. Types'
  BY <1>1, <1>2 DEF Inv, Types
<1>5. Disjoint'
  BY <1>2, <1>3 DEF Inv, Disjoint
<1>6. Contents'
  BY <1>1, <1>2, <1>3 DEF Inv, Contents
<1>7. Slices'
  <2>1. f.at = "uses" => f.id \in DOMAIN stored
    BY DEF Inv, Contents
  <2> QED
    BY <1>1, <1>2, <2>1 DEF Inv, Slices
<1>8. TakenOnce'
  BY <1>1 DEF Inv, TakenOnce
<1>9. OneRevoker'
  <2>1. ~Revokes(g) /\ frame'[g].at # "revokes"
    BY <1>2 DEF Revokes
  <2>2. /\ \A i, j \in Goroutines : Revokes(i)' /\ Revokes(j)' => i = j
        /\ \A i \in Goroutines : Revokes(i)' => frame'[i].todo \subseteq DOMAIN handles'
        /\ \A i : BeingRevoked(i) => BeingRevoked(i)'
    BY <1>2, <2>1, RevokersKept DEF Inv
  <2> QED
    BY <1>1, <2>2 DEF Inv, OneRevoker
<1>10. \A c : Owned(c)' <=> Owned(c)
  BY <1>2, <1>3 DEF Owned
<1>11. NothingLost' /\ Abandoned'
  BY <1>1, <1>10 DEF Inv, NothingLost, Abandoned
<1>12. PinnedRight'
  BY <1>1, <1>2 DEF Inv, PinnedRight
<1> QED
  BY <1>4, <1>5, <1>6, <1>7, <1>8, <1>9, <1>11, <1>12 DEF Inv

\* What a step of the holder of the mutex leaves alone in its own frame and in
\* those of others.
LEMMA RevokerStep ==
  ASSUME Inv, NEW g \in Goroutines, NEW f \in Frames, frame' = [frame EXCEPT ![g] = f],
         frame[g].at \in {"out", "revokes"}, f.at \in {"out", "revokes"},
         f.at = "revokes" => \A j \in Goroutines : Revokes(j) => j = g
  PROVE  /\ frame' \in [Goroutines -> Frames] /\ frame'[g] = f
         /\ \A j \in Goroutines : j # g => frame'[j] = frame[j]
         /\ \A j \in Goroutines : Holds(j) \/ frame[j].at \in {"mvk", "uses"} => j # g
         /\ \A j \in Goroutines : Holds(j)' <=> Holds(j)
         /\ \A j \in Goroutines : frame'[j].at = "uses" <=> frame[j].at = "uses"
         /\ \A j \in Goroutines : frame'[j].at = "mvk" <=> frame[j].at = "mvk"
         /\ \A i, j \in Goroutines : Revokes(i)' /\ Revokes(j)' => i = j
<1>1. /\ frame' \in [Goroutines -> Frames] /\ frame'[g] = f
      /\ \A j \in Goroutines : j # g => frame'[j] = frame[j]
  BY DEF Inv, Types
<1>2. \A j \in Goroutines : Holds(j) \/ frame[j].at \in {"mvk", "uses"} => j # g
  BY DEF Holds
<1>3. /\ \A j \in Goroutines : Holds(j)' <=> Holds(j)
      /\ \A j \in Goroutines : frame'[j].at = "uses" <=> frame[j].at = "uses"
      /\ \A j \in Goroutines : frame'[j].at = "mvk" <=> frame[j].at = "mvk"
  BY <1>1 DEF Holds
<1>4. \A i, j \in Goroutines : Revokes(i)' /\ Revokes(j)' => i = j
  BY <1>1 DEF Inv, OneRevoker, Revokes
<1> QED
  BY <1>1, <1>2, <1>3, <1>4

\* Revoke and RevokeAll take the mutex.
LEMMA RevokeInv ==
  ASSUME Inv, NEW g \in Goroutines, NEW hs \in SUBSET DOMAIN handles, Revoke(g, hs)
  PROVE  Inv'
<1> DEFINE f == [at |-> "revokes", todo |-> hs]
<1>1. /\ frame[g].at = "out" /\ \A j \in Goroutines : ~Revokes(j)
      /\ frame' = [frame EXCEPT ![g] = f]
      /\ UNCHANGED <<heap, handles, slots, pinned, stored, taken, orphaned, stuck>>
  BY DEF Revoke, NotRevoking, Revokes, Out, keyHistory
<1>2. f \in Frames /\ f.at = "revokes" /\ f.todo = hs
  BY DEF Inv, Types, Frames
<1> HIDE DEF f
<1>3. /\ frame' \in [Goroutines -> Frames] /\ frame'[g] = f
      /\ \A j \in Goroutines : j # g => frame'[j] = frame[j]
      /\ \A j \in Goroutines : Holds(j) \/ frame[j].at \in {"mvk", "uses"} => j # g
      /\ \A j \in Goroutines : Holds(j)' <=> Holds(j)
      /\ \A j \in Goroutines : frame'[j].at = "uses" <=> frame[j].at = "uses"
      /\ \A j \in Goroutines : frame'[j].at = "mvk" <=> frame[j].at = "mvk"
      /\ \A i, j \in Goroutines : Revokes(i)' /\ Revokes(j)' => i = j
  BY <1>1, <1>2, RevokerStep
<1>4. Types' /\ TakenOnce'
  BY <1>1, <1>3 DEF Inv, Types, TakenOnce
<1>5. Disjoint' /\ Contents' /\ Slices'
  BY <1>1, <1>3 DEF Inv, Disjoint, Contents, Slices
<1>6. OneRevoker'
  <2>1. \A j \in Goroutines : Revokes(j)' => j = g
    BY <1>1, <1>3 DEF Revokes
  <2>2. \A h \in DOMAIN handles : heap[handles[h]] = stored[h]
    BY <1>1 DEF Inv, OneRevoker, BeingRevoked
  <2> QED
    BY <1>1, <1>2, <1>3, <2>1, <2>2 DEF OneRevoker
<1>7. \A c : Owned(c)' <=> Owned(c)
  BY <1>1, <1>3 DEF Owned
<1>8. NothingLost' /\ Abandoned'
  BY <1>1, <1>7 DEF Inv, NothingLost, Abandoned
<1>9. PinnedRight'
  BY <1>1, <1>3 DEF Inv, PinnedRight
<1> QED
  BY <1>4, <1>5, <1>6, <1>8, <1>9 DEF Inv

\* Zeroize goes on: only the handle under revocation is concerned.
LEMMA ZeroizeKeyInv ==
  ASSUME Inv, NEW g \in Goroutines, NEW h \in Handles, ZeroizeKey(g, h)
  PROVE  Inv'
<1> DEFINE b == handles[h]
<1>1. /\ Revokes(g) /\ h \in frame[g].todo
      /\ UNCHANGED <<handles, slots, pinned, frame, stored, taken, orphaned, stuck>>
  BY DEF ZeroizeKey, At, Revokes, keyHistory
<1>2. /\ heap \in [Buffers -> Contained] /\ handles \in [DOMAIN handles -> Buffers]
      /\ slots \in [DOMAIN slots -> Buffers] /\ frame \in [Goroutines -> Frames]
      /\ h \in DOMAIN handles /\ BeingRevoked(h)
  BY <1>1 DEF Inv, Types, OneRevoker, BeingRevoked
<1>3. b \in Buffers /\ heap[b] \in Keys \cup {Torn}
  BY <1>2 DEF ZeroizeKey
<1>4. PICK x \in {Torn, Zero} : heap' = [heap EXCEPT ![b] = x]
  BY DEF ZeroizeKey
<1>5. /\ \A i \in DOMAIN handles : i # h => handles[i] # b
      /\ \A t \in DOMAIN slots : slots[t] # b
      /\ \A j \in Goroutines : Holds(j) => frame[j].buf # b
  BY <1>2 DEF Inv, Disjoint
<1>6. \A j \in Goroutines : Holds(j) \/ frame[j].at = "uses" => frame[j].buf \in Buffers
  BY <1>2, FrameType DEF Holds
<1>7. Owned(b)
  BY <1>2 DEF Owned
<1> HIDE DEF b
<1>8. /\ heap' \in [Buffers -> Contained] /\ heap'[b] \in {Torn, Zero}
      /\ \A c \in Buffers : c # b => heap'[c] = heap[c]
  BY <1>2, <1>3, <1>4 DEF Contained
<1>9. \A j \in Goroutines : (Holds(j)' <=> Holds(j)) /\ (Revokes(j)' <=> Revokes(j))
  BY <1>1 DEF Holds, Revokes
<1>10. \A c : Owned(c)' <=> Owned(c)
  BY <1>1, <1>9 DEF Owned
<1>11. Types' /\ TakenOnce'
  BY <1>1, <1>8 DEF Inv, Types, TakenOnce
<1>12. Disjoint'
  BY <1>1, <1>9 DEF Inv, Disjoint
<1>13. Contents'
  <2>1. ASSUME NEW i \in DOMAIN handles
        PROVE  i \in DOMAIN stored /\ heap'[handles[i]] \in {stored[i], Torn, Zero}
    <3>1. CASE i = h
      BY <1>8, <3>1 DEF Inv, Contents, b
    <3>2. CASE i # h
      BY <1>2, <1>5, <1>8, <3>2 DEF Inv, Contents
    <3> QED
      BY <3>1, <3>2
  <2> QED
    BY <1>1, <1>2, <1>5, <1>6, <1>8, <1>9, <2>1 DEF Inv, Contents
<1>14. OneRevoker'
  <2>1. \A i : BeingRevoked(i)' <=> BeingRevoked(i)
    BY <1>1, <1>9 DEF BeingRevoked
  <2>2. ASSUME NEW i \in DOMAIN handles PROVE BeingRevoked(i) \/ heap'[handles[i]] = stored[i]
    BY <1>2, <1>5, <1>8 DEF Inv, OneRevoker
  <2> QED
    BY <1>1, <1>9, <2>1, <2>2 DEF Inv, OneRevoker
<1>15. Slices'
  <2>1. ASSUME NEW j \in Goroutines, frame[j].at = "uses", frame[j].id \notin DOMAIN handles
        PROVE  heap'[frame[j].buf] = Zero
    <3>1. heap[frame[j].buf] = Zero /\ frame[j].buf \in Buffers
      BY <1>6, <2>1 DEF Inv, Slices
    <3> QED
      BY <1>3, <1>8, <3>1, Distinct
  <2> QED
    BY <1>1, <2>1 DEF Inv, Slices
<1>16. NothingLost' /\ Abandoned'
  <2>1. ASSUME NEW c \in orphaned \cup stuck PROVE c # b /\ c \in Buffers
    BY <1>7 DEF Inv, Abandoned
  <2> QED
    BY <1>1, <1>7, <1>8, <1>10, <2>1 DEF Inv, NothingLost, Abandoned
<1>17. PinnedRight'
  BY <1>1 DEF Inv, PinnedRight
<1> QED
  BY <1>11, <1>12, <1>13, <1>14, <1>15, <1>16, <1>17 DEF Inv

\* Unlock, delete and, after the last handle, the release of the mutex: the
\* buffer is zero by now.
LEMMA ReleaseInv ==
  ASSUME Inv, NEW g \in Goroutines, NEW h \in Handles, Release(g, h)
  PROVE  Inv'
<1> DEFINE b == handles[h]
           f == IF frame[g].todo = {h} THEN Out
                ELSE [at |-> "revokes", todo |-> frame[g].todo \ {h}]
<1>1. /\ Revokes(g) /\ h \in frame[g].todo /\ heap[b] = Zero
      /\ handles' = Drop(handles, {h}) /\ frame' = [frame EXCEPT ![g] = f]
      /\ UNCHANGED <<heap, slots, stored, taken, orphaned>>
      /\ \/ pinned' = pinned \ {b} /\ stuck' = stuck
         \/ pinned' = pinned /\ stuck' = stuck \cup {b}
  BY DEF Release, Forget, At, Revokes, Inv, Types
<1>2. /\ handles \in [DOMAIN handles -> Buffers] /\ frame \in [Goroutines -> Frames]
      /\ frame[g].todo \subseteq DOMAIN handles /\ frame[g].todo \subseteq Handles
      /\ h \in DOMAIN handles /\ b \in Buffers
      /\ \A j \in Goroutines : Revokes(j) => j = g
  BY <1>1 DEF Inv, Types, OneRevoker
<1>3. /\ f \in Frames /\ f.at \in {"out", "revokes"}
      /\ f.at = "out" => frame[g].todo = {h}
      /\ f.at = "revokes" => f.todo = frame[g].todo \ {h}
  BY <1>2 DEF Frames, Out
<1>4. Owned(b) /\ frame[g].at \in {"out", "revokes"}
  BY <1>1, <1>2 DEF Owned, Revokes
<1>5. /\ \A i \in DOMAIN handles : i # h => handles[i] # b
      /\ \A t \in DOMAIN slots : slots[t] # b
      /\ \A j \in Goroutines : Holds(j) => frame[j].buf # b
  BY <1>2 DEF Inv, Disjoint
<1>6. /\ DOMAIN handles' = DOMAIN handles \ {h} /\ handles' \in [DOMAIN handles' -> Buffers]
      /\ \A i \in DOMAIN handles \ {h} : handles'[i] = handles[i]
  BY <1>1, <1>2 DEF Drop, Restrict
<1>7. \A c : (\E i \in DOMAIN handles' : c = handles'[i]) <=>
             c # b /\ \E i \in DOMAIN handles : c = handles[i]
  BY <1>2, <1>5, <1>6
<1>8. \A j \in Goroutines : frame[j].at = "uses" /\ frame[j].id = h => frame[j].buf = b
  BY <1>2 DEF Inv, Slices
<1> HIDE DEF b, f
<1>9. /\ frame' \in [Goroutines -> Frames] /\ frame'[g] = f
      /\ \A j \in Goroutines : j # g => frame'[j] = frame[j]
      /\ \A j \in Goroutines : Holds(j) \/ frame[j].at \in {"mvk", "uses"} => j # g
      /\ \A j \in Goroutines : Holds(j)' <=> Holds(j)
      /\ \A j \in Goroutines : frame'[j].at = "uses" <=> frame[j].at = "uses"
      /\ \A j \in Goroutines : frame'[j].at = "mvk" <=> frame[j].at = "mvk"
      /\ \A i, j \in Goroutines : Revokes(i)' /\ Revokes(j)' => i = j
  BY <1>1, <1>2, <1>3, <1>4, RevokerStep
<1>10. Types' /\ TakenOnce'
  BY <1>1, <1>6, <1>9 DEF Inv, Types, TakenOnce
<1>11. Disjoint'
  <2>1. /\ \A i, j \in DOMAIN handles' : handles'[i] = handles'[j] => i = j
        /\ \A i \in DOMAIN handles', t \in DOMAIN slots : handles'[i] # slots[t]
        /\ \A j \in Goroutines, i \in DOMAIN handles' : Holds(j) => frame[j].buf # handles'[i]
    BY <1>6 DEF Inv, Disjoint
  <2>2. \A j \in Goroutines : Holds(j) => frame'[j] = frame[j]
    BY <1>9
  <2>3. /\ \A i, j \in Goroutines : Holds(i) /\ Holds(j) /\ frame[i].buf = frame[j].buf => i = j
        /\ \A j \in Goroutines, t \in DOMAIN slots : Holds(j) => frame[j].buf # slots[t]
        /\ \A i, j \in DOMAIN slots : slots[i] = slots[j] => i = j
    BY DEF Inv, Disjoint
  <2>4. slots' = slots /\ \A j \in Goroutines : Holds(j)' <=> Holds(j)
    BY <1>1, <1>9
  <2>5. \A i, j \in Goroutines : Holds(i)' /\ Holds(j)' /\ frame'[i].buf = frame'[j].buf => i = j
    BY <2>2, <2>3, <2>4
  <2>6. \A j \in Goroutines : Holds(j)' =>
          /\ \A i \in DOMAIN handles' : frame'[j].buf # handles'[i]
          /\ \A t \in DOMAIN slots' : frame'[j].buf # slots'[t]
    BY <2>1, <2>2, <2>3, <2>4
  <2>7. \A i, j \in DOMAIN slots' : slots'[i] = slots'[j] => i = j
    BY <2>3, <2>4
  <2>8. \A i \in DOMAIN handles', t \in DOMAIN slots' : handles'[i] # slots'[t]
    BY <2>1, <2>4
  <2> QED
    BY <2>1, <2>5, <2>6, <2>7, <2>8 DEF Disjoint
<1>12. Contents'
  BY <1>1, <1>6, <1>9 DEF Inv, Contents
<1>13. OneRevoker'
  <2>1. \A j \in Goroutines : Revokes(j)' => j = g /\ f.at = "revokes"
    BY <1>2, <1>9 DEF Revokes
  <2>2. \A i \in DOMAIN handles' : BeingRevoked(i) => BeingRevoked(i)'
    <3> SUFFICES ASSUME NEW i \in DOMAIN handles', BeingRevoked(i) PROVE BeingRevoked(i)'
      OBVIOUS
    <3>1. i \in frame[g].todo /\ i # h
      BY <1>2, <1>6 DEF BeingRevoked
    <3>2. f.at = "revokes" /\ i \in f.todo
      BY <1>3, <3>1
    <3> QED
      BY <1>9, <3>2 DEF BeingRevoked, Revokes
  <2>3. \A j \in Goroutines : Revokes(j)' => frame'[j].todo \subseteq DOMAIN handles'
    BY <1>2, <1>3, <1>6, <1>9, <2>1
  <2>4. \A i \in DOMAIN handles' : BeingRevoked(i) \/ heap[handles[i]] = stored[i]
    BY <1>6 DEF Inv, OneRevoker
  <2>5. \A i \in DOMAIN handles' : heap'[handles'[i]] = heap[handles[i]] /\ stored'[i] = stored[i]
    BY <1>1, <1>6
  <2>6. \A i \in DOMAIN handles' : BeingRevoked(i)' \/ heap'[handles'[i]] = stored'[i]
    BY <2>2, <2>4, <2>5
  <2>7. \A i, j \in Goroutines : Revokes(i)' /\ Revokes(j)' => i = j
    BY <1>9
  <2> QED
    BY <2>3, <2>6, <2>7 DEF OneRevoker
<1>14. Slices'
  <2> SUFFICES ASSUME NEW j \in Goroutines, frame'[j].at = "uses"
               PROVE  /\ frame'[j].id \in DOMAIN stored'
                      /\ frame'[j].id \in DOMAIN handles' =>
                           frame'[j].buf = handles'[frame'[j].id]
                      /\ frame'[j].id \notin DOMAIN handles' => heap'[frame'[j].buf] = Zero
    BY DEF Slices
  <2>1. frame'[j] = frame[j] /\ frame[j].at = "uses"
    BY <1>9
  <2>2. CASE frame[j].id = h
    BY <1>1, <1>6, <1>8, <2>1, <2>2 DEF Inv, Slices
  <2>3. CASE frame[j].id # h
    BY <1>1, <1>6, <2>1, <2>3 DEF Inv, Slices
  <2> QED
    BY <2>2, <2>3
<1>15. \A c : Owned(c)' <=> Owned(c) /\ c # b
  <2>1. \A c : (\E j \in Goroutines : Holds(j)' /\ c = frame'[j].buf) <=>
               \E j \in Goroutines : Holds(j) /\ c = frame[j].buf
    BY <1>9
  <2>2. \A c : (\E t \in DOMAIN slots' : c = slots'[t]) <=> \E t \in DOMAIN slots : c = slots[t]
    BY <1>1
  <2>3. /\ ~\E t \in DOMAIN slots : b = slots[t]
        /\ ~\E j \in Goroutines : Holds(j) /\ b = frame[j].buf
    BY <1>5
  <2> SUFFICES ASSUME NEW c PROVE Owned(c)' <=> Owned(c) /\ c # b
    OBVIOUS
  <2> DEFINE inMap == \E i \in DOMAIN handles : c = handles[i]
             inSlot == \E t \in DOMAIN slots : c = slots[t]
             inHand == \E j \in Goroutines : Holds(j) /\ c = frame[j].buf
  <2>4. Owned(c) <=> inMap \/ inSlot \/ inHand
    BY DEF Owned
  <2>5. Owned(c)' <=> \/ \E i \in DOMAIN handles' : c = handles'[i]
                      \/ \E t \in DOMAIN slots' : c = slots'[t]
                      \/ \E j \in Goroutines : Holds(j)' /\ c = frame'[j].buf
    BY DEF Owned
  <2>6. Owned(c)' <=> (c # b /\ inMap) \/ inSlot \/ inHand
    BY <1>7, <2>1, <2>2, <2>5, Zenon
  <2>7. c = b => ~inSlot /\ ~inHand
    BY <2>3
  <2> HIDE DEF inMap, inSlot, inHand
  <2> QED
    BY <2>4, <2>6, <2>7
<1>16. NothingLost'
  BY <1>1, <1>15 DEF Inv, NothingLost
<1>17. Abandoned'
  <2>1. orphaned' = orphaned /\ \A c \in stuck' : c \in stuck \/ c = b
    BY <1>1
  <2> QED
    BY <1>1, <1>2, <1>15, <2>1 DEF Inv, Abandoned
<1>18. PinnedRight'
  <2>1. b \notin orphaned \cup stuck
    BY <1>4 DEF Inv, Abandoned
  <2>2. \A c : (\E j \in Goroutines : frame'[j].at = "mvk" /\ c = frame'[j].buf) <=>
               \E j \in Goroutines : frame[j].at = "mvk" /\ c = frame[j].buf
    BY <1>9
  <2>3. ~\E j \in Goroutines : frame[j].at = "mvk" /\ b = frame[j].buf
    BY <1>5 DEF Holds
  <2>4. b \in pinned
    BY <1>2 DEF Inv, PinnedRight, b
  <2>5. \A c : c \in pinned' <=>
                 \/ c # b /\ \E i \in DOMAIN handles : c = handles[i]
                 \/ \E j \in Goroutines : frame[j].at = "mvk" /\ c = frame[j].buf
                 \/ c \in orphaned \cup stuck'
    <3> TAKE c
    <3> DEFINE inMap == \E i \in DOMAIN handles : c = handles[i]
               inHand == \E j \in Goroutines : frame[j].at = "mvk" /\ c = frame[j].buf
    <3>0. c \in pinned <=> inMap \/ inHand \/ c \in orphaned \cup stuck
      BY Zenon DEF Inv, PinnedRight
    <3>3. c = b => ~inHand
      BY <2>3
    <3> HIDE DEF inMap, inHand
    <3>4. c \in pinned' <=> (c # b /\ inMap) \/ inHand \/ c \in orphaned \cup stuck'
      <4>1. CASE pinned' = pinned \ {b} /\ stuck' = stuck
        BY <2>1, <3>0, <3>3, <4>1
      <4>2. CASE pinned' = pinned /\ stuck' = stuck \cup {b}
        BY <2>4, <3>0, <4>2
      <4> QED
        BY <1>1, <4>1, <4>2
    <3> QED
      BY <3>4, Zenon DEF inMap, inHand
  <2>6. orphaned' = orphaned
    BY <1>1
  <2> SUFFICES ASSUME NEW c
               PROVE  c \in pinned' <=>
                        \/ \E i \in DOMAIN handles' : c = handles'[i]
                        \/ \E j \in Goroutines : frame'[j].at = "mvk" /\ c = frame'[j].buf
                        \/ c \in orphaned' \cup stuck'
    BY Zenon DEF PinnedRight
  <2> QED
    BY <1>7, <2>2, <2>5, <2>6, Zenon
<1> QED
  BY <1>10, <1>11, <1>12, <1>13, <1>14, <1>16, <1>17, <1>18 DEF Inv

\* Wipe and WipeAll: the bytes go with the tokens.
LEMMA WipeInv ==
  ASSUME Inv, NEW ts \in SUBSET DOMAIN slots, Wipe(ts)
  PROVE  Inv'
<1> DEFINE bs == {slots[t] : t \in ts}
<1>1. /\ heap \in [Buffers -> Contained]
      /\ handles \in [DOMAIN handles -> Buffers] /\ slots \in [DOMAIN slots -> Buffers]
      /\ frame \in [Goroutines -> Frames]
      /\ Zero \notin Keys
  BY KeyStoresAssumption DEF KeyStoresAssumption, Inv, Types
<1>2. /\ heap' = [b \in Buffers |-> IF b \in bs THEN Zero ELSE heap[b]]
      /\ slots' = Drop(slots, ts)
      /\ UNCHANGED <<handles, pinned, frame, stored, taken, orphaned, stuck>>
  BY DEF Wipe, Zeroize, keyHistory
<1>3. /\ DOMAIN slots' = DOMAIN slots \ ts /\ slots' \in [DOMAIN slots' -> Buffers]
      /\ \A i \in DOMAIN slots \ ts : slots'[i] = slots[i]
  BY <1>1, <1>2 DEF Drop, Restrict
<1>4. /\ heap' \in [Buffers -> Contained]
      /\ \A b \in Buffers : heap'[b] = IF b \in bs THEN Zero ELSE heap[b]
  BY <1>1, <1>2 DEF Contained
<1>5. /\ \A i \in DOMAIN slots \ ts : slots[i] \notin bs
      /\ \A h \in DOMAIN handles : handles[h] \notin bs
      /\ \A g \in Goroutines : Holds(g) => frame[g].buf \notin bs
  BY DEF Inv, Disjoint
<1>6. \A g \in Goroutines : Holds(g) \/ frame[g].at = "uses" => frame[g].buf \in Buffers
  BY <1>1, FrameType DEF Holds
<1>7. \A g \in Goroutines : Holds(g)' <=> Holds(g)
  BY <1>2 DEF Holds
<1> HIDE DEF bs
<1>8. Types'
  BY <1>2, <1>3, <1>4 DEF Inv, Types
<1>9. Disjoint'
  BY <1>2, <1>3, <1>7 DEF Inv, Disjoint
<1>10. Contents'
  BY <1>1, <1>2, <1>3, <1>4, <1>5, <1>6, <1>7 DEF Inv, Contents
<1>11. Slices'
  BY <1>2, <1>4, <1>6 DEF Inv, Slices
<1>12. TakenOnce'
  BY <1>2, <1>3 DEF Inv, TakenOnce
<1>13. OneRevoker'
  <2>1. \A g \in Goroutines : Revokes(g)' <=> Revokes(g)
    BY <1>2 DEF Revokes
  <2>2. \A h : BeingRevoked(h)' <=> BeingRevoked(h)
    BY <1>2, <2>1 DEF BeingRevoked
  <2>3. \A h \in DOMAIN handles : heap'[handles[h]] = heap[handles[h]]
    BY <1>1, <1>4, <1>5
  <2> QED
    BY <1>2, <2>1, <2>2, <2>3 DEF Inv, OneRevoker
<1>14. \A c : Owned(c)' <=> Owned(c) /\ c \notin bs
  <2>1. \A c : (\E i \in DOMAIN slots' : c = slots'[i]) <=>
               c \notin bs /\ \E i \in DOMAIN slots : c = slots[i]
    <3>1. \A i \in ts : slots[i] \in bs
      BY DEF bs
    <3> QED
      BY <1>3, <1>5, <3>1
  <2> QED
    BY <1>2, <1>5, <1>7, <2>1 DEF Owned
<1>15. NothingLost'
  BY <1>2, <1>4, <1>14 DEF Inv, NothingLost
<1>16. Abandoned'
  <2>1. \A c \in bs : Owned(c)
    BY DEF bs, Owned
  <2> QED
    BY <1>2, <1>4, <1>14, <2>1 DEF Inv, Abandoned
<1>17. PinnedRight'
  BY <1>2 DEF Inv, PinnedRight
<1> QED
  BY <1>8, <1>9, <1>10, <1>11, <1>12, <1>13, <1>15, <1>16, <1>17 DEF Inv

\* SecretGuard.Retrieve: the secret moves from its slot to a copy.
LEMMA RetrieveSecretInv ==
  ASSUME Inv, NEW g \in Goroutines, NEW t \in Tokens, NEW b \in Buffers,
         RetrieveSecret(g, t, b)
  PROVE  Inv'
<1> DEFINE s == slots[t]
           k == heap[s]
<1>1. /\ heap \in [Buffers -> Contained]
      /\ handles \in [DOMAIN handles -> Buffers] /\ slots \in [DOMAIN slots -> Buffers]
      /\ frame \in [Goroutines -> Frames]
      /\ Zero \notin Keys
  BY KeyStoresAssumption DEF KeyStoresAssumption, Inv, Types
<1>2. /\ frame[g] = Out /\ t \in DOMAIN slots /\ heap[b] = Fresh
      /\ heap' = [heap EXCEPT ![b] = k, ![s] = Zero]
      /\ slots' = Drop(slots, {t})
      /\ frame' = [frame EXCEPT ![g] = [at |-> "copy", buf |-> b]]
      /\ taken' = taken \cup {<<t, g, k>>}
      /\ UNCHANGED <<handles, pinned, stored, orphaned, stuck>>
  BY DEF RetrieveSecret
<1>3. s \in Buffers /\ t \in DOMAIN stored /\ k = stored[t] /\ k \in Keys
  BY <1>1, <1>2 DEF Inv, Types, Contents
<1>4. /\ \A h \in DOMAIN handles : b # handles[h]
      /\ \A i \in DOMAIN slots : b # slots[i]
      /\ \A j \in Goroutines : Holds(j) => b # frame[j].buf
      /\ \A j \in Goroutines : frame[j].at = "uses" => b # frame[j].buf
      /\ b \notin orphaned \cup stuck
  BY <1>2, FreshUnowned
<1>5. /\ s # b /\ \A h \in DOMAIN handles : s # handles[h]
      /\ \A i \in DOMAIN slots : i # t => s # slots[i]
      /\ \A j \in Goroutines : Holds(j) => s # frame[j].buf
  BY <1>2, <1>4 DEF Inv, Disjoint
<1>6. /\ DOMAIN slots' = DOMAIN slots \ {t} /\ slots' \in [DOMAIN slots' -> Buffers]
      /\ \A i \in DOMAIN slots \ {t} : slots'[i] = slots[i]
  BY <1>1, <1>2 DEF Drop, Restrict
<1> HIDE DEF s, k
<1>7. /\ heap' \in [Buffers -> Contained]
      /\ heap'[b] = k /\ heap'[s] = Zero
      /\ \A c \in Buffers : c # b /\ c # s => heap'[c] = heap[c]
  BY <1>1, <1>2, <1>3, <1>5 DEF Contained
<1>8. [at |-> "copy", buf |-> b] \in Frames
  BY DEF Frames
<1>9. /\ frame' \in [Goroutines -> Frames]
      /\ frame'[g].at = "copy" /\ frame'[g].buf = b
      /\ \A j \in Goroutines : j # g => frame'[j] = frame[j]
      /\ frame[g].at = "out"
  BY <1>1, <1>2, <1>8 DEF Out
<1>10. Holds(g)' /\ ~Holds(g) /\ \A j \in Goroutines : j # g => (Holds(j)' <=> Holds(j))
  BY <1>9 DEF Holds
<1>11. \A j \in Goroutines : Holds(j) \/ frame[j].at = "uses" => frame[j].buf \in Buffers
  BY <1>1, FrameType DEF Holds
<1>12. Types'
  <2>1. \A x \in taken' : x[1] \in Tokens
    BY <1>2 DEF Inv, Types
  <2> QED
    BY <1>2, <1>6, <1>7, <1>9, <2>1 DEF Inv, Types
<1>13. handles' = handles /\ stored' = stored
  BY <1>2
<1>14. \A i \in DOMAIN slots' : i \in DOMAIN slots /\ i # t /\ slots'[i] = slots[i]
  BY <1>6
<1>15. Disjoint'
  <2>1. \A i, j \in DOMAIN slots' : slots'[i] = slots'[j] => i = j
    BY <1>14 DEF Inv, Disjoint
  <2>2. /\ \A h, i \in DOMAIN handles : handles[h] = handles[i] => h = i
        /\ \A h \in DOMAIN handles, i \in DOMAIN slots' : handles[h] # slots'[i]
    BY <1>14 DEF Inv, Disjoint
  <2>3. ASSUME NEW i \in Goroutines, NEW j \in Goroutines,
               Holds(i)', Holds(j)', frame'[i].buf = frame'[j].buf
        PROVE  i = j
    BY <1>4, <1>9, <1>10, <2>3 DEF Inv, Disjoint
  <2>4. ASSUME NEW j \in Goroutines, Holds(j)'
        PROVE  /\ \A h \in DOMAIN handles : frame'[j].buf # handles[h]
               /\ \A i \in DOMAIN slots' : frame'[j].buf # slots'[i]
    BY <1>4, <1>9, <1>10, <1>14, <2>4 DEF Inv, Disjoint
  <2> QED
    BY <1>13, <2>1, <2>2, <2>3, <2>4 DEF Disjoint
<1>16. Contents'
  <2>1. ASSUME NEW h \in DOMAIN handles
        PROVE  h \in DOMAIN stored /\ heap'[handles[h]] \in {stored[h], Torn, Zero}
    BY <1>1, <1>4, <1>5, <1>7 DEF Inv, Contents
  <2>2. ASSUME NEW i \in DOMAIN slots'
        PROVE  i \in DOMAIN stored /\ heap'[slots'[i]] = stored[i]
    BY <1>1, <1>4, <1>5, <1>7, <1>14 DEF Inv, Contents
  <2>3. ASSUME NEW j \in Goroutines, Holds(j)' PROVE heap'[frame'[j].buf] \in Keys
    <3>1. CASE j = g
      BY <1>3, <1>7, <1>9, <3>1
    <3>2. CASE j # g
      BY <1>4, <1>5, <1>7, <1>9, <1>10, <1>11, <2>3, <3>2 DEF Inv, Contents
    <3> QED
      BY <3>1, <3>2
  <2> QED
    BY <1>13, <2>1, <2>2, <2>3 DEF Contents
<1>17. Slices'
  BY <1>2, <1>4, <1>7, <1>9, <1>11 DEF Inv, Slices
<1>18. TakenOnce'
  <2>1. ASSUME NEW x \in taken'
        PROVE  /\ x[1] \in DOMAIN stored /\ x[1] \notin DOMAIN slots' /\ x[3] = stored[x[1]]
               /\ x \notin taken => x = <<t, g, k>> /\ x[1] = t
               /\ x \in taken => x[1] # t
    BY <1>2, <1>3, <1>6 DEF Inv, TakenOnce
  <2>2. \A x, y \in taken' : x[1] = y[1] => x = y
    BY <2>1 DEF Inv, TakenOnce
  <2> QED
    BY <1>2, <2>1, <2>2 DEF TakenOnce
<1>19. OneRevoker'
  <2>1. ~Revokes(g) /\ frame'[g].at # "revokes"
    BY <1>9 DEF Revokes
  <2>2. /\ \A i, j \in Goroutines : Revokes(i)' /\ Revokes(j)' => i = j
        /\ \A i \in Goroutines : Revokes(i)' => frame'[i].todo \subseteq DOMAIN handles'
        /\ \A i : BeingRevoked(i) => BeingRevoked(i)'
    BY <1>9, <1>13, <2>1, RevokersKept DEF Inv
  <2>3. \A h \in DOMAIN handles : heap'[handles[h]] = heap[handles[h]]
    BY <1>1, <1>4, <1>5, <1>7
  <2> QED
    BY <1>13, <2>2, <2>3 DEF Inv, OneRevoker
<1>20. \A c : Owned(c)' <=> c = b \/ (Owned(c) /\ c # s)
  <2>1. \A c : (\E i \in DOMAIN slots' : c = slots'[i]) <=>
               c # s /\ \E i \in DOMAIN slots : c = slots[i]
    BY <1>2, <1>5, <1>6 DEF s
  <2>2. \A c : (\E j \in Goroutines : Holds(j)' /\ c = frame'[j].buf) <=>
               c = b \/ \E j \in Goroutines : Holds(j) /\ c = frame[j].buf
    BY <1>9, <1>10
  <2> QED
    BY <1>5, <1>13, <2>1, <2>2 DEF Owned
<1>21. Owned(s)
  BY <1>2 DEF Owned, s
<1>22. NothingLost'
  <2>1. ASSUME NEW c \in Buffers, heap'[c] \notin {Fresh, Zero}, c # b
        PROVE  c # s /\ (Owned(c) \/ c \in orphaned)
    BY <1>7, <2>1 DEF Inv, NothingLost
  <2> QED
    BY <1>2, <1>20, <2>1 DEF NothingLost
<1>23. Abandoned'
  <2>1. ASSUME NEW c \in orphaned \cup stuck PROVE c # b /\ c # s /\ c \in Buffers /\ ~Owned(c)
    BY <1>4, <1>21 DEF Inv, Abandoned
  <2> QED
    BY <1>2, <1>7, <1>20, <2>1 DEF Inv, Abandoned
<1>24. PinnedRight'
  BY <1>2, <1>9 DEF Inv, PinnedRight
<1> QED
  BY <1>12, <1>15, <1>16, <1>17, <1>18, <1>19, <1>22, <1>23, <1>24 DEF Inv

\* The caller of SecretGuard.Retrieve zeroes its copy.
LEMMA ZeroCopyInv ==
  ASSUME Inv, NEW g \in Goroutines, ZeroCopy(g)
  PROVE  Inv'
<1> DEFINE b == frame[g].buf
<1>1. /\ heap \in [Buffers -> Contained]
      /\ handles \in [DOMAIN handles -> Buffers] /\ slots \in [DOMAIN slots -> Buffers]
      /\ frame \in [Goroutines -> Frames]
      /\ Zero \notin Keys
  BY KeyStoresAssumption DEF KeyStoresAssumption, Inv, Types
<1>2. /\ frame[g].at = "copy" /\ Holds(g)
      /\ heap' = [c \in Buffers |-> IF c \in {b} THEN Zero ELSE heap[c]]
      /\ frame' = [frame EXCEPT ![g] = Out]
      /\ UNCHANGED <<handles, slots, pinned, stored, taken, orphaned, stuck>>
  BY DEF ZeroCopy, Zeroize, Holds, keyHistory
<1>3. /\ \A h \in DOMAIN handles : b # handles[h]
      /\ \A i \in DOMAIN slots : b # slots[i]
      /\ \A j \in Goroutines : j # g /\ Holds(j) => b # frame[j].buf
  BY <1>2 DEF Inv, Disjoint
<1>4. \A j \in Goroutines : Holds(j) \/ frame[j].at = "uses" => frame[j].buf \in Buffers
  BY <1>1, FrameType DEF Holds
<1>5. /\ frame' \in [Goroutines -> Frames] /\ frame'[g].at = "out"
      /\ \A j \in Goroutines : j # g => frame'[j] = frame[j]
  BY <1>1, <1>2 DEF Frames, Out
<1>6. ~Holds(g)' /\ \A j \in Goroutines : j # g => (Holds(j)' <=> Holds(j))
  BY <1>5 DEF Holds
<1> HIDE DEF b
<1>7. /\ heap' \in [Buffers -> Contained]
      /\ \A c \in Buffers : heap'[c] = IF c = b THEN Zero ELSE heap[c]
  BY <1>1, <1>2 DEF Contained
<1>8. Types'
  BY <1>2, <1>5, <1>7 DEF Inv, Types
<1>9. Disjoint'
  BY <1>2, <1>5, <1>6 DEF Inv, Disjoint
<1>10. Contents'
  BY <1>1, <1>2, <1>3, <1>4, <1>5, <1>6, <1>7 DEF Inv, Contents
<1>11. Slices'
  BY <1>2, <1>4, <1>5, <1>7 DEF Inv, Slices
<1>12. TakenOnce'
  BY <1>2 DEF Inv, TakenOnce
<1>13. OneRevoker'
  <2>1. ~Revokes(g) /\ frame'[g].at # "revokes"
    BY <1>2, <1>5 DEF Revokes
  <2>2. /\ \A i, j \in Goroutines : Revokes(i)' /\ Revokes(j)' => i = j
        /\ \A i \in Goroutines : Revokes(i)' => frame'[i].todo \subseteq DOMAIN handles'
        /\ \A i : BeingRevoked(i) => BeingRevoked(i)'
    BY <1>2, <1>5, <2>1, RevokersKept DEF Inv
  <2>3. \A h \in DOMAIN handles : heap'[handles[h]] = heap[handles[h]]
    BY <1>1, <1>3, <1>7
  <2> QED
    BY <1>2, <2>2, <2>3 DEF Inv, OneRevoker
<1>14. Owned(b) /\ \A c : Owned(c)' <=> Owned(c) /\ c # b
  <2>1. \A c : (\E j \in Goroutines : Holds(j)' /\ c = frame'[j].buf) <=>
               c # b /\ \E j \in Goroutines : Holds(j) /\ c = frame[j].buf
    BY <1>3, <1>5, <1>6 DEF b
  <2>2. Owned(b)
    BY <1>2 DEF Owned, b
  <2> QED
    BY <1>2, <1>3, <2>1, <2>2 DEF Owned
<1>15. NothingLost' /\ Abandoned'
  <2>1. \A c \in orphaned \cup stuck : c # b
    BY <1>14 DEF Inv, Abandoned
  <2> QED
    BY <1>2, <1>7, <1>14, <2>1 DEF Inv, NothingLost, Abandoned
<1>16. PinnedRight'
  BY <1>2, <1>5 DEF Inv, PinnedRight
<1> QED
  BY <1>8, <1>9, <1>10, <1>11, <1>12, <1>13, <1>15, <1>16 DEF Inv

\* One step per action of the stores.
LEMMA StepInv == Inv /\ [Next]_vars => Inv'
<1> SUFFICES ASSUME Inv, [Next]_vars PROVE Inv'
  OBVIOUS
<1>1. ASSUME NEW g \in Goroutines, EndUse(g) PROVE Inv'
  <2>1. Out \in Frames /\ Out.at = "out"
    BY DEF Frames, Out
  <2> QED
    BY <1>1, <2>1, FrameInv DEF EndUse
<1>2. ASSUME NEW g \in Goroutines, ZeroCopy(g) PROVE Inv'
  BY <1>2, ZeroCopyInv
<1>3. ASSUME NEW g \in Goroutines, NEW h \in Handles, InsertMVK(g, h) PROVE Inv'
  BY <1>3, InsertMVKInv
<1>4. ASSUME NEW g \in Goroutines, NEW h \in Handles, Retrieve(g, h) PROVE Inv'
  <2> DEFINE f == [at |-> "uses", buf |-> handles[h], id |-> h]
  <2>1. h \in DOMAIN handles /\ handles[h] \in Buffers /\ frame[g].at = "out"
    BY <1>4 DEF Inv, Types, Retrieve, Out
  <2>2. f \in Frames /\ f.at = "uses" /\ f.id = h /\ f.buf = handles[h]
    BY <2>1 DEF Frames
  <2>3. frame' = [frame EXCEPT ![g] = f]
        /\ UNCHANGED <<heap, handles, slots, pinned, keyHistory>>
    BY <1>4 DEF Retrieve
  <2> HIDE DEF f
  <2> QED
    BY <2>1, <2>2, <2>3, FrameInv
<1>5. ASSUME NEW g \in Goroutines, NEW t \in Tokens, InsertSecret(g, t) PROVE Inv'
  BY <1>5, InsertSecretInv
<1>6. ASSUME NEW g \in Goroutines, NEW b \in Buffers, NEW k \in Keys, StoreMVK(g, b, k)
      PROVE  Inv'
  BY <1>6, CopyInv DEF StoreMVK
<1>7. ASSUME NEW g \in Goroutines, NEW b \in Buffers, NEW k \in Keys, StoreSecret(g, b, k)
      PROVE  Inv'
  BY <1>7, CopyInv DEF StoreSecret
<1>8. ASSUME NEW g \in Goroutines, NEW b \in Buffers, NEW t \in Tokens, RetrieveSecret(g, t, b)
      PROVE  Inv'
  BY <1>8, RetrieveSecretInv
<1>9. ASSUME NEW g \in Goroutines,
             Revoke(g, DOMAIN handles) \/ \E h \in DOMAIN handles : Revoke(g, {h})
      PROVE  Inv'
  BY <1>9, RevokeInv
<1>12. ASSUME NEW g \in Goroutines, PanicMVK(g) PROVE Inv'
  BY <1>12, PanicMVKInv
<1>13. ASSUME NEW g \in Goroutines, NEW h \in Handles, ZeroizeKey(g, h) PROVE Inv'
  BY <1>13, ZeroizeKeyInv
<1>14. ASSUME NEW g \in Goroutines, NEW h \in Handles, Release(g, h) PROVE Inv'
  BY <1>14, ReleaseInv
<1>10. CASE Wipe(DOMAIN slots) \/ \E t \in DOMAIN slots : Wipe({t})
  BY <1>10, WipeInv
<1>11. CASE UNCHANGED vars
  <2>1. UNCHANGED <<heap, handles, slots, pinned, frame, stored, taken, orphaned, stuck>>
    BY <1>11 DEF vars, keyHistory
  <2>2. \A g \in Goroutines : (Holds(g)' <=> Holds(g)) /\ (Revokes(g)' <=> Revokes(g))
    BY <2>1 DEF Holds, Revokes
  <2>3. \A x : (Owned(x)' <=> Owned(x)) /\ (BeingRevoked(x)' <=> BeingRevoked(x))
    BY <2>1, <2>2 DEF Owned, BeingRevoked
  <2>4. Types' /\ Disjoint' /\ Contents' /\ Slices' /\ TakenOnce'
    BY <2>1, <2>2 DEF Inv, Types, Disjoint, Contents, Slices, TakenOnce
  <2>5. OneRevoker'
    BY <2>1, <2>2, <2>3 DEF Inv, OneRevoker
  <2>6. NothingLost' /\ Abandoned' /\ PinnedRight'
    BY <2>1, <2>3 DEF Inv, NothingLost, Abandoned, PinnedRight
  <2> QED
    BY <2>4, <2>5, <2>6 DEF Inv
<1> QED
  BY <1>1, <1>2, <1>3, <1>4, <1>5, <1>6, <1>7, <1>8, <1>9, <1>10, <1>11, <1>12, <1>13, <1>14
     DEF Next

\* The inductive invariant holds in every reachable state.
THEOREM InvHolds == Spec => []Inv
  BY InitInv, StepInv, PTL DEF Spec

\* No interleaving of Store, Retrieve, Revoke, RevokeAll and Wipe, with zeroing
\* seen halfway, leaves secret bytes in a buffer nobody owns, or a buffer locked
\* that the MVK store has given up, other than by a panic or a failed Unlock.
THEOREM Residue == Spec => []NoResidue
<1>1. Inv => NoResidue
  <2> SUFFICES ASSUME Inv PROVE NoResidue
    OBVIOUS
  <2>1. ASSUME NEW b \in Buffers, heap[b] \notin {Fresh, Zero}
        PROVE  b \in Range(handles) \cup Range(slots) \cup orphaned
                       \cup UNION {In(where) : where \in {"mvk", "slot", "copy"}}
    <3>1. Owned(b) \/ b \in orphaned
      BY <2>1 DEF Inv, NothingLost
    <3>2. ASSUME NEW g \in Goroutines, Holds(g), b = frame[g].buf
          PROVE  b \in UNION {In(where) : where \in {"mvk", "slot", "copy"}}
      <4>1. b \in In(frame[g].at) /\ frame[g].at \in {"mvk", "slot", "copy"}
        BY <3>2 DEF In, Holds
      <4> QED
        BY <4>1
    <3> QED
      BY <3>1, <3>2 DEF Owned, Range
  <2>2. pinned = Range(handles) \cup In("mvk") \cup orphaned \cup stuck
    BY DEF Inv, PinnedRight, Range, In
  <2>3. \A b \in stuck : heap[b] = Zero
    BY DEF Inv, Abandoned
  <2> QED
    BY <2>1, <2>2, <2>3 DEF NoResidue
<1> QED
  BY <1>1, InvHolds, PTL

\* A slice shows the whole key until its handle is being revoked, nothing but
\* that key or less while it is, and zeros when it is gone.
THEOREM SliceRight == Spec => []SliceShowsOwnKey
<1>1. Inv => SliceShowsOwnKey
  <2> SUFFICES ASSUME Inv, NEW g \in Goroutines, frame[g].at = "uses"
               PROVE  /\ frame[g].id \in DOMAIN handles \ Revoking =>
                           heap[frame[g].buf] = stored[frame[g].id]
                      /\ frame[g].id \in Revoking =>
                           heap[frame[g].buf] \in {stored[frame[g].id], Torn, Zero}
                      /\ frame[g].id \notin DOMAIN handles => heap[frame[g].buf] = Zero
    BY DEF SliceShowsOwnKey
  <2>1. \A h : h \in Revoking <=> BeingRevoked(h)
    BY DEF Revoking, BeingRevoked, Revokes
  <2>2. frame[g].id \in Revoking => frame[g].id \in DOMAIN handles
    BY <2>1 DEF Inv, OneRevoker, BeingRevoked
  <2>3. frame[g].id \in DOMAIN handles => frame[g].buf = handles[frame[g].id]
    BY DEF Inv, Slices
  <2>4. frame[g].id \in DOMAIN handles \ Revoking => heap[frame[g].buf] = stored[frame[g].id]
    BY <2>1, <2>3 DEF Inv, OneRevoker
  <2>5. frame[g].id \in Revoking => heap[frame[g].buf] \in {stored[frame[g].id], Torn, Zero}
    BY <2>2, <2>3 DEF Inv, Contents
  <2> QED
    BY <2>4, <2>5 DEF Inv, Slices
<1> QED
  BY <1>1, InvHolds, PTL

\* A secret of the guard is handed out at most once and unaltered.
THEOREM TakenRight == Spec => []SecretTakenOnce
<1>1. Inv => SecretTakenOnce
  BY DEF Inv, TakenOnce, SecretTakenOnce
<1> QED
  BY <1>1, InvHolds, PTL

-----------------------------------------------------------------------------
\* Write transactions.

\* The store's index: what touched a block last, or nobody.
Images == {Nobody} \cup [by: Txs, n: Nat \ {0}]

\* Staged and planned operations are sequences of blocks, positions start at 1.
TxTypes ==
  /\ writes \in [Txs -> Seq(Ids)] /\ deletes \in [Txs -> Seq(Ids)]
  /\ done \in [Txs -> BOOLEAN]
  /\ step \in [Txs -> Nat \ {0}] /\ flushed \in [Txs -> Nat \ {0}]
  /\ at \in [Txs -> {"open", "committing", "committed", "failed", "rolledBack", "lost"}]
  /\ store \in [Ids -> Images] /\ disk \in [Ids -> Images]
  /\ plan \in [Txs -> Seq(Ids)]

\* How far t has come, in memory and on disk, by where it stands.
Progress(t) ==
  /\ ~ done[t] <=> at[t] = "open"
  /\ at[t] = "open" => step[t] = 1 /\ flushed[t] = 1
  /\ at[t] = "committing" => plan[t] = Staged(t) /\ step[t] <= Len(plan[t]) + 1
  /\ at[t] = "committed" =>
       step[t] = Len(plan[t]) + 1 /\ flushed[t] = Len(plan[t]) + 1

\* The inductive invariant: the property itself, with the types of the state and
\* the place of every transaction in its own plan.
TxInv == TxTypes /\ (\A t \in Txs : Progress(t)) /\ PlayedInOrder

\* The last operation of a plan on a block, among the first n.
LastIn(p, id, n) == Max({0} \cup {i \in 1 .. n : i <= Len(p) /\ p[i] = id})

\* Nothing has been done by the first zero operations.
LEMMA LastInNone ==
  ASSUME NEW p, NEW id
  PROVE  LastIn(p, id, 0) = 0
<1>1. {0} \cup {i \in 1 .. 0 : i <= Len(p) /\ p[i] = id} = {0}
  OBVIOUS
<1> QED BY <1>1 DEF LastIn, Max

\* The n-th operation is the last on its own block and on no other.
LEMMA LastInNext ==
  ASSUME NEW p \in Seq(Ids), NEW id, NEW n \in Nat \ {0}, n <= Len(p)
  PROVE  /\ p[n] = id => LastIn(p, id, n) = n
         /\ p[n] # id => LastIn(p, id, n) = LastIn(p, id, n - 1)
<1>1. ASSUME p[n] = id PROVE LastIn(p, id, n) = n
  <2> DEFINE S == {0} \cup {i \in 1 .. n : i <= Len(p) /\ p[i] = id}
  <2>1. n \in S /\ \A y \in S : y \in Nat /\ n >= y
    BY <1>1
  <2> HIDE DEF S
  <2>2. \A x \in S : (\A y \in S : x >= y) => x = n
    BY <2>1
  <2>3. Max(S) = n
    BY <2>1, <2>2 DEF Max
  <2> QED BY <2>3 DEF LastIn, S
<1>2. ASSUME p[n] # id PROVE LastIn(p, id, n) = LastIn(p, id, n - 1)
  <2>1. {i \in 1 .. n : i <= Len(p) /\ p[i] = id}
          = {i \in 1 .. n - 1 : i <= Len(p) /\ p[i] = id}
    BY <1>2
  <2> QED BY <2>1 DEF LastIn
<1> QED BY <1>1, <1>2

\* What an image shows of one transaction and one block.
ShowsOne(image, p, t, id, n) ==
  /\ image[id].by = t => LastIn(p, id, n) > 0 /\ image[id].n = LastIn(p, id, n)
  /\ image[id] = Nobody => LastIn(p, id, n) = 0

\* The property, as one statement for each transaction and each block, in a state
\* and in the state after a step.
LEMMA ShowsEach ==
  ASSUME NEW image, NEW pos
  PROVE  Shows(image, pos) <=>
           \A t \in Txs, id \in Ids : ShowsOne(image, plan[t], t, id, pos[t] - 1)
BY DEF Shows, ShowsOne, LastOn, LastIn

LEMMA ShowsEachPrimed ==
  PlayedInOrder' <=>
    \A t \in Txs, id \in Ids :
      /\ ShowsOne(store', plan'[t], t, id, step'[t] - 1)
      /\ ShowsOne(disk', plan'[t], t, id, flushed'[t] - 1)
BY DEF PlayedInOrder, Shows, ShowsOne, LastOn, LastIn

\* What the invariant says of one transaction and one block.
LEMMA Played ==
  ASSUME TxInv, NEW t \in Txs, NEW id \in Ids
  PROVE  /\ ShowsOne(store, plan[t], t, id, step[t] - 1)
         /\ ShowsOne(disk, plan[t], t, id, flushed[t] - 1)
BY ShowsEach DEF TxInv, PlayedInOrder
-----------------------------------------------------------------------------

\* Commit fixes the plan and has played nothing of it yet.
LEMMA StepCommit ==
  ASSUME TxInv, NEW t \in Txs, Commit(t)
  PROVE  TxInv'
<1>1. at[t] = "open" /\ step[t] = 1 /\ flushed[t] = 1
  BY DEF TxInv, Progress, Commit
<1>2. Staged(t) \in Seq(Ids) /\ Staged(t)' = Staged(t)
  BY DEF TxInv, TxTypes, Staged, Commit
<1>3. TxTypes'
  BY <1>2 DEF TxInv, TxTypes, Commit, Ended
<1>4. ASSUME NEW u \in Txs PROVE Progress(u)'
  <2>1. CASE u = t
    BY <1>1, <1>2, <2>1 DEF TxInv, TxTypes, Progress, Commit, Ended
  <2>2. CASE u # t
    BY <2>2 DEF TxInv, TxTypes, Progress, Commit, Ended, Staged
  <2> QED BY <2>1, <2>2
<1>5. PlayedInOrder'
  <2> SUFFICES ASSUME NEW u \in Txs, NEW id \in Ids
               PROVE  /\ ShowsOne(store', plan'[u], u, id, step'[u] - 1)
                      /\ ShowsOne(disk', plan'[u], u, id, flushed'[u] - 1)
    BY ShowsEachPrimed
  <2>1. UNCHANGED <<store, disk, step, flushed>>
    BY DEF Commit
  <2>2. CASE u = t
    <3>1. step[u] - 1 = 0 /\ flushed[u] - 1 = 0
      BY <1>1, <2>2
    <3>2. LastIn(plan[u], id, 0) = 0 /\ LastIn(plan'[u], id, 0) = 0
      BY LastInNone
    <3>3. ShowsOne(store, plan[u], u, id, 0) /\ ShowsOne(disk, plan[u], u, id, 0)
      BY <3>1, Played
    <3> QED BY <2>1, <3>1, <3>2, <3>3 DEF ShowsOne
  <2>3. CASE u # t
    <3>1. plan'[u] = plan[u]
      BY <2>3 DEF Commit, TxInv, TxTypes
    <3> QED BY <2>1, <3>1, Played
  <2> QED BY <2>2, <2>3
<1> QED BY <1>3, <1>4, <1>5 DEF TxInv

\* The operation that Commit plays is the last on its block, in this transaction.
LEMMA StepApply ==
  ASSUME TxInv, NEW t \in Txs, Apply(t), "nobody" \notin Txs
  PROVE  TxInv'
<1> DEFINE n == step[t]
           b == Staged(t)[n]
<1>1. /\ n \in Nat \ {0} /\ n <= Len(plan[t]) /\ plan[t] = Staged(t)
      /\ plan[t] \in Seq(Ids) /\ b \in Ids /\ plan[t][n] = b
  BY DEF TxInv, TxTypes, Progress, Apply
<1>2. /\ store' = [store EXCEPT ![b] = [by |-> t, n |-> n]]
      /\ step' = [step EXCEPT ![t] = n + 1]
      /\ UNCHANGED <<writes, deletes, done, at, disk, plan, flushed>>
  BY DEF Apply, txVars, history, TxInv, TxTypes
<1>3. TxTypes'
  BY <1>1, <1>2 DEF TxInv, TxTypes, Images
<1>4. ASSUME NEW u \in Txs PROVE Progress(u)'
  <2>1. CASE u = t
    BY <1>1, <1>2, <2>1 DEF TxInv, TxTypes, Progress, Apply, Staged
  <2>2. CASE u # t
    BY <1>2, <2>2 DEF TxInv, TxTypes, Progress, Staged
  <2> QED BY <2>1, <2>2
<1> HIDE DEF n, b
<1>5. PlayedInOrder'
  <2> SUFFICES ASSUME NEW u \in Txs, NEW id \in Ids
               PROVE  ShowsOne(store', plan'[u], u, id, step'[u] - 1)
    BY <1>2, ShowsEachPrimed, Played
  <2>1. ShowsOne(store, plan[u], u, id, step[u] - 1) /\ plan' = plan
    BY <1>2, Played
  <2>2. CASE u = t /\ id = b
    <3>1. LastIn(plan[t], b, n) = n
      BY <1>1, LastInNext
    <3>2. step'[u] - 1 = n /\ store'[id] = [by |-> t, n |-> n]
      BY <1>1, <1>2, <2>2 DEF TxInv, TxTypes
    <3>3. store'[id] # Nobody
      BY <1>1, <3>2 DEF Nobody
    <3> QED BY <1>1, <2>1, <2>2, <3>1, <3>2, <3>3 DEF ShowsOne
  <2>3. CASE u = t /\ id # b
    <3>1. LastIn(plan[t], id, n) = LastIn(plan[t], id, n - 1)
      BY <1>1, <2>3, LastInNext
    <3>2. step'[u] - 1 = n /\ step[u] - 1 = n - 1 /\ store'[id] = store[id]
      BY <1>1, <1>2, <2>3 DEF TxInv, TxTypes, n
    <3> QED BY <2>1, <2>3, <3>1, <3>2 DEF ShowsOne
  <2>4. CASE u # t
    <3>1. step'[u] = step[u]
      BY <1>2, <2>4 DEF TxInv, TxTypes
    <3>2. CASE id = b
      <4>1. store'[id] = [by |-> t, n |-> n]
        BY <1>1, <1>2, <3>2 DEF TxInv, TxTypes
      <4>2. store'[id].by # u /\ store'[id] # Nobody
        BY <1>1, <2>4, <4>1 DEF Nobody
      <4> QED BY <4>2 DEF ShowsOne
    <3>3. CASE id # b
      <4>1. store'[id] = store[id]
        BY <1>2, <3>3 DEF TxInv, TxTypes
      <4> QED BY <2>1, <3>1, <4>1 DEF ShowsOne
    <3> QED BY <3>2, <3>3
  <2> QED BY <2>2, <2>3, <2>4
<1> QED BY <1>3, <1>4, <1>5 DEF TxInv

\* Flush writes the index and the positions at one moment.
LEMMA StepFlush ==
  ASSUME TxInv, NEW t \in Txs, Flush(t)
  PROVE  TxInv'
<1>1. step[t] = Len(plan[t]) + 1
  BY DEF TxInv, TxTypes, Progress, Flush
<1>2. TxTypes'
  BY DEF TxInv, TxTypes, Flush, Ended, txVars
<1>3. ASSUME NEW u \in Txs PROVE Progress(u)'
  <2>1. CASE u = t
    BY <1>1, <2>1 DEF TxInv, TxTypes, Progress, Flush, Ended, txVars
  <2>2. CASE u # t
    BY <2>2 DEF TxInv, TxTypes, Progress, Flush, Ended, txVars, Staged
  <2> QED BY <2>1, <2>2
<1>4. PlayedInOrder'
  BY ShowsEachPrimed, Played DEF Flush
<1> QED BY <1>2, <1>3, <1>4 DEF TxInv

\* A crash takes memory back to the flushed index and positions.
LEMMA StepCrash ==
  ASSUME TxInv, Crash
  PROVE  TxInv'
<1>1. TxTypes'
  BY DEF TxInv, TxTypes, Crash, history
<1>2. ASSUME NEW u \in Txs PROVE Progress(u)'
  BY DEF TxInv, TxTypes, Progress, Crash, history
<1>3. PlayedInOrder'
  BY ShowsEachPrimed, Played DEF Crash, history
<1> QED BY <1>1, <1>2, <1>3 DEF TxInv

\* The steps that touch neither the store nor the disk.
LEMMA StepStaging ==
  ASSUME TxInv, NEW t \in Txs,
         \/ \E id \in Ids : WriteBlock(t, id) \/ DeleteBlock(t, id)
         \/ Fail(t) \/ Rollback(t)
  PROVE  TxInv'
<1>1. UNCHANGED <<step, store, disk, plan, flushed>>
  BY DEF WriteBlock, DeleteBlock, Fail, Rollback, history
<1>2. PlayedInOrder'
  BY <1>1, ShowsEachPrimed, Played
<1>3. CASE \E id \in Ids : WriteBlock(t, id) \/ DeleteBlock(t, id)
  <2>1. at[t] = "open"
    BY <1>3 DEF TxInv, Progress, WriteBlock, DeleteBlock, MayStage
  <2>2. TxTypes'
    <3>1. writes' \in [Txs -> Seq(Ids)] /\ deletes' \in [Txs -> Seq(Ids)]
      <4>1. PICK id \in Ids : WriteBlock(t, id) \/ DeleteBlock(t, id)
        BY <1>3
      <4>2. Append(writes[t], id) \in Seq(Ids) /\ Append(deletes[t], id) \in Seq(Ids)
        BY DEF TxInv, TxTypes
      <4> QED BY <4>1, <4>2 DEF TxInv, TxTypes, WriteBlock, DeleteBlock
    <3>2. UNCHANGED <<done, at>>
      BY <1>3 DEF WriteBlock, DeleteBlock
    <3> QED BY <1>1, <3>1, <3>2 DEF TxInv, TxTypes
  <2>3. ASSUME NEW u \in Txs PROVE Progress(u)'
    <3>1. UNCHANGED <<done, at>>
      BY <1>3 DEF WriteBlock, DeleteBlock
    <3>2. u # t => Staged(u)' = Staged(u)
      BY <1>3 DEF TxInv, TxTypes, WriteBlock, DeleteBlock, Staged
    <3> QED BY <1>1, <2>1, <3>1, <3>2 DEF TxInv, Progress
  <2> QED BY <1>2, <2>2, <2>3 DEF TxInv
<1>4. CASE Fail(t)
  <2>1. TxTypes'
    BY <1>1, <1>4 DEF TxInv, TxTypes, Fail, Ended, txVars
  <2>2. ASSUME NEW u \in Txs PROVE Progress(u)'
    BY <1>1, <1>4 DEF TxInv, TxTypes, Progress, Fail, Ended, txVars, Staged
  <2> QED BY <1>2, <2>1, <2>2 DEF TxInv
<1>5. CASE Rollback(t)
  <2>1. TxTypes'
    BY <1>1, <1>5 DEF TxInv, TxTypes, Rollback
  <2>2. ASSUME NEW u \in Txs PROVE Progress(u)'
    BY <1>1, <1>5 DEF TxInv, TxTypes, Progress, Rollback, Staged
  <2> QED BY <1>2, <2>1, <2>2 DEF TxInv
<1> QED BY <1>3, <1>4, <1>5

\* The invariant holds before the first call.
LEMMA TxInitInv == TxInit => TxInv
<1> SUFFICES ASSUME TxInit PROVE TxInv
  OBVIOUS
<1>1. TxTypes
  BY DEF TxInit, TxTypes, Images
<1>2. \A t \in Txs : Progress(t)
  BY DEF TxInit, Progress
<1>3. PlayedInOrder
  <2>1. ASSUME NEW t \in Txs, NEW id \in Ids
        PROVE  ShowsOne(store, plan[t], t, id, step[t] - 1)
    <3>1. step[t] - 1 = 0 /\ store[id] = Nobody
      BY DEF TxInit
    <3>2. store[id].by # t
      BY <3>1, TransactionAssumption DEF Nobody
    <3> QED BY <3>1, <3>2, LastInNone DEF ShowsOne
  <2> QED BY <2>1, ShowsEach DEF PlayedInOrder, TxInit
<1> QED BY <1>1, <1>2, <1>3 DEF TxInv

\* Every step keeps it.
LEMMA TxStepInv == TxInv /\ [TxNext]_allTxVars => TxInv'
<1> SUFFICES ASSUME TxInv, [TxNext]_allTxVars PROVE TxInv'
  OBVIOUS
<1>1. CASE UNCHANGED allTxVars
  <2>1. UNCHANGED <<writes, deletes, done, step, at, store, disk, plan, flushed>>
    BY <1>1 DEF allTxVars, txVars, history
  <2>2. PlayedInOrder'
    BY <2>1, ShowsEachPrimed, Played
  <2> QED BY <2>1, <2>2 DEF TxInv, TxTypes, Progress, Staged
<1>2. CASE TxNext
  BY <1>2, StepStaging, StepCommit, StepApply, StepFlush, StepCrash, TransactionAssumption
  DEF TxNext
<1> QED BY <1>1, <1>2

\* The invariant holds in every reachable state of the transactions, their store
\* and its disk.
THEOREM TxInvHolds == TxSpec => []TxInv
BY TxInitInv, TxStepInv, PTL DEF TxSpec

\* What InMemoryWriteTransaction.Commit has done is a prefix of its writes and then
\* its deletes, in order, in memory and on disk, whatever the other commits, the
\* errors of the store and the crashes.
THEOREM InOrder == TxSpec => []PlayedInOrder
<1>1. TxInv => PlayedInOrder
  BY DEF TxInv
<1> QED BY <1>1, TxInvHolds, PTL

\* When Commit has returned nil, the index on disk shows its last operation on each
\* block it touched, or another transaction's, and goes on doing so after any crash.
THEOREM Durable == TxSpec => []CommitIsDurable
<1>1. TxInv => CommitIsDurable
  <2> SUFFICES ASSUME TxInv, NEW t \in Txs, NEW id \in Ids, at[t] = "committed",
                      LastOn(t, id, Len(plan[t])) > 0
               PROVE  /\ disk[id] # Nobody
                      /\ disk[id].by = t => disk[id].n = LastOn(t, id, Len(plan[t]))
    BY DEF CommitIsDurable
  <2>1. flushed[t] - 1 = Len(plan[t])
    BY DEF TxInv, TxTypes, Progress
  <2>2. LastOn(t, id, Len(plan[t])) = LastIn(plan[t], id, flushed[t] - 1)
    BY <2>1 DEF LastOn, LastIn
  <2>3. ShowsOne(disk, plan[t], t, id, flushed[t] - 1)
    BY Played
  <2> QED BY <2>2, <2>3 DEF ShowsOne
<1> QED BY <1>1, TxInvHolds, PTL

=============================================================================
