--------------------------- MODULE AuditLogProofs ---------------------------
(***************************************************************************)
(* For every capacity and any number of writers and events: the ring       *)
(* buffer's hash chain is unbroken, Recent returns the newest events, and  *)
(* the ring buffer implements the bounded first-in first-out log.          *)
(***************************************************************************)
EXTENDS AuditLog, SequenceTheorems, TLAPS

\* The events kept, oldest first: what log is mapped to in Abstract.
Log == [i \in 1..size |-> EntryAt(i - 1).event]

\* The inductive invariant.  That what was drained stays covered by the chain
\* needs to be known of what is still in the ring.
Inv ==
  /\ TypeOK
  /\ ChainUnbroken
  /\ \A i \in 0..(size - 1) :
       /\ EntryAt(i).event \in Events
       /\ \E j \in 1..Len(lastHash) : lastHash[j] = EntryAt(i).event

-----------------------------------------------------------------------------
(* Index arithmetic of the ring.                                           *)

\* The slot i entries after slot h.
Index(h, i) == (h + i) % Capacity

\* An index wraps around at most once.
LEMMA Wrap ==
  ASSUME NEW h \in Slots, NEW i \in 0..Capacity
  PROVE  /\ Index(h, i) = IF h + i < Capacity THEN h + i ELSE h + i - Capacity
         /\ Index(h, i) \in Slots
BY CapacityAssumption DEF CapacityAssumption, Slots, Index

\* Fewer than Capacity entries apart, slots differ.
LEMMA WrapInjective ==
  ASSUME NEW h \in Slots, NEW i \in 0..Capacity, NEW j \in 0..Capacity,
         i < j, j - i < Capacity
  PROVE  Index(h, i) # Index(h, j)
<1>1. /\ Index(h, i) = IF h + i < Capacity THEN h + i ELSE h + i - Capacity
      /\ Index(h, j) = IF h + j < Capacity THEN h + j ELSE h + j - Capacity
  BY Wrap
<1> QED
  BY <1>1, CapacityAssumption DEF CapacityAssumption, Slots

\* Moving the head by k and then by i is moving it by k + i.
LEMMA WrapAdd ==
  ASSUME NEW h \in Slots, NEW k \in 0..Capacity, NEW i \in 0..Capacity, k + i <= Capacity
  PROVE  Index(Index(h, k), i) = Index(h, k + i)
<1>1. k + i \in 0..Capacity /\ Index(h, k) \in Slots
  BY CapacityAssumption, Wrap DEF CapacityAssumption
<1> DEFINE m == Index(h, k)
<1>2. m = IF h + k < Capacity THEN h + k ELSE h + k - Capacity
  BY Wrap
<1>3. Index(h, k + i) = IF h + (k + i) < Capacity THEN h + (k + i) ELSE h + (k + i) - Capacity
  BY <1>1, Wrap
<1>4. m \in Slots
  BY <1>1
<1> HIDE DEF m
<1>5. Index(m, i) = IF m + i < Capacity THEN m + i ELSE m + i - Capacity
  BY <1>4, Wrap
<1>6. Index(m, i) = Index(h, k + i)
  BY <1>2, <1>3, <1>5, CapacityAssumption DEF CapacityAssumption, Slots
<1> QED
  BY <1>6 DEF m

\* An entry for e is added: the ones kept stay where they are, seen from the
\* new head, and the new one is last.
Extended(e) ==
  /\ size \in 0..Capacity /\ size' \in 1..Capacity /\ Capacity \in Nat \ {0}
  /\ head' \in Slots
  /\ size < Capacity =>
       /\ size' = size + 1
       /\ \A i \in 0..(size - 1) : EntryAt(i)' = EntryAt(i)
  /\ ~(size < Capacity) =>
       /\ size = Capacity /\ size' = size
       /\ \A i \in 0..(size - 2) : EntryAt(i)' = EntryAt(i + 1)
  /\ EntryAt(size - 1)' = [event |-> e, hash |-> lastHash']

\* Append extends the ring by the event stamped.
LEMMA AppendRing ==
  ASSUME TypeOK, NEW w \in Writers, AppendEvent(w)
  PROVE  Extended(stamped[w])
<1> DEFINE new == [event |-> stamped[w], hash |-> lastHash']
<1>1. Capacity \in Nat \ {0}
  BY CapacityAssumption DEF CapacityAssumption
<1>2. /\ head \in Slots /\ size \in 0..Capacity /\ DOMAIN ring = Slots
      /\ ring' = [ring EXCEPT ![Index(head, size)] = new]
      /\ Advance
  BY DEF TypeOK, AppendEvent, Index
<1>3. Index(head, size) \in Slots
  BY <1>2, Wrap
<1>4. ring'[Index(head, size)] = new
      /\ \A s \in Slots : s # Index(head, size) => ring'[s] = ring[s]
  BY <1>2, <1>3
<1> HIDE DEF new
<1>5. CASE size < Capacity
  <2>1. size' = size + 1 /\ head' = head
    BY <1>1, <1>2, <1>5 DEF Advance
  <2>2. ASSUME NEW i \in 0..(size - 1) PROVE EntryAt(i)' = EntryAt(i)
    <3>1. i \in 0..Capacity /\ i < size /\ size - i < Capacity
      BY <1>1, <1>2, <1>5
    <3>2. Index(head, i) \in Slots /\ Index(head, i) # Index(head, size)
      BY <1>2, <3>1, Wrap, WrapInjective
    <3>3. ring'[Index(head, i)] = ring[Index(head, i)]
      BY <1>4, <3>2
    <3> QED
      BY <2>1, <3>3 DEF EntryAt, Index
  <2>3. EntryAt(size - 1)' = new
    <3>1. size' - 1 = size
      BY <1>2, <2>1
    <3> QED
      BY <1>4, <2>1, <3>1 DEF EntryAt, Index
  <2>4. size' \in 1..Capacity /\ head' \in Slots
    BY <1>1, <1>2, <1>5, <2>1
  <2> QED
    BY <1>1, <1>2, <1>5, <2>1, <2>2, <2>3, <2>4 DEF new, Extended
<1>6. CASE ~(size < Capacity)
  <2>1. size = Capacity /\ size' = size /\ head' = Index(head, 1)
    BY <1>1, <1>2, <1>6 DEF Advance, Index
  <2>2. head' \in Slots /\ 1 \in 0..Capacity
    BY <1>1, <1>2, <2>1, Wrap
  <2>3. Index(head, size) = head
    <3>1. Index(head, size) = IF head + size < Capacity THEN head + size ELSE head + size - Capacity
      BY <1>2, Wrap
    <3> QED
      BY <1>1, <1>2, <2>1, <3>1 DEF Slots
  <2>4. ASSUME NEW i \in 0..(size - 2) PROVE EntryAt(i)' = EntryAt(i + 1)
    <3>1. i \in 0..Capacity /\ i + 1 \in 0..Capacity /\ 1 + i = i + 1 /\ i + 1 <= Capacity
          /\ i + 1 < size /\ size - (i + 1) < Capacity
      BY <1>1, <1>2, <2>1
    <3>2. Index(head', i) = Index(head, i + 1)
      BY <1>2, <2>1, <2>2, <3>1, WrapAdd
    <3>3. Index(head, i + 1) \in Slots /\ Index(head, i + 1) # Index(head, size)
      BY <1>2, <3>1, Wrap, WrapInjective
    <3>4. ring'[Index(head', i)] = ring[Index(head, i + 1)]
      BY <1>4, <3>2, <3>3
    <3> QED
      BY <3>4 DEF EntryAt, Index
  <2>5. EntryAt(size - 1)' = new
    <3>1. size - 1 \in 0..Capacity /\ 1 + (size - 1) = size /\ size <= Capacity
      BY <1>1, <1>2, <2>1
    <3>2. Index(head', size - 1) = Index(head, size)
      BY <1>2, <2>1, <2>2, <3>1, WrapAdd
    <3>3. ring'[Index(head', size' - 1)] = new
      BY <1>4, <2>1, <3>2
    <3> QED
      BY <3>3 DEF EntryAt, Index
  <2>6. size' \in 1..Capacity
    BY <1>1, <1>2, <2>1
  <2> QED
    BY <1>1, <1>2, <1>6, <2>1, <2>2, <2>4, <2>5, <2>6 DEF new, Extended
<1> QED
  BY <1>5, <1>6

-----------------------------------------------------------------------------
(* The invariant.                                                          *)

\* A new log satisfies the invariant.
LEMMA InitInv == Init => Inv
<1> SUFFICES ASSUME Init PROVE Inv
  OBVIOUS
<1>1. size = 0 /\ head = 0 /\ lastHash = <<>> /\ drained = <<>> /\ clock = 0
  BY DEF Init
<1>2. TypeOK
  BY <1>1, CapacityAssumption DEF Init, TypeOK, CapacityAssumption, Slots, Unused
<1>3. ChainUnbroken
  BY <1>1 DEF ChainUnbroken
<1> QED
  BY <1>1, <1>2, <1>3 DEF Inv

\* The log is a sequence of events.
LEMMA LogType ==
  ASSUME Inv
  PROVE  Log \in Seq(Events) /\ Len(Log) = size
<1>1. size \in Nat
  BY DEF Inv, TypeOK
<1>2. \A i \in 1..size : EntryAt(i - 1).event \in Events
  BY <1>1 DEF Inv
<1> QED
  BY <1>1, <1>2 DEF Log

\* Append, with the mutex held.
LEMMA AppendInv ==
  ASSUME Inv, NEW w \in Writers, AppendEvent(w)
  PROVE  Inv'
<1>1. TypeOK /\ stamped[w] \in Events /\ lastHash \in Seq(Events)
  BY DEF Inv, TypeOK, AppendEvent
<1> DEFINE e == stamped[w]
<1>2. Extended(e)
  BY <1>1, AppendRing
<1>3. /\ lastHash' = Append(lastHash, e) /\ drained' = drained
      /\ lastHash' \in Seq(Events) /\ Len(lastHash') = Len(lastHash) + 1
      /\ Len(lastHash) \in Nat
      /\ \A j \in 1..Len(lastHash) : lastHash'[j] = lastHash[j]
      /\ lastHash'[Len(lastHash')] = e
  BY <1>1, AppendProperties DEF AppendEvent, Hash
<1>4. ASSUME NEW x, \E j \in 1..Len(lastHash) : lastHash[j] = x
      PROVE  \E j \in 1..Len(lastHash') : lastHash'[j] = x
  BY <1>3, <1>4
<1>5. TypeOK'
  <2>1. (head + size) % Capacity \in Slots
    BY <1>1, Wrap DEF TypeOK, Index
  <2>2. ring' \in [Slots -> [event: Events \cup {NoEvent}, hash: Seq(Events)]]
    BY <1>1, <1>3, <2>1 DEF AppendEvent, TypeOK
  <2>3. stamped' \in [Writers -> Events \cup {NoEvent}] /\ clock' = clock
    BY <1>1 DEF AppendEvent, TypeOK
  <2> QED
    BY <1>1, <1>2, <1>3, <2>2, <2>3 DEF TypeOK, Extended
<1>6. ASSUME NEW i \in 0..(size' - 1)
      PROVE  /\ EntryAt(i)'.event \in Events
             /\ \E j \in 1..Len(lastHash') : lastHash'[j] = EntryAt(i)'.event
  <2>1. size \in 0..Capacity /\ size' \in 1..Capacity
    BY <1>2 DEF Extended
  <2>2. CASE i = size' - 1
    <3>1. EntryAt(i)'.event = e
      BY <1>2, <2>2 DEF Extended
    <3>2. Len(lastHash') \in 1..Len(lastHash')
      BY <1>3
    <3> QED
      BY <1>1, <1>3, <3>1, <3>2
  <2>3. CASE i # size' - 1
    <3>1. \E k \in 0..(size - 1) : EntryAt(i)' = EntryAt(k)
      <4>1. CASE size < Capacity
        BY <1>2, <2>1, <2>3, <4>1 DEF Extended
      <4>2. CASE ~(size < Capacity)
        <5>1. i + 1 \in 0..(size - 1) /\ EntryAt(i)' = EntryAt(i + 1)
          BY <1>2, <2>1, <2>3, <4>2 DEF Extended
        <5> QED
          BY <5>1
      <4> QED
        BY <4>1, <4>2
    <3> QED
      BY <1>4, <3>1 DEF Inv
  <2> QED
    BY <2>2, <2>3
<1>7. ChainUnbroken'
  <2>1. size \in 0..Capacity /\ size' \in 1..Capacity /\ Capacity \in Nat
    BY <1>2 DEF Extended
  <2>2. EntryAt(size - 1)' = [event |-> e, hash |-> Hash(lastHash, e)]
    BY <1>2 DEF AppendEvent, Extended
  <2>3. ASSUME NEW i \in 1..(size' - 1)
        PROVE  EntryAt(i)'.hash = Hash(EntryAt(i - 1)'.hash, EntryAt(i)'.event)
    <3>1. CASE size < Capacity
      <4>1. size' = size + 1 /\ EntryAt(i - 1)' = EntryAt(i - 1)
        BY <1>2, <2>1, <3>1 DEF Extended
      <4>2. CASE i = size
        <5>1. EntryAt(i - 1).hash = lastHash
          BY <4>2 DEF Inv, ChainUnbroken
        <5>2. EntryAt(i)' = [event |-> e, hash |-> Hash(lastHash, e)]
          BY <2>1, <2>2, <4>1, <4>2
        <5> QED
          BY <4>1, <5>1, <5>2
      <4>3. CASE i # size
        <5>1. i \in 1..(size - 1) /\ EntryAt(i)' = EntryAt(i)
          BY <1>2, <2>1, <3>1, <4>1, <4>3 DEF Extended
        <5> QED
          BY <4>1, <5>1 DEF Inv, ChainUnbroken
      <4> QED
        BY <4>2, <4>3
    <3>2. CASE ~(size < Capacity)
      <4>1. size = Capacity /\ size' = size /\ EntryAt(i - 1)' = EntryAt(i)
        <5>1. size = Capacity /\ size' = size
          BY <1>2, <3>2 DEF Extended
        <5>2. i - 1 \in 0..(size - 2) /\ (i - 1) + 1 = i
          BY <2>1, <5>1
        <5>3. EntryAt(i - 1)' = EntryAt((i - 1) + 1)
          BY <1>2, <3>2, <5>2 DEF Extended
        <5> QED
          BY <5>1, <5>2, <5>3
      <4>2. CASE i = size - 1
        <5>1. EntryAt(i).hash = lastHash
          BY <2>1, <4>2 DEF Inv, ChainUnbroken
        <5>2. EntryAt(i)' = [event |-> e, hash |-> Hash(lastHash, e)]
          BY <2>1, <2>2, <4>1, <4>2
        <5> QED
          BY <4>1, <5>1, <5>2
      <4>3. CASE i # size - 1
        <5>1. i + 1 \in 1..(size - 1) /\ EntryAt(i)' = EntryAt(i + 1) /\ (i + 1) - 1 = i
          BY <1>2, <2>1, <3>2, <4>1, <4>3 DEF Extended
        <5>2. EntryAt(i + 1).hash = Hash(EntryAt((i + 1) - 1).hash, EntryAt(i + 1).event)
          BY <5>1 DEF Inv, ChainUnbroken
        <5> QED
          BY <4>1, <5>1, <5>2
      <4> QED
        BY <4>2, <4>3
    <3> QED
      BY <3>1, <3>2
  <2>4. EntryAt(size - 1)'.hash = lastHash'
    BY <2>2 DEF AppendEvent
  <2>5. \A i \in 1..Len(drained') : \E j \in 1..Len(lastHash') : lastHash'[j] = drained'[i]
    BY <1>3, <1>4 DEF Inv, ChainUnbroken
  <2> QED
    BY <2>3, <2>4, <2>5 DEF ChainUnbroken
<1> QED
  BY <1>5, <1>6, <1>7 DEF Inv

\* Drain hands out the log and empties the ring.
LEMMA DrainInv ==
  ASSUME Inv, Drain
  PROVE  Inv'
<1>1. /\ drained' = drained \o Log /\ size' = 0 /\ head' = 0
      /\ UNCHANGED <<ring, lastHash, clock, stamped>>
  BY DEF Drain, Log
<1>2. TypeOK /\ drained \in Seq(Events) /\ Log \in Seq(Events) /\ Len(Log) = size
      /\ size \in Nat
  BY LogType DEF Inv, TypeOK
<1>3. /\ drained' \in Seq(Events) /\ Len(drained') = Len(drained) + size
      /\ Len(drained) \in Nat
      /\ \A i \in 1..(Len(drained) + size) :
           drained'[i] = IF i <= Len(drained) THEN drained[i] ELSE Log[i - Len(drained)]
  <2> DEFINE L == Log
  <2>1. L \in Seq(Events) /\ Len(L) = size /\ drained' = drained \o L
    BY <1>1, <1>2
  <2> HIDE DEF L
  <2>2. /\ drained \o L \in Seq(Events)
        /\ Len(drained \o L) = Len(drained) + Len(L)
        /\ \A i \in 1..(Len(drained) + Len(L)) :
             (drained \o L)[i] = IF i <= Len(drained) THEN drained[i] ELSE L[i - Len(drained)]
    BY <1>2, <2>1, ConcatProperties
  <2>3. Len(drained) \in Nat
    BY <1>2, LenProperties
  <2>4. \A i \in 1..(Len(drained) + size) :
           drained'[i] = IF i <= Len(drained) THEN drained[i] ELSE L[i - Len(drained)]
    BY <2>1, <2>2
  <2> QED
    BY <2>1, <2>2, <2>3, <2>4 DEF L
<1>4. TypeOK'
  BY <1>1, <1>2, <1>3, CapacityAssumption DEF TypeOK, CapacityAssumption, Slots
<1>5. ASSUME NEW i \in 1..Len(drained')
      PROVE  \E j \in 1..Len(lastHash') : lastHash'[j] = drained'[i]
  <2>1. CASE i <= Len(drained)
    BY <1>1, <1>3, <2>1 DEF Inv, ChainUnbroken
  <2>2. CASE ~(i <= Len(drained))
    <3>1. i - Len(drained) \in 1..size
      BY <1>2, <1>3, <2>2
    <3>2. drained'[i] = EntryAt(i - Len(drained) - 1).event
      BY <1>3, <2>2, <3>1 DEF Log
    <3>3. i - Len(drained) - 1 \in 0..(size - 1)
      BY <1>2, <3>1
    <3> QED
      BY <1>1, <3>2, <3>3 DEF Inv
  <2> QED
    BY <2>1, <2>2
<1>6. ChainUnbroken'
  BY <1>1, <1>5 DEF ChainUnbroken
<1> QED
  BY <1>1, <1>4, <1>6 DEF Inv

\* One step per action of the log.
LEMMA StepInv == Inv /\ [Next]_vars => Inv'
<1> SUFFICES ASSUME Inv, [Next]_vars PROVE Inv'
  OBVIOUS
<1>1. CASE Drain
  BY <1>1, DrainInv
<1>2. ASSUME NEW w \in Writers, Stamp(w) PROVE Inv'
  <2>1. UNCHANGED <<ring, head, size, lastHash, drained>>
    BY <1>2 DEF Stamp
  <2>2. clock' \in 1..MaxEvents /\ stamped' \in [Writers -> Events \cup {NoEvent}]
    BY <1>2, CapacityAssumption DEF Stamp, Inv, TypeOK, Events, CapacityAssumption
  <2>3. TypeOK'
    BY <2>1, <2>2 DEF Inv, TypeOK
  <2> QED
    BY <2>1, <2>3 DEF Inv, ChainUnbroken, EntryAt
<1>3. ASSUME NEW w \in Writers, AppendEvent(w) PROVE Inv'
  BY <1>3, AppendInv
<1>4. CASE UNCHANGED vars
  BY <1>4 DEF vars, Inv, TypeOK, ChainUnbroken, EntryAt
<1> QED
  BY <1>1, <1>2, <1>3, <1>4 DEF Next

\* The inductive invariant holds in every reachable state.
THEOREM InvHolds == Spec => []Inv
  BY InitInv, StepInv, PTL DEF Spec

\* Every variable keeps its type: head and size stay inside the ring.
THEOREM TypeCorrect == Spec => []TypeOK
<1>1. Inv => TypeOK
  BY DEF Inv
<1> QED
  BY <1>1, InvHolds, PTL

\* No wrap-around, eviction or Drain breaks the hash chain.
THEOREM ChainHolds == Spec => []ChainUnbroken
<1>1. Inv => ChainUnbroken
  BY DEF Inv
<1> QED
  BY <1>1, InvHolds, PTL

-----------------------------------------------------------------------------
(* Recent.                                                                 *)

\* Adding the capacity before taking the remainder changes nothing.
LEMMA WrapFull ==
  ASSUME NEW h \in Slots, NEW d \in 0..Capacity
  PROVE  (h + d + Capacity) % Capacity = Index(h, d)
<1>1. (h + d + Capacity) % Capacity = IF h + d < Capacity THEN h + d ELSE h + d - Capacity
  BY CapacityAssumption DEF CapacityAssumption, Slots
<1> QED
  BY <1>1, Wrap

\* Recent(n) reads the newest entries, wherever in the ring they are.
LEMMA RecentLemma ==
  ASSUME Inv, NEW n \in Nat
  PROVE  Recent(n) = SubSeq(Log, IF n > size THEN 1 ELSE size - n + 1, size)
<1> DEFINE m == IF n > size THEN size ELSE n
           start == (head + size - m + Capacity) % Capacity
           R == [i \in 1..m |-> ring[(start + i - 1) % Capacity].event]
           L == Log
           S == SubSeq(L, size - m + 1, size)
<1>1. Capacity \in Nat \ {0} /\ head \in Slots /\ head \in Nat /\ size \in 0..Capacity
  BY CapacityAssumption DEF CapacityAssumption, Inv, TypeOK, Slots
<1>2. m \in 0..size /\ size - m \in 0..Capacity
  BY <1>1
<1>3. L \in Seq(Events) /\ Len(L) = size
  BY LogType
<1>4. \A i \in 1..size : L[i] = EntryAt(i - 1).event /\ L[i] \in Events
  <2>1. \A i \in 1..size : L[i] = EntryAt(i - 1).event
    BY DEF Log
  <2>2. \A i \in 1..size : i - 1 \in 0..(size - 1)
    BY <1>1
  <2> QED
    BY <2>1, <2>2 DEF Inv
<1>5. start = Index(head, size - m)
  <2>1. head + size - m + Capacity = head + (size - m) + Capacity
    BY <1>1, <1>2
  <2> QED
    BY <1>1, <1>2, <2>1, WrapFull
<1>6. Recent(n) = R
  BY DEF Recent
<1> HIDE DEF m, start, L
<1>7. \A i \in 1..m : R[i] = L[size - m + i]
  <2> TAKE i \in 1..m
  <2>1. /\ i - 1 \in 0..Capacity /\ (size - m) + (i - 1) <= Capacity
        /\ size - m + i \in 1..size
        /\ (size - m) + (i - 1) = (size - m + i) - 1
    BY <1>1, <1>2
  <2>2. start \in Slots /\ start + i - 1 = start + (i - 1)
    BY <1>1, <1>2, <1>5, Wrap DEF Slots
  <2>3. (start + i - 1) % Capacity = Index(start, i - 1)
    BY <2>2 DEF Index
  <2>4. Index(start, i - 1) = Index(head, (size - m) + (i - 1))
    BY <1>1, <1>2, <1>5, <2>1, WrapAdd
  <2>5. R[i] = EntryAt((size - m + i) - 1).event
    BY <2>1, <2>3, <2>4 DEF EntryAt, Index
  <2> QED
    BY <1>4, <2>1, <2>5
<1>8. S \in Seq(Events) /\ Len(S) = m /\ \A i \in 1..m : S[i] = L[size - m + i]
  <2>1. /\ size - m + 1 \in Int /\ size \in Int
        /\ \A i \in (size - m + 1)..size : i \in 1..size
    BY <1>1, <1>2
  <2>2. /\ S \in Seq(Events)
        /\ Len(S) = IF size - m + 1 <= size THEN size - (size - m + 1) + 1 ELSE 0
        /\ \A i \in 1..(size - (size - m + 1) + 1) : S[i] = L[size - m + 1 + i - 1]
    <3>1. \A i \in (size - m + 1)..size : L[i] \in Events
      BY <1>4, <2>1
    <3> QED
      BY <2>1, <3>1, SubSeqProperties
  <2>3. size - (size - m + 1) + 1 = m /\ \A i \in 1..m : size - m + 1 + i - 1 = size - m + i
    BY <1>1, <1>2
  <2>4. Len(S) = m
    BY <1>1, <1>2, <2>2
  <2> QED
    BY <2>2, <2>3, <2>4
<1>9. R \in Seq(Events) /\ Len(R) = m
  <2>1. m \in Nat /\ \A i \in 1..m : size - m + i \in 1..size
    BY <1>1, <1>2
  <2>2. \A i \in 1..m : R[i] \in Events
    BY <1>4, <1>7, <2>1
  <2>3. \A i \in 1..m : ring[(start + i - 1) % Capacity].event \in Events
    BY <2>2
  <2> QED
    BY <2>1, <2>3
<1> HIDE DEF R, S
<1>10. R = S
  BY <1>7, <1>8, <1>9, SeqEqual
<1>11. size - m + 1 = IF n > size THEN 1 ELSE size - n + 1
  BY <1>1 DEF m
<1> QED
  BY <1>6, <1>10, <1>11 DEF S, L

\* Recent(n) is the n newest events, in every reachable state.
THEOREM RecentHolds == Spec => []RecentIsSuffix
<1>1. Inv => RecentIsSuffix
  <2> SUFFICES ASSUME Inv PROVE RecentIsSuffix
    OBVIOUS
  <2>1. \A n \in 0..(Capacity + 1) : n \in Nat
    BY CapacityAssumption DEF CapacityAssumption
  <2> QED
    BY <2>1, RecentLemma DEF RecentIsSuffix, Log
<1> QED
  BY <1>1, InvHolds, PTL

-----------------------------------------------------------------------------
(* The refinement of BoundedLog.                                           *)

\* Positions counted from 1 and from 0.
LEMMA Positions ==
  ASSUME NEW n \in Nat, NEW i \in 1..n
  PROVE  i - 1 \in 0..(n - 1) /\ (i # n => i \in 1..(n - 1))
OBVIOUS

\* A positive number has a predecessor.
LEMMA Predecessor == \A n \in Nat \ {0} : (n - 1) + 1 = n
OBVIOUS

\* Append adds its event at the end of the log, whose oldest event makes room.
LEMMA AppendLog ==
  ASSUME Inv, Inv', NEW w \in Writers, AppendEvent(w)
  PROVE  Log' = Append(IF Len(Log) < Capacity THEN Log ELSE Tail(Log), stamped[w])
<1> DEFINE e == stamped[w]
           L == Log
           M == Log'
           K == IF Len(L) < Capacity THEN L ELSE Tail(L)
<1>1. e \in Events /\ Extended(e)
  BY AppendRing DEF Inv, TypeOK, AppendEvent
<1>2. L \in Seq(Events) /\ Len(L) = size
  BY LogType
<1>3. M \in Seq(Events) /\ Len(M) = size'
  <2>1. size' \in Nat
    BY DEF Inv, TypeOK
  <2>2. \A i \in 1..size' : i - 1 \in 0..(size' - 1)
    BY <2>1, Positions
  <2>3. \A i \in 0..(size' - 1) : EntryAt(i)'.event \in Events
    BY DEF Inv
  <2>4. \A i \in 1..size' : EntryAt(i - 1)'.event \in Events
    BY <2>2, <2>3
  <2> QED
    BY <2>1, <2>4 DEF Log
<1>4. /\ \A i \in 1..size : L[i] = EntryAt(i - 1).event
      /\ \A i \in 1..size' : M[i] = EntryAt(i - 1)'.event
  BY DEF Log
<1>5. M[size'] = e
  <2>1. size' \in 1..size'
    BY <1>1 DEF Extended
  <2> QED
    BY <1>1, <1>4, <2>1 DEF Extended
<1> HIDE DEF e, L, M
<1>6. /\ K \in Seq(Events) /\ Len(K) = size' - 1
      /\ \A i \in 1..(size' - 1) : M[i] = K[i]
  <2>1. CASE size < Capacity
    <3>1. K = L /\ size' = size + 1 /\ size \in Nat /\ size' - 1 = size
      BY <1>1, <1>2, <2>1 DEF Extended
    <3>2. ASSUME NEW i \in 1..(size' - 1) PROVE M[i] = K[i]
      <4>1. i \in 1..size /\ i \in 1..size' /\ i - 1 \in 0..(size - 1)
        BY <3>1
      <4>2. EntryAt(i - 1)' = EntryAt(i - 1)
        BY <1>1, <2>1, <4>1 DEF Extended
      <4> QED
        BY <1>4, <3>1, <4>1, <4>2
    <3>3. K \in Seq(Events) /\ Len(K) = size' - 1
      BY <1>2, <3>1
    <3> QED
      BY <3>2, <3>3
  <2>2. CASE ~(size < Capacity)
    <3>1. K = Tail(L) /\ size' = size /\ size \in Nat \ {0}
      BY <1>1, <1>2, <2>2 DEF Extended
    <3>2. L # <<>>
      BY <1>2, <3>1
    <3>3. /\ Tail(L) \in Seq(Events) /\ Len(Tail(L)) = Len(L) - 1
          /\ \A i \in 1..Len(Tail(L)) : Tail(L)[i] = L[i + 1]
      BY <1>2, <3>2, HeadTailProperties
    <3>4. ASSUME NEW i \in 1..(size' - 1) PROVE M[i] = K[i]
      <4>1. i + 1 \in 1..size /\ i \in 1..size' /\ i - 1 \in 0..(size - 2)
            /\ (i - 1) + 1 = i /\ (i + 1) - 1 = i
        BY <3>1
      <4>2. EntryAt(i - 1)' = EntryAt((i - 1) + 1)
        BY <1>1, <2>2, <4>1 DEF Extended
      <4>3. K[i] = L[i + 1]
        BY <1>2, <3>1, <3>3
      <4>4. L[i + 1] = EntryAt((i + 1) - 1).event
        BY <1>4, <4>1
      <4> QED
        BY <1>4, <4>1, <4>2, <4>3, <4>4
    <3> QED
      BY <1>2, <3>1, <3>3, <3>4
  <2> QED
    BY <2>1, <2>2
<1> HIDE DEF K
<1>7. /\ Append(K, e) \in Seq(Events) /\ Len(Append(K, e)) = Len(K) + 1
      /\ \A i \in 1..Len(K) : Append(K, e)[i] = K[i]
      /\ Append(K, e)[Len(K) + 1] = e
  BY <1>1, <1>6, AppendProperties
<1>8. size' \in Nat \ {0} /\ (size' - 1) + 1 = size'
  <2>1. size' \in Nat \ {0}
    BY <1>1 DEF Extended
  <2> QED
    BY <2>1, Predecessor
<1>9. Len(M) = Len(Append(K, e)) /\ \A i \in 1..Len(M) : M[i] = Append(K, e)[i]
  <2>1. Len(K) + 1 = size' /\ Len(M) = size'
    <3>1. Len(K) = size' - 1
      BY <1>6
    <3> QED
      BY <1>3, <1>8, <3>1
  <2>2. ASSUME NEW i \in 1..size' PROVE M[i] = Append(K, e)[i]
    <3>1. CASE i = size'
      BY <1>5, <1>7, <2>1, <3>1
    <3>2. CASE i # size'
      <4>1. i \in 1..(size' - 1) /\ i \in 1..Len(K)
        <5>1. Len(K) = size' - 1
          BY <1>6
        <5>2. i \in 1..(size' - 1)
          BY <1>8, <3>2, Positions
        <5> QED
          BY <5>1, <5>2
      <4> QED
        BY <1>6, <1>7, <4>1
    <3> QED
      BY <3>1, <3>2
  <2> QED
    BY <1>7, <2>1, <2>2
<1>10. M = Append(K, e)
  BY <1>3, <1>7, <1>9, SeqEqual
<1> QED
  BY <1>10 DEF M, K, L, e

\* The ring buffer implements the bounded first-in first-out log.
THEOREM Implements == Spec => ImplementsBoundedLog
<1>1. Init => Abstract!Init
  BY DEF Init, Abstract!Init
<1>2. Inv /\ Inv' /\ [Next]_vars => [Abstract!Next]_<<Log, drained>>
  <2> SUFFICES ASSUME Inv, Inv', [Next]_vars
               PROVE  [Abstract!Next]_<<Log, drained>>
    OBVIOUS
  <2>1. CASE Drain
    <3>1. drained' = drained \o Log /\ Log' = <<>>
      BY <2>1 DEF Drain, Log
    <3> QED
      BY <3>1 DEF Abstract!Next, Abstract!Drain, Log
  <2>2. ASSUME NEW w \in Writers, Stamp(w) PROVE UNCHANGED <<Log, drained>>
    BY <2>2 DEF Stamp, Log, EntryAt
  <2>3. ASSUME NEW w \in Writers, AppendEvent(w) PROVE Abstract!Next
    <3>1. Log' = Append(IF Len(Log) < Capacity THEN Log ELSE Tail(Log), stamped[w])
      BY <2>3, AppendLog
    <3>2. drained' = drained /\ stamped[w] \in Events
      BY <2>3 DEF AppendEvent, Inv, TypeOK
    <3> QED
      BY <3>1, <3>2 DEF Abstract!Next, Abstract!Add, Log
  <2>4. CASE UNCHANGED vars
    BY <2>4 DEF vars, Log, EntryAt
  <2> QED
    BY <2>1, <2>2, <2>3, <2>4 DEF Next
<1>3. Spec => []Inv
  BY InvHolds
<1> QED
  BY <1>1, <1>2, <1>3, PTL DEF Spec, ImplementsBoundedLog, Abstract!Spec, Log

=============================================================================
