------------------------------ MODULE AuditLog ------------------------------
(***************************************************************************)
(* The ring-buffer audit log of engine/security/audit.go.  Append takes    *)
(* its timestamp before it takes the mutex, so concurrent writers may      *)
(* append out of timestamp order; the rest of each method is atomic.       *)
(*                                                                         *)
(* An event is who logged it and when.  SHA-256 is taken as collision      *)
(* free: the hash of an entry is the sequence of the events chained into   *)
(* it, the zero hash is the empty sequence.                                *)
(***************************************************************************)
EXTENDS Naturals, Sequences

CONSTANTS
  Writers,    \* goroutines that call Append
  Capacity,   \* NewAuditLog's capacity after its default
  MaxEvents,  \* bound on the number of events
  NoEvent     \* a writer outside Append; the content of an unused slot

ASSUME CapacityAssumption ==
  /\ Capacity \in Nat \ {0}
  /\ MaxEvents \in Nat

Events == [by: Writers, ts: 1..MaxEvents]

VARIABLES
  ring,      \* a.ring
  head,      \* a.head
  size,      \* a.size
  lastHash,  \* a.lastHash
  clock,     \* the last timestamp taken
  stamped,   \* the event each writer has stamped and not yet appended
  drained    \* history: what Drain has returned so far

vars == <<ring, head, size, lastHash, clock, stamped, drained>>

Slots == 0..(Capacity - 1)
Unused == [event |-> NoEvent, hash |-> <<>>]

\* The i-th oldest entry kept, counting from 0.
EntryAt(i) == ring[(head + i) % Capacity]

\* The PrevHash field of every entry is the slice a.lastHash[:], not a copy:
\* whoever reads it later reads the array as it is then.
PrevHash(entry) == lastHash

\* SHA-256 of the previous hash and the fields of the event, taken as injective.
\* (The fields are written one after the other with nothing between them, so that
\* events which differ in where one text ends have the same hash; nothing here
\* depends on telling these apart.)
Hash(prev, e) == Append(prev, e)

-----------------------------------------------------------------------------

Init ==
  /\ ring = [i \in Slots |-> Unused]
  /\ head = 0 /\ size = 0 /\ lastHash = <<>>
  /\ clock = 0
  /\ stamped = [w \in Writers |-> NoEvent]
  /\ drained = <<>>

\* Append(e), before the mutex: e.Timestamp = time.Now().
Stamp(w) ==
  /\ stamped[w] = NoEvent
  /\ clock < MaxEvents
  /\ clock' = clock + 1
  /\ stamped' = [stamped EXCEPT ![w] = [by |-> w, ts |-> clock']]
  /\ UNCHANGED <<ring, head, size, lastHash, drained>>

\* Slip: the oldest entry is overwritten but stays the head.
Advance_StuckHead ==
  /\ size' = IF size < Capacity THEN size + 1 ELSE size
  /\ UNCHANGED head

\* The slot after the newest entry is filled; a full ring forgets its oldest.
Advance ==
  \/ size < Capacity /\ size' = size + 1 /\ UNCHANGED head
  \/ size >= Capacity /\ head' = (head + 1) % Capacity /\ UNCHANGED size

\* Append(e), with the mutex held.
AppendEvent(w) ==
  /\ stamped[w] # NoEvent
  /\ lastHash' = Hash(lastHash, stamped[w])
  /\ ring' = [ring EXCEPT ![(head + size) % Capacity] =
                             [event |-> stamped[w], hash |-> lastHash']]
  /\ Advance
  /\ stamped' = [stamped EXCEPT ![w] = NoEvent]
  /\ UNCHANGED <<clock, drained>>

\* Slip: the last n entries are looked for from the start of the ring.
Recent_FromHead(n) ==
  LET m == IF n > size THEN size ELSE n
  IN  [i \in 1..m |-> ring[(head + i - 1) % Capacity].event]

\* Recent(n), a query: the events of the n newest entries, oldest first.
Recent(n) ==
  LET m     == IF n > size THEN size ELSE n
      start == (head + size - m + Capacity) % Capacity
  IN  [i \in 1..m |-> ring[(start + i - 1) % Capacity].event]

\* Slip: draining also restarts the chain.
Drain_ChainReset ==
  /\ drained' = drained \o [i \in 1..size |-> EntryAt(i - 1).event]
  /\ size' = 0 /\ head' = 0 /\ lastHash' = <<>>
  /\ UNCHANGED <<ring, clock, stamped>>

\* Drain(): returns everything and empties the ring; the chain goes on.
Drain ==
  /\ drained' = drained \o [i \in 1..size |-> EntryAt(i - 1).event]
  /\ size' = 0
  /\ head' = 0
  /\ UNCHANGED <<ring, lastHash, clock, stamped>>

Next == Drain \/ \E w \in Writers : Stamp(w) \/ AppendEvent(w)

Spec == Init /\ [][Next]_vars

-----------------------------------------------------------------------------

\* Type correctness of every variable.
TypeOK ==
  /\ ring \in [Slots -> [event: Events \cup {NoEvent}, hash: Seq(Events)]]
  /\ head \in Slots
  /\ size \in 0..Capacity
  /\ lastHash \in Seq(Events)
  /\ clock \in 0..MaxEvents
  /\ stamped \in [Writers -> Events \cup {NoEvent}]
  /\ drained \in Seq(Events)

\* The hash chain is unbroken through wrap-around, eviction and Drain: each
\* entry's hash covers its predecessor's hash and its own event, and the
\* newest entry's hash is the one the next entry will chain to.  What Drain has
\* handed out stays covered by the chain.
ChainUnbroken ==
  /\ \A i \in 1..(size - 1) :
       EntryAt(i).hash = Hash(EntryAt(i - 1).hash, EntryAt(i).event)
  /\ size > 0 => EntryAt(size - 1).hash = lastHash
  /\ \A i \in 1..Len(drained) : \E j \in 1..Len(lastHash) : lastHash[j] = drained[i]

\* Recent(n) is the n newest events of the log, oldest first, for every n.
RecentIsSuffix ==
  LET log == [i \in 1..size |-> EntryAt(i - 1).event]
  IN  \A n \in 0..(Capacity + 1) :
        Recent(n) = SubSeq(log, IF n > size THEN 1 ELSE size - n + 1, size)

\* The ring buffer implements the bounded first-in first-out log.
Abstract == INSTANCE BoundedLog WITH
              log <- [i \in 1..size |-> EntryAt(i - 1).event]

ImplementsBoundedLog == Abstract!Spec

-----------------------------------------------------------------------------
(* A statement of the repository's documents that the code does not keep.  *)

\* audit.go:35, "PrevHash: Hash of previous entry": a reader of the log can
\* check each kept entry against the one before it.
PrevHashLinks ==
  \A i \in 1..(size - 1) : PrevHash(EntryAt(i)) = EntryAt(i - 1).hash

=============================================================================
