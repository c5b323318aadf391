\* More events than the ring holds, so that it wraps, evicts and is drained at
\* every offset of its head; two writers that overtake each other.
CONSTANTS
  Writers = {w1, w2}
  Capacity = 3
  MaxEvents = 7
  NoEvent = NoEvent

SPECIFICATION Spec

INVARIANTS
  ChainUnbroken
  RecentIsSuffix

PROPERTY ImplementsBoundedLog

\* Drain is always possible; nothing else is once MaxEvents are logged.
