\* Two events are enough.
CONSTANTS
  Writers = {w1}
  Capacity = 3
  MaxEvents = 2
  NoEvent = NoEvent

SPECIFICATION Spec

INVARIANT PrevHashLinks
