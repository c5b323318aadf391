\* Two clients that overlap, clock changes, and one attempt lost with its
\* client; enough time for a lockdown to expire and for a jump to be noticed.
CONSTANTS
  p1 = p1
  p2 = p2
  Clients <- MCClients
  MaxFailed = 2
  MaxOverrides = 2
  LockdownWindow = 1
  MaxJump = 1
  StartTime = 2
  MaxTime = 3
  MaxLost = 1
  MaxGuesses = 5
  MaxClockSets = 1
  Vaults = {"empty", "sealed"}

SYMMETRY MCSymmetry

SPECIFICATION Spec

INVARIANTS
  TypeOK
  HeaderConsistent
  AttemptsAccounted

PROPERTY
  ExhaustionIsFinal

\* After a wipe, with the clocks at their bound, nothing is left to do.
CHECK_DEADLOCK FALSE
