\* Two overlapping clients of a vault in use, and clocks that stand still.
CONSTANTS
  p1 = p1
  p2 = p2
  Clients <- MCClients
  MaxFailed = 2
  MaxOverrides = 2
  LockdownWindow = 1
  MaxJump = 1
  StartTime = 1
  MaxTime = 1
  MaxLost = 0
  MaxGuesses = 5
  MaxClockSets = 0
  Vaults = {"sealed"}

SYMMETRY MCSymmetry

SPECIFICATION Spec

PROPERTY OverridesNotReset

CHECK_DEADLOCK FALSE
