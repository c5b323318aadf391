\* One client, a vault not yet initialised, and clocks that nobody sets.
CONSTANTS
  Clients = {p1}
  MaxFailed = 3
  MaxOverrides = 4
  LockdownWindow = 2
  MaxJump = 4
  StartTime = 6
  MaxTime = 8
  MaxLost = 0
  MaxGuesses = 7
  MaxClockSets = 0
  Vaults = {"empty"}

SPECIFICATION Spec

PROPERTY WipedForManipulation

CHECK_DEADLOCK FALSE
