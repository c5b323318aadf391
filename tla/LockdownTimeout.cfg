\* Two callers; the clock can pass the deadline of a soft lockdown.
CONSTANTS
  Callers = {c1, c2}
  Threshold = 3
  MaxOverrides = 4
  LockdownMinutes = 1
  MaxTime = 3
  Hooks = {"exit"}

SPECIFICATION FairSpec

PROPERTY TimeoutWipes

CHECK_DEADLOCK FALSE
