\* Lockdown: the manager's default thresholds.  Three concurrent callers can
\* cross either limit together, and the clock runs past the deadline of a late
\* lockdown.
\* IntrusionDetector: two subjects whose windows go stale at different times;
\* five operations let a burst straddle the window's edge, and a history of two
\* overflows.
SPECIFICATION DefenceSpec

CONSTANTS
  Callers = {c1, c2, c3}
  Threshold = 3
  MaxOverrides = 4
  LockdownMinutes = 2
  MaxTime = 6
  Hooks = {"none", "exit", "return"}
  Subjects = {s1, s2}
  WindowSize = 1
  AuthFailThreshold = 3
  ReadRateThreshold = 2
  ExfilThreshold = 3
  HistoryMax = 2
  MaxClock = 3
  MaxEvents = 5

INVARIANTS
  TypeOK
  CountersMatchLevel
  RemainingIsExact
  WipeOnlyWhenEarned
  WindowsSound

PROPERTIES
  SoftLockdownServed
  HardRunsHook
  BurstsDetected

\* The process may exit, and the clocks stop at their bounds.
CHECK_DEADLOCK FALSE
