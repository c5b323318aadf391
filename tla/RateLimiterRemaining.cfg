\* One caller is enough.
CONSTANTS
  Subjects = {s1}
  Callers = {c1}
  NoSubject = NoSubject
  Minute = 1
  TenMinutes = 2
  Hour = 3
  Day = 4
  MaxAttempts = 22

SPECIFICATION Spec

INVARIANT RemainingToNextTier
