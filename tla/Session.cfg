\* Two callers race with each other and with up to two timer callbacks.
CONSTANTS
  Callers = {c1, c2}
  Firings = {f1, f2}
  Handles = {h1, h2}
  NoHandle = NoHandle
  Intervals = {0, 1, 2}
  Default = 2

SPECIFICATION FairSpec

INVARIANTS
  TypeOK
  AutoLockArmed
  OneLogoutPerSession
  AnnouncedWhenQuiet

PROPERTY InactivityLocks
