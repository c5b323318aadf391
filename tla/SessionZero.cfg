\* One caller is enough.
CONSTANTS
  Callers = {c1}
  Firings = {f1}
  Handles = {h1}
  NoHandle = NoHandle
  Intervals = {0, 2}
  Default = 2

SPECIFICATION FairSpec

PROPERTY ZeroDisablesAutoLock
