\* Two requests, one after the other, and a goroutine that may reply to either
\* any number of times, while the module stops and the context of Shutdown runs.
CONSTANTS
  storage = storage
  watcher = watcher
  Requesters = {r1}
  Dispatchers = {d1}
  Modules <- MCModules
  Subscribers = {}
  Listens <- MCRequestListens
  Channels = {"STORAGE"}
  Gated = {"STORAGE"}
  DefaultTTL = 2
  TTLs = {2}
  MaxRequests = 2
  MaxRunning = 1
  MaxHops = 0

SPECIFICATION FairSpec

INVARIANT ReplyKept

PROPERTIES
  DispatchReturns
  ShutdownReleases

CHECK_DEADLOCK FALSE
