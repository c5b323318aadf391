\* One handler that passes every event of its channel on to the bus again.
CONSTANTS
  storage = storage
  watcher = watcher
  Requesters = {}
  Dispatchers = {d1}
  Modules = {}
  Subscribers <- MCSubscribers
  Listens <- MCCycleListens
  Channels = {"AUTH"}
  Gated = {}
  DefaultTTL = 8
  TTLs = {8}
  MaxRequests = 0
  MaxRunning = 1
  MaxHops = 9

SPECIFICATION FairSpec

INVARIANT CyclesBroken

CHECK_DEADLOCK FALSE
