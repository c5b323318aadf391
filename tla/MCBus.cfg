\* Two goroutines inside the bus, one gated module, one subscriber, one request.
CONSTANTS
  storage = storage
  watcher = watcher
  Requesters = {r1}
  Dispatchers = {d1}
  Modules <- MCModules
  Subscribers <- MCSubscribers
  Listens <- MCListens
  Channels = {"STORAGE", "AUTH"}
  Gated = {"STORAGE"}
  DefaultTTL = 2
  TTLs <- MCTTLs
  MaxRequests = 1
  MaxRunning = 1
  MaxHops = 1

SPECIFICATION Spec

INVARIANTS
  TypeOK
  DeliveredWithinCall
  NothingMissed
  NoPendingLeak

CHECK_DEADLOCK FALSE
