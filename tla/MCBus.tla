------------------------------- MODULE MCBus -------------------------------
(* A bus with a gated storage module and a subscriber of an open channel.  *)
EXTENDS Bus, TLC

CONSTANTS storage, watcher

MCModules == {storage}
MCSubscribers == {watcher}
MCListens == storage :> "STORAGE" @@ watcher :> "AUTH"
MCRequestListens == storage :> "STORAGE"
MCCycleListens == watcher :> "AUTH"
\* Exhausted, not given, and given by NewEvent.
MCTTLs == {-1, 0, 2}

=============================================================================
