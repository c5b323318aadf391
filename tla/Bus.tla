-------------------------------- MODULE Bus --------------------------------
(***************************************************************************)
(* The event bus of engine/kernel/bus.go: Dispatch with its hop count, its *)
(* reply signalling, its gate and one goroutine per handler; Request with  *)
(* its pending reply channels; Register, Unregister and Subscribe; and     *)
(* Shutdown.                                                               *)
(*                                                                         *)
(* Dispatch takes three mutexes one after the other, so it is a sequence   *)
(* of steps, between which gates, handlers and requests come and go.  A    *)
(* handler listens on one channel: several channels are several handlers.  *)
(* Handler goroutines that run the same handler on the same event are one  *)
(* member of the set running.                                              *)
(***************************************************************************)
EXTENDS Integers, FiniteSets

CONSTANTS
  Requesters,   \* goroutines that call Request
  Dispatchers,  \* goroutines that call Dispatch, those of handlers included
  Modules,      \* handlers added by Register
  Subscribers,  \* handlers added by Subscribe
  Channels,     \* channels, an event's type being abstracted to its channel
  Gated,        \* WithGatedChannels
  Listens,      \* the channel of each handler
  DefaultTTL,   \* defaultTTL
  TTLs,         \* the TTLs of events built outside the bus
  MaxRequests,  \* bound on the number of requests
  MaxRunning,   \* bound on the handler goroutines there are when a call begins
  MaxHops       \* bound on how often one event is passed on

ASSUME BusAssumption ==
  /\ DefaultTTL \in Nat \ {0} /\ TTLs \subseteq Int /\ DefaultTTL \in TTLs
  /\ MaxRequests \in Nat /\ MaxRunning \in Nat /\ MaxHops \in Nat
  /\ Channels # {} /\ Gated \subseteq Channels
  /\ Modules \cap Subscribers = {}
  /\ Listens \in [Modules \cup Subscribers -> Channels]

Goroutines == Requesters \cup Dispatchers
Handlers == Modules \cup Subscribers
Ids == 1..MaxRequests
NoId == 0

VARIABLES
  handlers,   \* b.channelHandlers and b.typeHandlers
  gateOpen,   \* b.gateOpen
  pending,    \* the keys of b.pending
  box,        \* the requests whose reply channel holds a reply
  issued,     \* how many request IDs have been issued
  call,       \* the Dispatch or Request each goroutine is in
  running,    \* handler goroutines
  toStop,     \* modules whose Stop the Shutdown under way waits for
  shutdown,   \* "up", "stopping", "expired" once Shutdown's own context is done,
              \* or "down" once b.ctx is cancelled
  window,     \* history: what was the case at some time during each call
  signalled   \* history: the requests to which a reply has been signalled

vars == <<handlers, gateOpen, pending, box, issued, call, running, toStop,
          shutdown, window, signalled>>
registry == <<handlers, gateOpen>>
requests == <<pending, box, issued, signalled>>
lifecycle == <<toStop, shutdown>>

\* hops counts the deliveries that led to this event being passed on.
Event == [id: Ids \cup {NoId}, chan: Channels, replyTo: Ids \cup {NoId},
          ttl: Int, hops: Nat]

NewEvent(id, ch, replyTo, ttl) ==
  [id |-> id, chan |-> ch, replyTo |-> replyTo, ttl |-> ttl, hops |-> 0]

NoEvent == NewEvent(NoId, CHOOSE ch \in Channels : TRUE, NoId, 0)

\* req is the ID a Request waits on; snap the handlers Dispatch has collected.
Idle == [pc |-> "idle", ev |-> NoEvent, req |-> NoId, snap |-> {}]

NoWindow == [opened |-> FALSE, closed |-> FALSE, present |-> {}, absent |-> {}]

IsGated(ev) == ev.chan \in Gated
Audience(ev) == {h \in handlers : Listens[h] = ev.chan}

-----------------------------------------------------------------------------

Init ==
  /\ handlers = {} /\ gateOpen = FALSE
  /\ pending = {} /\ box = {} /\ issued = 0 /\ signalled = {}
  /\ call = [g \in Goroutines |-> Idle]
  /\ running = {}
  /\ toStop = {} /\ shutdown = "up"
  /\ window = [g \in Goroutines |-> NoWindow]

\* History: the gate and the handlers an event meets, added to what it has met.
Meets(w, ev, open, hs) ==
  LET listeners == {h \in Handlers : Listens[h] = ev.chan}
  IN  [opened  |-> w.opened \/ (IsGated(ev) /\ open),
       closed  |-> w.closed \/ (IsGated(ev) /\ ~open),
       present |-> w.present \cup (listeners \cap hs),
       absent  |-> w.absent \cup (listeners \ hs)]

InDispatch(c) == c.pc \notin {"idle", "returned", "wait"}

\* History: the call of g begins.
OpenWindow(g) ==
  window' = [window EXCEPT ![g] =
    IF InDispatch(call'[g]) THEN Meets(NoWindow, call'[g].ev, gateOpen, handlers) ELSE @]

\* History: Dispatch is over.
CloseWindow(g) == window' = [window EXCEPT ![g] = NoWindow]

\* History: the gate or the handlers change during the calls under way.
Observe ==
  window' = [g \in Goroutines |->
    IF InDispatch(call[g]) THEN Meets(window[g], call[g].ev, gateOpen', handlers')
                           ELSE window[g]]

SetGate(open) ==
  /\ gateOpen' = open
  /\ UNCHANGED <<handlers, requests, call, running, lifecycle>>
  /\ Observe

OpenGate == SetGate(TRUE)
CloseGate == SetGate(FALSE)

SetHandlers(hs) ==
  /\ handlers' = hs
  /\ UNCHANGED <<gateOpen, requests, call, running, lifecycle>>
  /\ Observe

\* Register fails on a duplicate; Unregister ignores an unknown module.
Register(m) == m \notin handlers /\ SetHandlers(handlers \cup {m})
Unregister(m) == m \in handlers /\ SetHandlers(handlers \ {m})
Subscribe(s) == s \notin handlers /\ SetHandlers(handlers \cup {s})
Unsubscribe(s) == s \in handlers /\ SetHandlers(handlers \ {s})

-----------------------------------------------------------------------------
(* Dispatch                                                                *)

\* The end of Dispatch, inside a Request or not.
Finished(req) == IF req = NoId THEN Idle ELSE [Idle EXCEPT !.pc = "returned", !.req = req]

\* Slip: an event given no TTL is not given the default.
Hop_NoDefault(ev) == [ev EXCEPT !.ttl = @ - 1]

\* The hop count.  An event with none left, or none given, starts afresh; a
\* negative one is dropped.
Hop(ev) == [ev EXCEPT !.ttl = (IF @ = 0 THEN DefaultTTL ELSE @) - 1]

Free(g) == call[g] = Idle /\ Cardinality(running) <= MaxRunning

\* What a goroutine that calls Dispatch(ev) does first.
Enter(ev, req) ==
  IF ev.ttl < 0
  THEN Finished(req)
  ELSE [Idle EXCEPT !.pc = "reply", !.ev = Hop(ev), !.req = req]

\* Dispatch(e) of an event made by NewEvent or by hand.
Dispatch(g, ch, ttl) ==
  /\ Free(g)
  /\ call' = [call EXCEPT ![g] = Enter(NewEvent(NoId, ch, NoId, ttl), NoId)]
  /\ OpenWindow(g)
  /\ UNCHANGED <<registry, requests, running, lifecycle>>

\* Request(ctx, e): the reply channel is in place before the event goes out.
Request(g, ch) ==
  /\ Free(g) /\ issued < MaxRequests
  /\ issued' = issued + 1
  /\ pending' = pending \cup {issued'}
  /\ call' = [call EXCEPT ![g] = Enter(NewEvent(issued', ch, NoId, DefaultTTL), issued')]
  /\ OpenWindow(g)
  /\ UNCHANGED <<registry, box, signalled, running, lifecycle>>

\* History: the event of g has been through the signalling of replies.
Signalled(g) == signalled' = signalled \cup ({call[g].ev.replyTo} \ {NoId})

\* Under pendingMu: the reply channel of the request the event answers.
LookUpReply(g) ==
  /\ call[g].pc = "reply"
  /\ \/ /\ call[g].ev.replyTo \in pending
        /\ call' = [call EXCEPT ![g].pc = "send"]
        /\ UNCHANGED signalled
     \/ /\ call[g].ev.replyTo \notin pending
        /\ call' = [call EXCEPT ![g].pc = "gate"]
        /\ Signalled(g)
  /\ UNCHANGED <<registry, pending, box, issued, running, lifecycle, window>>

\* Slip: the reply channel has no buffer, so that a send needs a request that
\* has got to its select.
SendReply_Unbuffered(g) ==
  /\ call[g].pc = "send"
  /\ box' = IF \E h \in Goroutines : call[h].pc = "wait" /\ call[h].req = call[g].ev.replyTo
            THEN box \cup {call[g].ev.replyTo} ELSE box
  /\ call' = [call EXCEPT ![g].pc = "gate"]
  /\ Signalled(g)
  /\ UNCHANGED <<registry, pending, issued, running, lifecycle, window>>

\* Slip: the send has no default branch.
SendReply_Blocks(g) ==
  /\ call[g].pc = "send" /\ call[g].ev.replyTo \notin box
  /\ box' = box \cup {call[g].ev.replyTo}
  /\ call' = [call EXCEPT ![g].pc = "gate"]
  /\ Signalled(g)
  /\ UNCHANGED <<registry, pending, issued, running, lifecycle, window>>

\* After its release: the channel, of one place, gets the reply unless it is
\* full.  The request may have returned, and left the channel to the sender.
SendReply(g) ==
  /\ call[g].pc = "send"
  /\ box' = box \cup {call[g].ev.replyTo}
  /\ call' = [call EXCEPT ![g].pc = "gate"]
  /\ Signalled(g)
  /\ UNCHANGED <<registry, pending, issued, running, lifecycle, window>>

\* Slip: the gate is looked at before it is known whether the channel is gated.
CheckGate_All(g) ==
  /\ call[g].pc = "gate"
  /\ call' = [call EXCEPT ![g].pc = IF gateOpen THEN "collect" ELSE "dropped"]
  /\ UNCHANGED <<registry, requests, running, lifecycle, window>>

\* Slip: the gate is not looked at.
CheckGate_None(g) ==
  /\ call[g].pc = "gate"
  /\ call' = [call EXCEPT ![g].pc = "collect"]
  /\ UNCHANGED <<registry, requests, running, lifecycle, window>>

\* Under gateMu: an event of a gated channel is dropped while the gate is closed.
CheckGate(g) ==
  /\ call[g].pc = "gate"
  /\ call' = [call EXCEPT ![g].pc =
                IF IsGated(call[g].ev) /\ ~gateOpen THEN "dropped" ELSE "collect"]
  /\ UNCHANGED <<registry, requests, running, lifecycle, window>>

\* The event is dropped without an error.
Drop(g) ==
  /\ call[g].pc = "dropped"
  /\ call' = [call EXCEPT ![g] = Finished(@.req)]
  /\ CloseWindow(g)
  /\ UNCHANGED <<registry, requests, running, lifecycle>>

\* Under b.mu: the handlers of the event are collected ...
Collect(g) ==
  /\ call[g].pc = "collect"
  /\ call' = [call EXCEPT ![g].pc = "spawn", ![g].snap = Audience(call[g].ev)]
  /\ UNCHANGED <<registry, requests, running, lifecycle, window>>

\* ... and after its release each is started in a goroutine.
Spawn(g) ==
  /\ call[g].pc = "spawn"
  /\ running' = running \cup {[h |-> h, ev |-> call[g].ev] : h \in call[g].snap}
  /\ call' = [call EXCEPT ![g] = Finished(@.req)]
  /\ CloseWindow(g)
  /\ UNCHANGED <<registry, requests, lifecycle>>

-----------------------------------------------------------------------------
(* Handler goroutines.  What handlers do is up to the modules.             *)

\* A handler answers the event with ReplyEvent.
HandlerReply(r, g, ch) ==
  /\ r.ev.id # NoId /\ Free(g)
  /\ call' = [call EXCEPT ![g] = Enter(NewEvent(NoId, ch, r.ev.id, DefaultTTL), NoId)]
  /\ OpenWindow(g)
  /\ UNCHANGED <<registry, requests, running, lifecycle>>

\* A handler passes the event on, with the TTL it came with.
HandlerForward(r, g) ==
  /\ r.ev.hops < MaxHops /\ Free(g)
  /\ call' = [call EXCEPT ![g] = Enter([r.ev EXCEPT !.hops = @ + 1], NoId)]
  /\ OpenWindow(g)
  /\ UNCHANGED <<registry, requests, running, lifecycle>>

\* A handler returns, returns an error, or panics and is recovered.
HandlerEnd(r) ==
  /\ running' = running \ {r}
  /\ UNCHANGED <<registry, requests, call, lifecycle, window>>

-----------------------------------------------------------------------------
(* The end of Request                                                      *)

\* Dispatch has returned, and Request gets to its select.
Await(g) ==
  /\ call[g].pc = "returned"
  /\ call' = [call EXCEPT ![g].pc = "wait"]
  /\ UNCHANGED <<registry, requests, running, lifecycle, window>>

\* Slip: the reply channel is left behind.
Leave_Pending(g) ==
  /\ call' = [call EXCEPT ![g] = Idle]
  /\ UNCHANGED <<registry, pending, issued, running, lifecycle, window, signalled>>

\* Request returns, and its deferred function deletes the reply channel.
Leave(g) ==
  /\ pending' = pending \ {call[g].req}
  /\ call' = [call EXCEPT ![g] = Idle]
  /\ UNCHANGED <<registry, issued, running, lifecycle, window, signalled>>

Waiting(g) == call[g].pc = "wait"
Answered(g) == Waiting(g) /\ call[g].req \in box /\ box' = box \ {call[g].req} /\ Leave(g)
TimedOut(g) == Waiting(g) /\ UNCHANGED box /\ Leave(g)
BusGone(g) == Waiting(g) /\ shutdown = "down" /\ UNCHANGED box /\ Leave(g)

-----------------------------------------------------------------------------
(* Shutdown                                                                *)

\* Every registered module is told to stop, each in a goroutine.
Shutdown ==
  /\ shutdown = "up"
  /\ shutdown' = "stopping"
  /\ toStop' = handlers \cap Modules
  /\ UNCHANGED <<registry, requests, call, running, window>>

StopModule(m) ==
  /\ m \in toStop
  /\ toStop' = toStop \ {m}
  /\ UNCHANGED <<registry, requests, call, running, shutdown, window>>

\* The context that Shutdown was called with is cancelled or reaches its
\* deadline, if it has one.
ShutdownExpires ==
  /\ shutdown = "stopping"
  /\ shutdown' = "expired"
  /\ UNCHANGED <<registry, requests, call, running, toStop, window>>

\* Every Stop has returned, or the context is done.
NothingToWaitFor == shutdown = "expired" \/ (shutdown = "stopping" /\ toStop = {})

\* Slip: the bus context is not cancelled.
Cancel_Forgotten == FALSE

\* b.cancel().  Neither handlers nor dispatches are waited for.
Cancel ==
  /\ NothingToWaitFor
  /\ shutdown' = "down"
  /\ UNCHANGED <<registry, requests, call, running, toStop, window>>

-----------------------------------------------------------------------------

Step(g) ==
  \/ LookUpReply(g) \/ SendReply(g) \/ CheckGate(g) \/ Drop(g) \/ Collect(g) \/ Spawn(g)

Next ==
  \/ OpenGate \/ CloseGate
  \/ \E m \in Modules : Register(m) \/ Unregister(m) \/ StopModule(m)
  \/ \E s \in Subscribers : Subscribe(s) \/ Unsubscribe(s)
  \/ \E g \in Requesters :
       \/ \E ch \in Channels : Request(g, ch)
       \/ Await(g) \/ Answered(g) \/ TimedOut(g) \/ BusGone(g)
  \/ \E g \in Dispatchers :
       \/ \E ch \in Channels, ttl \in TTLs : Dispatch(g, ch, ttl)
       \/ \E r \in running : HandlerForward(r, g) \/ \E ch \in Channels : HandlerReply(r, g, ch)
  \/ \E g \in Goroutines : Step(g)
  \/ \E r \in running : HandlerEnd(r)
  \/ Shutdown \/ ShutdownExpires \/ Cancel

Spec == Init /\ [][Next]_vars

\* Goroutines inside the bus go on running, and select takes a branch that stays
\* ready.  Nothing is assumed of any context, of a request or of Shutdown, nor that
\* a Stop returns or a handler ends.
FairSpec ==
  /\ Spec
  /\ WF_vars(Cancel)
  /\ \A g \in Goroutines : WF_vars(Step(g) \/ Await(g)) /\ WF_vars(Answered(g) \/ BusGone(g))

-----------------------------------------------------------------------------

\* Type correctness of every variable.
TypeOK ==
  /\ handlers \subseteq Handlers /\ gateOpen \in BOOLEAN
  /\ pending \subseteq Ids /\ box \subseteq Ids /\ issued \in 0..MaxRequests
  /\ call \in [Goroutines ->
                [pc: {"idle", "reply", "send", "gate", "dropped", "collect", "spawn",
                      "returned", "wait"},
                 ev: Event, req: Ids \cup {NoId}, snap: SUBSET Handlers]]
  /\ running \subseteq [h: Handlers, ev: Event]
  /\ \A r \in running : r.ev.ttl >= 0 /\ \E ttl \in TTLs : r.ev.ttl < ttl
  /\ toStop \subseteq Modules /\ shutdown \in {"up", "stopping", "expired", "down"}
  /\ signalled \subseteq Ids

\* The gate and the handler lists are read at different times, but an event is
\* only given to handlers that were registered, through a gate that was open,
\* at some moment of its Dispatch: what was undone before is not seen.
DeliveredWithinCall ==
  \A g \in Goroutines : call[g].pc = "spawn" =>
    /\ call[g].snap \subseteq window[g].present
    /\ IsGated(call[g].ev) => window[g].opened

\* An event is not lost on a gate that was open, or on a handler that was
\* registered, all through its Dispatch.
NothingMissed ==
  \A g \in Goroutines :
    /\ call[g].pc = "spawn" =>
         \A h \in Handlers : h \notin window[g].absent /\ Listens[h] = call[g].ev.chan
                               => h \in call[g].snap
    /\ call[g].pc = "dropped" => IsGated(call[g].ev) /\ window[g].closed

\* b.pending holds a reply channel for each Request under way and no other,
\* so requests that time out or are cut off by a shutdown leave nothing behind.
NoPendingLeak == pending = {call[g].req : g \in Goroutines} \ {NoId}

\* As long as a Request has not returned, its channel holds a reply if and only
\* if some Dispatch has signalled one to it: a reply is not lost on a Request
\* that has not got to its select yet, on a gate that is closed for the reply,
\* or on the race of two replies, and one that was looked up for an earlier
\* Request and is sent late is not in the channel of this one.
ReplyKept == \A id \in pending : id \in box <=> id \in signalled

\* Every Dispatch returns, also one whose reply comes second to a channel that
\* is full, or late to one that nobody will read again.
DispatchReturns ==
  \A g \in Goroutines : InDispatch(call[g]) ~> ~InDispatch(call[g])

\* Once the modules have stopped, or the context of Shutdown is done, every
\* Request under way returns, whatever its own context and whether or not its
\* event was dropped at the gate.
ShutdownReleases ==
  \A g \in Goroutines :
    (NothingToWaitFor \/ shutdown = "down") /\ call[g].req # NoId ~> call[g].req = NoId

-----------------------------------------------------------------------------
(* A statement of the source that the code does not keep.                  *)

\* event.go:131, "TTL is decremented on each hop; the bus drops events at 0 to
\* break cycles": no event is delivered more than DefaultTTL times over.
CyclesBroken == \A r \in running : r.ev.hops < DefaultTTL

=============================================================================
