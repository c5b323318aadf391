----------------------------- MODULE BusProofs -----------------------------
(***************************************************************************)
(* For any number of goroutines, handlers, channels and requests: what the *)
(* bus delivers, what it drops and what it keeps for the requests under    *)
(* way is right however the steps of Dispatch are interleaved with changes *)
(* of the gate and of the handlers.                                        *)
(***************************************************************************)
EXTENDS Bus, TLAPS

Calls == [pc: {"idle", "reply", "send", "gate", "dropped", "collect", "spawn",
                "returned", "wait"},
          ev: Event, req: Ids \cup {NoId}, snap: SUBSET Handlers]
Windows == [opened: BOOLEAN, closed: BOOLEAN,
            present: SUBSET Handlers, absent: SUBSET Handlers]

\* An event inside the bus has been given its hop count.
Counted(ev) == ev.ttl >= 0 /\ \E ttl \in TTLs : ev.ttl < ttl
HopsCounted == \A g \in Goroutines : InDispatch(call[g]) => Counted(call[g].ev)

\* Every ID in use has been issued, and no two requests share one.
IdsIssued ==
  /\ \A g \in Goroutines : /\ call[g].req <= issued
                           /\ call[g].ev.id <= issued /\ call[g].ev.replyTo <= issued
  /\ \A r \in running : r.ev.id <= issued /\ r.ev.replyTo <= issued
RequestsDistinct ==
  \A g, h \in Goroutines : g # h /\ call[g].req = call[h].req => call[g].req = NoId

\* A reply is in a channel, has been signalled or is about to be sent only for
\* a request there has been.
RepliesIssued ==
  /\ \A id \in box \cup signalled : id <= issued
  /\ \A g \in Goroutines : call[g].pc = "send" => call[g].ev.replyTo \in Ids

\* The window of a call has seen the gate and the handlers there are now ...
Listeners(ev) == {h \in Handlers : Listens[h] = ev.chan}
UpToDate(ev, w, open, hs) ==
  /\ Listeners(ev) \cap hs \subseteq w.present
  /\ Listeners(ev) \ hs \subseteq w.absent
  /\ IsGated(ev) => (open => w.opened) /\ (~open => w.closed)

\* ... and what the call has decided agrees with what it has seen.
Decided(c, w) ==
  /\ c.pc \in {"collect", "spawn"} => (IsGated(c.ev) => w.opened)
  /\ c.pc = "dropped" => IsGated(c.ev) /\ w.closed
  /\ c.pc = "spawn" => /\ c.snap \subseteq w.present
                       /\ Listeners(c.ev) \ w.absent \subseteq c.snap
Witnessed ==
  \A g \in Goroutines :
    InDispatch(call[g]) => /\ UpToDate(call[g].ev, window[g], gateOpen, handlers)
                           /\ Decided(call[g], window[g])

\* The inductive invariant.
Inv ==
  /\ TypeOK /\ HopsCounted
  /\ IdsIssued /\ RequestsDistinct
  /\ NoPendingLeak /\ ReplyKept /\ RepliesIssued
  /\ window \in [Goroutines -> Windows] /\ Witnessed

-----------------------------------------------------------------------------
(* Operators of the bus.                                                   *)

\* An event built by NewEvent.
LEMMA NewEventType ==
  ASSUME NEW id \in Ids \cup {NoId}, NEW ch \in Channels, NEW replyTo \in Ids \cup {NoId},
         NEW ttl \in Int
  PROVE  /\ NewEvent(id, ch, replyTo, ttl) \in Event
         /\ NewEvent(id, ch, replyTo, ttl).id = id
         /\ NewEvent(id, ch, replyTo, ttl).replyTo = replyTo
         /\ NewEvent(id, ch, replyTo, ttl).ttl = ttl
BY DEF NewEvent, Event

\* The calls a goroutine is in before and after Dispatch.
LEMMA FinishedType ==
  /\ NoEvent \in Event /\ NoEvent.id = NoId /\ NoEvent.replyTo = NoId
  /\ Idle \in Calls /\ Idle.pc = "idle" /\ Idle.req = NoId /\ Idle.ev = NoEvent
  /\ \A req \in Ids \cup {NoId} :
       /\ Finished(req) \in Calls /\ Finished(req).pc \in {"idle", "returned"}
       /\ Finished(req).req = req /\ Finished(req).ev = NoEvent
<1>1. (CHOOSE ch \in Channels : TRUE) \in Channels
  BY BusAssumption DEF BusAssumption
<1>2. NoEvent \in Event /\ NoEvent.id = NoId /\ NoEvent.replyTo = NoId
  BY <1>1, NewEventType DEF NoEvent
<1>3. Idle \in Calls /\ Idle.pc = "idle" /\ Idle.req = NoId /\ Idle.ev = NoEvent
  BY <1>2 DEF Idle, Calls
<1>4. ASSUME NEW req \in Ids \cup {NoId}
      PROVE  /\ Finished(req) \in Calls /\ Finished(req).pc \in {"idle", "returned"}
             /\ Finished(req).req = req /\ Finished(req).ev = NoEvent
  BY <1>2, <1>3 DEF Finished, Idle, Calls
<1> QED
  BY <1>2, <1>3, <1>4

\* The hop count of an event whose TTL is one the bus may meet.
LEMMA HopCounted ==
  ASSUME NEW ev \in Event, ev.ttl >= 0, ev.ttl > 0 => \E ttl \in TTLs : ev.ttl <= ttl
  PROVE  /\ Hop(ev) \in Event /\ Counted(Hop(ev))
         /\ Hop(ev).id = ev.id /\ Hop(ev).replyTo = ev.replyTo
<1>1. /\ Hop(ev) = [ev EXCEPT !.ttl = (IF ev.ttl = 0 THEN DefaultTTL ELSE ev.ttl) - 1]
      /\ ev.ttl \in Int
  BY DEF Hop, Event
<1>2. /\ DefaultTTL \in Nat \ {0} /\ DefaultTTL \in TTLs /\ TTLs \subseteq Int
  BY BusAssumption DEF BusAssumption
<1>3. Hop(ev).ttl = (IF ev.ttl = 0 THEN DefaultTTL ELSE ev.ttl) - 1
      /\ Hop(ev).id = ev.id /\ Hop(ev).replyTo = ev.replyTo
  BY <1>1 DEF Event
<1>4. Hop(ev) \in Event
  BY <1>1, <1>2 DEF Event
<1>5. CASE ev.ttl = 0
  <2>1. Hop(ev).ttl >= 0 /\ Hop(ev).ttl < DefaultTTL
    BY <1>2, <1>3, <1>5
  <2> QED
    BY <1>2, <1>3, <1>4, <2>1 DEF Counted
<1>6. CASE ev.ttl # 0
  <2>1. PICK ttl \in TTLs : ev.ttl <= ttl
    BY <1>1, <1>6
  <2>2. Hop(ev).ttl >= 0 /\ Hop(ev).ttl < ttl
    BY <1>1, <1>2, <1>3, <1>6, <2>1
  <2> QED
    BY <1>3, <1>4, <2>2 DEF Counted
<1> QED
  BY <1>5, <1>6

\* A goroutine that calls Dispatch either has nothing to do or is about to
\* look for the request its event replies to.
LEMMA EnterType ==
  ASSUME NEW ev \in Event, NEW req \in Ids \cup {NoId},
         ev.ttl > 0 => \E ttl \in TTLs : ev.ttl <= ttl
  PROVE  /\ Enter(ev, req) \in Calls /\ Enter(ev, req).req = req
         /\ Enter(ev, req).pc \in {"idle", "returned", "reply"}
         /\ Enter(ev, req).pc = "reply" => Counted(Enter(ev, req).ev)
         /\ Enter(ev, req).ev.id \in {NoId, ev.id}
         /\ Enter(ev, req).ev.replyTo \in {NoId, ev.replyTo}
<1>1. CASE ev.ttl < 0
  <2>1. Enter(ev, req) = Finished(req)
    BY <1>1 DEF Enter
  <2> QED
    BY <2>1, FinishedType
<1>2. CASE ~(ev.ttl < 0)
  <2>1. ev.ttl >= 0
    BY <1>2 DEF Event
  <2>2. /\ Hop(ev) \in Event /\ Counted(Hop(ev))
        /\ Hop(ev).id = ev.id /\ Hop(ev).replyTo = ev.replyTo
    BY <2>1, HopCounted
  <2>3. Enter(ev, req) = [Idle EXCEPT !.pc = "reply", !.ev = Hop(ev), !.req = req]
    BY <1>2 DEF Enter
  <2>4. /\ Enter(ev, req).pc = "reply" /\ Enter(ev, req).ev = Hop(ev)
        /\ Enter(ev, req).req = req /\ Enter(ev, req) \in Calls
    BY <2>2, <2>3, FinishedType DEF Idle, Calls
  <2> QED
    BY <2>2, <2>4
<1> QED
  BY <1>1, <1>2

\* What a window has seen after one more look at the gate and the handlers.
LEMMA MeetsType ==
  ASSUME NEW w \in Windows, NEW ev, NEW open \in BOOLEAN, NEW hs \in SUBSET Handlers
  PROVE  /\ Meets(w, ev, open, hs) \in Windows
         /\ UpToDate(ev, Meets(w, ev, open, hs), open, hs)
         /\ w.opened => Meets(w, ev, open, hs).opened
         /\ w.closed => Meets(w, ev, open, hs).closed
         /\ w.present \subseteq Meets(w, ev, open, hs).present
         /\ w.absent \subseteq Meets(w, ev, open, hs).absent
<1> DEFINE m == Meets(w, ev, open, hs)
<1>1. /\ m.opened = (w.opened \/ (IsGated(ev) /\ open))
      /\ m.closed = (w.closed \/ (IsGated(ev) /\ ~open))
      /\ m.present = w.present \cup (Listeners(ev) \cap hs)
      /\ m.absent = w.absent \cup (Listeners(ev) \ hs)
  BY DEF Meets, Listeners
<1>2. m \in Windows
  BY DEF Meets, Windows
<1> HIDE DEF m
<1>3. UpToDate(ev, m, open, hs)
  BY <1>1 DEF UpToDate
<1> QED
  BY <1>1, <1>2, <1>3 DEF m

-----------------------------------------------------------------------------
(* The invariant.                                                          *)

\* A new bus satisfies the invariant.
LEMMA InitInv == Init => Inv
<1> SUFFICES ASSUME Init PROVE Inv
  OBVIOUS
<1>1. /\ handlers = {} /\ pending = {} /\ box = {} /\ issued = 0 /\ running = {}
      /\ signalled = {}
      /\ toStop = {} /\ shutdown = "up"
      /\ call = [g \in Goroutines |-> Idle] /\ window = [g \in Goroutines |-> NoWindow]
  BY DEF Init
<1>2. gateOpen \in BOOLEAN /\ MaxRequests \in Nat
  BY BusAssumption DEF Init, BusAssumption
<1>3. \A g \in Goroutines : call[g] = Idle
  BY <1>1
<1>4. TypeOK
  <2>1. call \in [Goroutines -> Calls]
    BY <1>1, FinishedType
  <2>2. issued \in 0..MaxRequests
    BY <1>1, <1>2
  <2> QED
    BY <1>1, <1>2, <2>1, <2>2 DEF TypeOK, Calls
<1>5. HopsCounted /\ ReplyKept /\ RepliesIssued /\ Witnessed
  BY <1>1, <1>3, FinishedType DEF HopsCounted, ReplyKept, RepliesIssued, Witnessed, InDispatch
<1>6. IdsIssued /\ RequestsDistinct
  BY <1>1, <1>3, FinishedType DEF IdsIssued, RequestsDistinct, NoId
<1>7. NoPendingLeak
  BY <1>1, <1>3, FinishedType DEF NoPendingLeak
<1>8. window \in [Goroutines -> Windows]
  BY <1>1 DEF NoWindow, Windows
<1> QED
  BY <1>4, <1>5, <1>6, <1>7, <1>8 DEF Inv

\* The parts of the invariant about calls, requests and handler goroutines do
\* not depend on the gate, the handlers or a shutdown.
LEMMA CallsKept ==
  ASSUME Inv, UNCHANGED <<requests, call, running>>
  PROVE  /\ HopsCounted' /\ IdsIssued' /\ RequestsDistinct'
         /\ NoPendingLeak' /\ ReplyKept' /\ RepliesIssued'
BY DEF Inv, requests, HopsCounted, IdsIssued, RequestsDistinct, NoPendingLeak, ReplyKept,
       RepliesIssued

\* The gate or the handlers change, and the calls under way observe it.
LEMMA RegistryInv ==
  ASSUME Inv, UNCHANGED <<requests, call, running, lifecycle>>, Observe,
         handlers' \subseteq Handlers, gateOpen' \in BOOLEAN
  PROVE  Inv'
<1>1. TypeOK'
  BY DEF Inv, TypeOK, requests, lifecycle
<1>2. window \in [Goroutines -> Windows] /\ call' = call
  BY DEF Inv
<1>3. ASSUME NEW g \in Goroutines, InDispatch(call[g])
      PROVE  /\ window'[g] \in Windows
             /\ UpToDate(call[g].ev, window'[g], gateOpen', handlers')
             /\ Decided(call[g], window'[g])
  <2> DEFINE m == Meets(window[g], call[g].ev, gateOpen', handlers')
  <2>1. window'[g] = m
    BY <1>3 DEF Observe
  <2>2. /\ m \in Windows /\ UpToDate(call[g].ev, m, gateOpen', handlers')
        /\ window[g].opened => m.opened
        /\ window[g].closed => m.closed
        /\ window[g].present \subseteq m.present
        /\ window[g].absent \subseteq m.absent
    BY <1>2, MeetsType
  <2>3. Decided(call[g], window[g])
    BY <1>3 DEF Inv, Witnessed
  <2> HIDE DEF m
  <2>4. Decided(call[g], m)
    BY <2>2, <2>3 DEF Decided
  <2> QED
    BY <2>1, <2>2, <2>4
<1>4. window' \in [Goroutines -> Windows]
  <2>1. ASSUME NEW g \in Goroutines, ~InDispatch(call[g]) PROVE window'[g] \in Windows
    BY <1>2, <2>1 DEF Observe
  <2>2. DOMAIN window' = Goroutines /\ window' = [g \in Goroutines |-> window'[g]]
    BY DEF Observe
  <2> QED
    BY <1>3, <2>1, <2>2
<1>5. Witnessed'
  BY <1>2, <1>3 DEF Witnessed
<1> QED
  BY <1>1, <1>4, <1>5, CallsKept DEF Inv

\* A goroutine calls Dispatch, from Request with a new ID or from elsewhere.
LEMMA EnterInv ==
  ASSUME Inv, NEW g \in Goroutines, NEW ev \in Event, NEW req \in Ids \cup {NoId},
         ev.ttl > 0 => \E ttl \in TTLs : ev.ttl <= ttl,
         call[g] = Idle, call' = [call EXCEPT ![g] = Enter(ev, req)], OpenWindow(g),
         UNCHANGED <<registry, box, signalled, running, lifecycle>>,
         issued' \in 0..MaxRequests, issued <= issued',
         req = NoId \/ (req = issued' /\ issued < issued'),
         pending' = pending \cup ({req} \ {NoId}),
         ev.id <= issued', ev.replyTo <= issued'
  PROVE  Inv'
<1> DEFINE c == Enter(ev, req)
<1>1. /\ c \in Calls /\ c.req = req
      /\ c.pc \in {"idle", "returned", "reply"}
      /\ c.pc = "reply" => Counted(c.ev)
      /\ c.ev.id \in {NoId, ev.id} /\ c.ev.replyTo \in {NoId, ev.replyTo}
  BY EnterType
<1>2. /\ call \in [Goroutines -> Calls] /\ issued \in 0..MaxRequests /\ MaxRequests \in Nat
      /\ pending \subseteq Ids /\ gateOpen \in BOOLEAN /\ handlers \in SUBSET Handlers
      /\ window \in [Goroutines -> Windows]
  BY BusAssumption DEF Inv, TypeOK, Calls, BusAssumption
<1> HIDE DEF c
<1>3. /\ call' \in [Goroutines -> Calls] /\ call'[g] = c
      /\ \A k \in Goroutines : k # g => call'[k] = call[k]
  BY <1>1, <1>2 DEF c
<1>4. handlers' = handlers /\ gateOpen' = gateOpen
  BY DEF registry
<1>5. TypeOK'
  BY <1>2, <1>3, <1>4 DEF Inv, TypeOK, Calls, lifecycle
<1>6. HopsCounted'
  BY <1>1, <1>3 DEF Inv, HopsCounted, InDispatch
<1>7. IdsIssued'
  <2>1. 0 <= issued' /\ req <= issued' /\ issued' \in Int
    BY <1>2 DEF NoId
  <2>2. c.req <= issued' /\ c.ev.id <= issued' /\ c.ev.replyTo <= issued'
    BY <1>1, <2>1 DEF NoId
  <2>3. ASSUME NEW k \in Goroutines, k # g
        PROVE  /\ call'[k].req <= issued'
               /\ call'[k].ev.id <= issued' /\ call'[k].ev.replyTo <= issued'
    <3>1. /\ call[k].req <= issued /\ call[k].ev.id <= issued /\ call[k].ev.replyTo <= issued
          /\ call[k].req \in Int /\ call[k].ev.id \in Int /\ call[k].ev.replyTo \in Int
      BY <1>2 DEF Inv, IdsIssued, Calls, Event, Ids, NoId
    <3> QED
      BY <1>2, <1>3, <2>1, <2>3, <3>1
  <2>4. ASSUME NEW r \in running PROVE r.ev.id <= issued' /\ r.ev.replyTo <= issued'
    <3>1. /\ r.ev.id <= issued /\ r.ev.replyTo <= issued
          /\ r.ev.id \in Int /\ r.ev.replyTo \in Int
      BY DEF Inv, IdsIssued, TypeOK, Event, Ids, NoId
    <3> QED
      BY <1>2, <2>1, <3>1
  <2> QED
    BY <1>3, <2>2, <2>3, <2>4 DEF IdsIssued
<1>8. ASSUME NEW k \in Goroutines, call[k].req = req PROVE req = NoId
  <2>1. call[k].req <= issued
    BY DEF Inv, IdsIssued
  <2> QED
    BY <1>2, <1>8, <2>1
<1>9. RequestsDistinct'
  BY <1>1, <1>3, <1>8 DEF Inv, RequestsDistinct
<1>10. NoPendingLeak'
  <2>1. Idle.req = NoId
    BY FinishedType
  <2>2. {call'[k].req : k \in Goroutines} \ {NoId} =
          ({call[k].req : k \in Goroutines} \ {NoId}) \cup ({req} \ {NoId})
    BY <1>1, <1>3, <2>1
  <2> QED
    BY <2>2 DEF Inv, NoPendingLeak
<1>11. ReplyKept' /\ RepliesIssued'
  <2>1. ASSUME NEW id \in box \cup signalled PROVE id <= issued' /\ id # req
    <3>1. id <= issued /\ id \in Ids
      BY DEF Inv, RepliesIssued, TypeOK
    <3>2. id \in Int /\ issued \in Int /\ issued' \in Int /\ 1 <= id
      BY <1>2, <3>1 DEF Ids
    <3> QED
      BY <3>1, <3>2 DEF NoId
  <2>2. ASSUME NEW id \in pending' PROVE id \in pending \/ id = req
    BY <2>2
  <2>3. ReplyKept'
    BY <2>1, <2>2 DEF Inv, ReplyKept
  <2> QED
    BY <1>1, <1>3, <2>1, <2>3 DEF Inv, RepliesIssued
<1>12. window' \in [Goroutines -> Windows] /\ Witnessed'
  <2>1. NoWindow \in Windows
    BY DEF NoWindow, Windows
  <2> DEFINE m == Meets(NoWindow, c.ev, gateOpen, handlers)
  <2>2. m \in Windows /\ UpToDate(c.ev, m, gateOpen, handlers)
    BY <1>2, <2>1, MeetsType
  <2> HIDE DEF m
  <2>3. window' = [window EXCEPT ![g] = IF InDispatch(c) THEN m ELSE window[g]]
    BY <1>2, <1>3 DEF OpenWindow, m
  <2>4. /\ window' \in [Goroutines -> Windows]
        /\ InDispatch(c) => window'[g] = m
        /\ \A k \in Goroutines : k # g => window'[k] = window[k]
    BY <1>2, <2>2, <2>3
  <2>5. Decided(c, m)
    BY <1>1 DEF Decided
  <2>6. Witnessed'
    BY <1>3, <1>4, <2>2, <2>4, <2>5 DEF Inv, Witnessed
  <2> QED
    BY <2>4, <2>6
<1> QED
  BY <1>5, <1>6, <1>7, <1>9, <1>10, <1>11, <1>12 DEF Inv

\* A goroutine moves on inside Dispatch, its event and request staying the same.
LEMMA AdvanceCalls ==
  ASSUME Inv, NEW g \in Goroutines, NEW c \in Calls, call' = [call EXCEPT ![g] = c],
         InDispatch(call[g]), InDispatch(c), c.ev = call[g].ev, c.req = call[g].req,
         Decided(c, window[g]),
         UNCHANGED <<registry, pending, issued, running, lifecycle, window>>
  PROVE  /\ call'[g] = c /\ \A k \in Goroutines : k # g => call'[k] = call[k]
         /\ call' \in [Goroutines -> Calls]
         /\ HopsCounted' /\ IdsIssued' /\ RequestsDistinct'
         /\ pending' = {call'[k].req : k \in Goroutines} \ {NoId}
         /\ window' \in [Goroutines -> Windows] /\ Witnessed'
<1>1. call \in [Goroutines -> Calls]
  BY DEF Inv, TypeOK, Calls
<1>2. /\ call'[g] = c /\ \A k \in Goroutines : k # g => call'[k] = call[k]
      /\ call' \in [Goroutines -> Calls]
  BY <1>1
<1>3. \A k \in Goroutines : /\ call'[k].ev = call[k].ev /\ call'[k].req = call[k].req
                            /\ InDispatch(call'[k]) <=> InDispatch(call[k])
  BY <1>2
<1>4. HopsCounted'
  BY <1>3 DEF Inv, HopsCounted
<1>5. IdsIssued' /\ RequestsDistinct'
  BY <1>3 DEF Inv, IdsIssued, RequestsDistinct
<1>6. pending' = {call'[k].req : k \in Goroutines} \ {NoId}
  BY <1>3 DEF Inv, NoPendingLeak
<1>7. window' \in [Goroutines -> Windows] /\ Witnessed'
  BY <1>2, <1>3 DEF Inv, Witnessed, registry
<1> QED
  BY <1>2, <1>4, <1>5, <1>6, <1>7

\* A goroutine passes the signalling of replies, with a channel to send to or
\* without.
LEMMA SignalInv ==
  ASSUME Inv, NEW g \in Goroutines, NEW c \in Calls, call' = [call EXCEPT ![g] = c],
         call[g].pc \in {"reply", "send"}, c.pc \in {"send", "gate"},
         c.ev = call[g].ev, c.req = call[g].req,
         c.pc = "send" => c.ev.replyTo \in Ids,
         UNCHANGED <<registry, pending, issued, running, lifecycle, window>>,
         box' \subseteq Ids, signalled' \subseteq Ids,
         \A id \in box' \cup signalled' : id \in box \cup signalled \/ id = call[g].ev.replyTo,
         ReplyKept'
  PROVE  Inv'
<1>1. InDispatch(call[g]) /\ InDispatch(c) /\ Decided(c, window[g])
  BY DEF InDispatch, Decided
<1>2. /\ call'[g] = c /\ \A k \in Goroutines : k # g => call'[k] = call[k]
      /\ call' \in [Goroutines -> Calls]
      /\ HopsCounted' /\ IdsIssued' /\ RequestsDistinct'
      /\ pending' = {call'[k].req : k \in Goroutines} \ {NoId}
      /\ window' \in [Goroutines -> Windows] /\ Witnessed'
  BY <1>1, AdvanceCalls
<1>3. TypeOK'
  BY <1>2 DEF Inv, TypeOK, Calls, registry, lifecycle
<1>4. RepliesIssued'
  <2>1. call[g].ev.replyTo <= issued
    BY DEF Inv, IdsIssued
  <2> QED
    BY <1>2, <2>1 DEF Inv, RepliesIssued
<1> QED
  BY <1>2, <1>3, <1>4 DEF Inv, NoPendingLeak

\* LookUpReply: a reply that finds no channel answers a request that is over.
LEMMA LookUpReplyInv ==
  ASSUME Inv, NEW g \in Goroutines, LookUpReply(g)
  PROVE  Inv'
<1>1. /\ call \in [Goroutines -> Calls] /\ call[g].pc = "reply" /\ call[g] \in Calls
      /\ pending \subseteq Ids /\ box \subseteq Ids /\ signalled \subseteq Ids
      /\ call[g].ev.replyTo \in Ids \cup {NoId}
  BY DEF Inv, TypeOK, Calls, LookUpReply, Event
<1>2. /\ UNCHANGED <<registry, pending, issued, running, lifecycle, window>>
      /\ box' = box
  BY DEF LookUpReply
<1>3. CASE call[g].ev.replyTo \in pending
  <2> DEFINE c == [call[g] EXCEPT !.pc = "send"]
  <2>1. c \in Calls /\ c.pc = "send" /\ c.ev = call[g].ev /\ c.req = call[g].req
    BY <1>1 DEF Calls
  <2>2. call' = [call EXCEPT ![g] = c] /\ signalled' = signalled
    BY <1>1, <1>3 DEF LookUpReply
  <2> HIDE DEF c
  <2>3. ReplyKept'
    BY <1>2, <2>2 DEF Inv, ReplyKept
  <2> QED
    BY <1>1, <1>2, <1>3, <2>1, <2>2, <2>3, SignalInv
<1>4. CASE call[g].ev.replyTo \notin pending
  <2> DEFINE c == [call[g] EXCEPT !.pc = "gate"]
  <2>1. c \in Calls /\ c.pc = "gate" /\ c.ev = call[g].ev /\ c.req = call[g].req
    BY <1>1 DEF Calls
  <2>2. /\ call' = [call EXCEPT ![g] = c]
        /\ signalled' = signalled \cup ({call[g].ev.replyTo} \ {NoId})
    BY <1>1, <1>4 DEF LookUpReply, Signalled
  <2> HIDE DEF c
  <2>3. ReplyKept'
    BY <1>2, <1>4, <2>2 DEF Inv, ReplyKept
  <2> QED
    BY <1>1, <1>2, <2>1, <2>2, <2>3, SignalInv
<1> QED
  BY <1>3, <1>4

\* SendReply: whether or not the channel was full, it holds a reply now.
LEMMA SendReplyInv ==
  ASSUME Inv, NEW g \in Goroutines, SendReply(g)
  PROVE  Inv'
<1> DEFINE c == [call[g] EXCEPT !.pc = "gate"]
           id == call[g].ev.replyTo
<1>1. /\ call \in [Goroutines -> Calls] /\ call[g].pc = "send" /\ call[g] \in Calls
      /\ box \subseteq Ids /\ signalled \subseteq Ids /\ id \in Ids
  BY DEF Inv, TypeOK, Calls, SendReply, RepliesIssued
<1>2. c \in Calls /\ c.pc = "gate" /\ c.ev = call[g].ev /\ c.req = call[g].req
  BY <1>1 DEF Calls
<1>3. id # NoId
  BY <1>1, BusAssumption DEF BusAssumption, Ids, NoId
<1>4. /\ call' = [call EXCEPT ![g] = c]
      /\ box' = box \cup {id} /\ signalled' = signalled \cup {id}
      /\ UNCHANGED <<registry, pending, issued, running, lifecycle, window>>
  BY <1>1, <1>3 DEF SendReply, Signalled
<1> HIDE DEF c
<1>5. ReplyKept'
  BY <1>4 DEF Inv, ReplyKept
<1> QED
  BY <1>1, <1>2, <1>4, <1>5, SignalInv

\* A goroutine past the signalling of replies moves on.
LEMMA AdvanceInv ==
  ASSUME Inv, NEW g \in Goroutines, NEW c \in Calls, call' = [call EXCEPT ![g] = c],
         call[g].pc \in {"gate", "collect"}, c.pc \in {"dropped", "collect", "spawn"},
         c.ev = call[g].ev, c.req = call[g].req, Decided(c, window[g]),
         UNCHANGED <<registry, requests, running, lifecycle, window>>
  PROVE  Inv'
<1>1. InDispatch(call[g]) /\ InDispatch(c) /\ UNCHANGED <<pending, box, issued, signalled>>
  BY DEF InDispatch, requests
<1>2. /\ call'[g] = c /\ \A k \in Goroutines : k # g => call'[k] = call[k]
      /\ call' \in [Goroutines -> Calls]
      /\ HopsCounted' /\ IdsIssued' /\ RequestsDistinct'
      /\ pending' = {call'[k].req : k \in Goroutines} \ {NoId}
      /\ window' \in [Goroutines -> Windows] /\ Witnessed'
  BY <1>1, AdvanceCalls
<1>3. TypeOK'
  BY <1>1, <1>2 DEF Inv, TypeOK, Calls, registry, lifecycle
<1>4. ReplyKept' /\ RepliesIssued'
  BY <1>1, <1>2 DEF Inv, ReplyKept, RepliesIssued
<1>5. NoPendingLeak'
  BY <1>1, <1>2 DEF Inv, NoPendingLeak
<1> QED
  BY <1>2, <1>3, <1>4, <1>5 DEF Inv

\* CheckGate: the gate as it is now is one the window has seen.
LEMMA CheckGateInv ==
  ASSUME Inv, NEW g \in Goroutines, CheckGate(g)
  PROVE  Inv'
<1> DEFINE at == IF IsGated(call[g].ev) /\ ~gateOpen THEN "dropped" ELSE "collect"
           c == [call[g] EXCEPT !.pc = at]
<1>1. call \in [Goroutines -> Calls] /\ call[g].pc = "gate"
  BY DEF Inv, TypeOK, Calls, CheckGate
<1>2. c \in Calls /\ c.pc = at /\ c.ev = call[g].ev /\ c.req = call[g].req
  BY <1>1 DEF Calls
<1>3. UpToDate(call[g].ev, window[g], gateOpen, handlers)
  BY <1>1 DEF Inv, Witnessed, InDispatch
<1>4. call' = [call EXCEPT ![g] = c]
      /\ UNCHANGED <<registry, requests, running, lifecycle, window>>
  BY <1>1 DEF CheckGate
<1> HIDE DEF c
<1>5. Decided(c, window[g])
  BY <1>2, <1>3 DEF Decided, UpToDate
<1> QED
  BY <1>1, <1>2, <1>4, <1>5, AdvanceInv

\* Collect: the handlers as they are now are ones the window has seen.
LEMMA CollectInv ==
  ASSUME Inv, NEW g \in Goroutines, Collect(g)
  PROVE  Inv'
<1> DEFINE c == [call[g] EXCEPT !.pc = "spawn", !.snap = Audience(call[g].ev)]
<1>1. /\ call \in [Goroutines -> Calls] /\ call[g].pc = "collect"
      /\ handlers \subseteq Handlers
  BY DEF Inv, TypeOK, Calls, Collect
<1>2. Audience(call[g].ev) = Listeners(call[g].ev) \cap handlers
  BY <1>1 DEF Audience, Listeners
<1>3. Listeners(call[g].ev) \subseteq Handlers
  BY DEF Listeners
<1>4. /\ c \in Calls /\ c.pc = "spawn" /\ c.ev = call[g].ev /\ c.req = call[g].req
      /\ c.snap = Listeners(call[g].ev) \cap handlers
  BY <1>1, <1>2, <1>3 DEF Calls
<1>5. /\ UpToDate(call[g].ev, window[g], gateOpen, handlers)
      /\ Decided(call[g], window[g])
  BY <1>1 DEF Inv, Witnessed, InDispatch
<1>6. call' = [call EXCEPT ![g] = c]
      /\ UNCHANGED <<registry, requests, running, lifecycle, window>>
  BY <1>1 DEF Collect
<1> HIDE DEF c
<1>7. Decided(c, window[g])
  BY <1>1, <1>4, <1>5 DEF Decided, UpToDate
<1> QED
  BY <1>1, <1>4, <1>6, <1>7, AdvanceInv

\* Dispatch is over, and its handlers are running or the event is dropped.
LEMMA FinishInv ==
  ASSUME Inv, NEW g \in Goroutines, call' = [call EXCEPT ![g] = Finished(call[g].req)],
         CloseWindow(g), UNCHANGED <<registry, requests, lifecycle>>,
         \A r \in running' : r \in running \/ (r.ev = call[g].ev /\ r.h \in Handlers
                                                 /\ r \in [h: Handlers, ev: Event]),
         running' # running => InDispatch(call[g])
  PROVE  Inv'
<1> DEFINE c == Finished(call[g].req)
<1>1. call \in [Goroutines -> Calls] /\ window \in [Goroutines -> Windows]
  BY DEF Inv, TypeOK, Calls
<1>2. c \in Calls /\ c.pc \in {"idle", "returned"} /\ c.req = call[g].req /\ c.ev = NoEvent
      /\ NoEvent.id = NoId /\ NoEvent.replyTo = NoId
  BY <1>1, FinishedType DEF Calls
<1>3. /\ call'[g] = c /\ \A k \in Goroutines : k # g => call'[k] = call[k]
      /\ call' \in [Goroutines -> Calls]
  BY <1>1, <1>2
<1> HIDE DEF c
<1>4. ASSUME NEW r \in running'
      PROVE  /\ r \in [h: Handlers, ev: Event] /\ Counted(r.ev)
             /\ r.ev.id <= issued /\ r.ev.replyTo <= issued
  <2>1. CASE r \in running
    BY <2>1 DEF Inv, TypeOK, IdsIssued, Counted
  <2>2. CASE r \notin running
    <3>1. r.ev = call[g].ev /\ InDispatch(call[g]) /\ r \in [h: Handlers, ev: Event]
      BY <2>2
    <3> QED
      BY <3>1 DEF Inv, HopsCounted, IdsIssued
  <2> QED
    BY <2>1, <2>2
<1>5. TypeOK'
  BY <1>3, <1>4 DEF Inv, TypeOK, Calls, Counted, registry, requests, lifecycle
<1>6. HopsCounted'
  BY <1>2, <1>3 DEF Inv, HopsCounted, InDispatch
<1>7. IdsIssued'
  <2>1. NoId <= issued /\ issued' = issued
    BY DEF Inv, TypeOK, NoId, requests
  <2> QED
    BY <1>2, <1>3, <1>4, <2>1 DEF Inv, IdsIssued
<1>8. \A k \in Goroutines : call'[k].req = call[k].req
  BY <1>2, <1>3
<1>9. RequestsDistinct' /\ NoPendingLeak'
  BY <1>8 DEF Inv, RequestsDistinct, NoPendingLeak, requests
<1>10. ReplyKept' /\ RepliesIssued'
  BY <1>2, <1>3 DEF Inv, ReplyKept, RepliesIssued, requests
<1>11. /\ window' \in [Goroutines -> Windows]
       /\ \A k \in Goroutines : k # g => window'[k] = window[k]
  BY <1>1 DEF CloseWindow, NoWindow, Windows
<1>12. Witnessed'
  BY <1>2, <1>3, <1>11 DEF Inv, Witnessed, InDispatch, registry
<1> QED
  BY <1>5, <1>6, <1>7, <1>9, <1>10, <1>11, <1>12 DEF Inv

\* Request gets to its select.
LEMMA AwaitInv ==
  ASSUME Inv, NEW g \in Goroutines, Await(g)
  PROVE  Inv'
<1> DEFINE c == [call[g] EXCEPT !.pc = "wait"]
<1>1. /\ call \in [Goroutines -> Calls] /\ call[g] \in Calls /\ ~InDispatch(call[g])
      /\ UNCHANGED <<registry, requests, running, lifecycle, window>>
  BY DEF Inv, TypeOK, Calls, Await, InDispatch
<1>2. /\ c \in Calls /\ c.pc = "wait" /\ c.ev = call[g].ev /\ c.req = call[g].req
      /\ ~InDispatch(c)
  BY <1>1 DEF Calls, InDispatch
<1>3. call' = [call EXCEPT ![g] = c]
  BY <1>1 DEF Await
<1> HIDE DEF c
<1>4. /\ call'[g] = c /\ \A k \in Goroutines : k # g => call'[k] = call[k]
      /\ call' \in [Goroutines -> Calls]
  BY <1>1, <1>2, <1>3
<1>5. \A k \in Goroutines : /\ call'[k].ev = call[k].ev /\ call'[k].req = call[k].req
                            /\ InDispatch(call'[k]) => k # g /\ InDispatch(call[k])
                            /\ call'[k].pc = "send" => call[k].pc = "send"
  BY <1>2, <1>4
<1>6. TypeOK'
  BY <1>1, <1>4 DEF Inv, TypeOK, Calls, registry, requests, lifecycle
<1>7. HopsCounted' /\ IdsIssued' /\ RequestsDistinct' /\ NoPendingLeak'
  BY <1>1, <1>5 DEF Inv, requests, HopsCounted, IdsIssued, RequestsDistinct, NoPendingLeak
<1>8. ReplyKept' /\ RepliesIssued'
  BY <1>1, <1>5 DEF Inv, requests, ReplyKept, RepliesIssued
<1>9. window' \in [Goroutines -> Windows] /\ Witnessed'
  BY <1>1, <1>4, <1>5 DEF Inv, Witnessed, registry
<1> QED
  BY <1>6, <1>7, <1>8, <1>9 DEF Inv

\* Request returns, with a reply or without, and with it goes its reply channel
\* and no other.
LEMMA LeaveInv ==
  ASSUME Inv, NEW g \in Goroutines, Leave(g), box' = box \/ box' = box \ {call[g].req}
  PROVE  Inv'
<1>1. /\ call \in [Goroutines -> Calls] /\ window \in [Goroutines -> Windows]
      /\ call' = [call EXCEPT ![g] = Idle]
      /\ pending' = pending \ {call[g].req}
      /\ UNCHANGED <<registry, issued, running, lifecycle, window, signalled>>
  BY DEF Inv, TypeOK, Calls, Leave
<1>2. /\ Idle \in Calls /\ Idle.pc = "idle" /\ Idle.req = NoId /\ Idle.ev = NoEvent
      /\ NoEvent.id = NoId /\ NoEvent.replyTo = NoId
  BY FinishedType
<1>3. /\ call'[g] = Idle /\ \A k \in Goroutines : k # g => call'[k] = call[k]
      /\ call' \in [Goroutines -> Calls]
  BY <1>1, <1>2
<1>4. TypeOK'
  BY <1>1, <1>3 DEF Inv, TypeOK, Calls, registry, lifecycle
<1>5. HopsCounted'
  BY <1>2, <1>3 DEF Inv, HopsCounted, InDispatch
<1>6. IdsIssued'
  <2>1. NoId <= issued
    BY DEF Inv, TypeOK, NoId
  <2> QED
    BY <1>1, <1>2, <1>3, <2>1 DEF Inv, IdsIssued
<1>7. RequestsDistinct'
  BY <1>2, <1>3 DEF Inv, RequestsDistinct
<1>8. NoPendingLeak'
  <2>1. ASSUME NEW x PROVE x \in pending' <=> x \in {call'[k].req : k \in Goroutines} \ {NoId}
    <3>1. x \in pending <=> x # NoId /\ \E k \in Goroutines : x = call[k].req
      BY DEF Inv, NoPendingLeak
    <3>2. ASSUME x # NoId, NEW k \in Goroutines, x = call[k].req, x # call[g].req
          PROVE  x = call'[k].req
      BY <1>3, <3>2
    <3>3. ASSUME x # NoId, NEW k \in Goroutines, x = call'[k].req
          PROVE  x = call[k].req /\ x # call[g].req
      BY <1>2, <1>3, <3>3 DEF Inv, RequestsDistinct
    <3> QED
      BY <1>1, <3>1, <3>2, <3>3
  <2> QED
    BY <2>1 DEF NoPendingLeak
<1>9. ReplyKept' /\ RepliesIssued'
  BY <1>1, <1>2, <1>3 DEF Inv, ReplyKept, RepliesIssued
<1>10. Witnessed'
  BY <1>1, <1>2, <1>3 DEF Inv, Witnessed, InDispatch, registry
<1> QED
  BY <1>1, <1>4, <1>5, <1>6, <1>7, <1>8, <1>9, <1>10 DEF Inv

\* One step per action of the bus.
LEMMA StepInv == Inv /\ [Next]_vars => Inv'
<1> SUFFICES ASSUME Inv, [Next]_vars PROVE Inv'
  OBVIOUS
<1>1. /\ call \in [Goroutines -> Calls] /\ handlers \subseteq Handlers
      /\ gateOpen \in BOOLEAN /\ issued \in 0..MaxRequests /\ MaxRequests \in Nat
      /\ running \subseteq [h: Handlers, ev: Event]
      /\ DefaultTTL \in Int /\ DefaultTTL \in TTLs /\ TTLs \subseteq Int
  BY BusAssumption DEF Inv, TypeOK, Calls, BusAssumption
<1>2. CASE OpenGate \/ CloseGate
  BY <1>1, <1>2, RegistryInv DEF OpenGate, CloseGate, SetGate
<1>3. ASSUME NEW m \in Modules, Register(m) \/ Unregister(m) PROVE Inv'
  <2>1. PICK hs \in SUBSET Handlers : SetHandlers(hs)
    BY <1>1, <1>3 DEF Register, Unregister, Handlers
  <2> QED
    BY <1>1, <2>1, RegistryInv DEF SetHandlers
<1>4. ASSUME NEW s \in Subscribers, Subscribe(s) \/ Unsubscribe(s) PROVE Inv'
  <2>1. PICK hs \in SUBSET Handlers : SetHandlers(hs)
    BY <1>1, <1>4 DEF Subscribe, Unsubscribe, Handlers
  <2> QED
    BY <1>1, <2>1, RegistryInv DEF SetHandlers
<1>5. ASSUME NEW g \in Requesters, NEW ch \in Channels, Request(g, ch) PROVE Inv'
  <2> DEFINE ev == NewEvent(issued', ch, NoId, DefaultTTL)
  <2>1. /\ issued' = issued + 1 /\ issued' \in Ids /\ issued' \in 0..MaxRequests
        /\ issued < issued' /\ issued <= issued' /\ issued' # NoId /\ NoId <= issued'
        /\ issued' <= issued'
    BY <1>1, <1>5 DEF Request, Ids, NoId
  <2>2. ev \in Event /\ ev.id = issued' /\ ev.replyTo = NoId /\ ev.ttl = DefaultTTL
    <3>1. NoId \in Ids \cup {NoId} /\ issued' \in Ids \cup {NoId}
      BY <2>1
    <3> QED
      BY <1>1, <3>1 DEF NewEvent, Event
  <2>3. /\ call[g] = Idle /\ g \in Goroutines /\ OpenWindow(g)
        /\ call' = [call EXCEPT ![g] = Enter(ev, issued')]
        /\ pending' = pending \cup ({issued'} \ {NoId})
        /\ UNCHANGED <<registry, box, signalled, running, lifecycle>>
    BY <1>5, <2>1 DEF Request, Free, Goroutines
  <2> HIDE DEF ev
  <2>4. \E ttl \in TTLs : ev.ttl <= ttl
    BY <1>1, <2>2
  <2> QED
    BY <2>1, <2>2, <2>3, <2>4, EnterInv
<1>6. ASSUME NEW g \in Dispatchers, NEW ev \in Event, Free(g),
             ev.ttl > 0 => \E ttl \in TTLs : ev.ttl <= ttl,
             ev.id <= issued, ev.replyTo <= issued,
             call' = [call EXCEPT ![g] = Enter(ev, NoId)], OpenWindow(g),
             UNCHANGED <<registry, requests, running, lifecycle>>
      PROVE  Inv'
  <2>1. /\ pending' = pending \cup ({NoId} \ {NoId}) /\ box' = box /\ issued' = issued
        /\ signalled' = signalled
        /\ issued <= issued /\ g \in Goroutines /\ call[g] = Idle
    BY <1>1, <1>6 DEF requests, Goroutines, Free
  <2> QED
    BY <1>1, <1>6, <2>1, EnterInv
<1>7. ASSUME NEW g \in Dispatchers, NEW ch \in Channels, NEW ttl \in TTLs, Dispatch(g, ch, ttl)
      PROVE  Inv'
  <2> DEFINE ev == NewEvent(NoId, ch, NoId, ttl)
  <2>1. ev \in Event /\ ev.id = NoId /\ ev.replyTo = NoId /\ ev.ttl = ttl
    BY <1>1, NewEventType
  <2>2. ev.id <= issued /\ ev.replyTo <= issued /\ \E t \in TTLs : ev.ttl <= t
    BY <1>1, <2>1 DEF NoId
  <2>3. /\ Free(g) /\ OpenWindow(g) /\ call' = [call EXCEPT ![g] = Enter(ev, NoId)]
        /\ UNCHANGED <<registry, requests, running, lifecycle>>
    BY <1>7 DEF Dispatch
  <2> HIDE DEF ev
  <2> QED
    BY <1>6, <2>1, <2>2, <2>3
<1>8. ASSUME NEW g \in Dispatchers, NEW r \in running, HandlerForward(r, g) PROVE Inv'
  <2> DEFINE ev == [r.ev EXCEPT !.hops = @ + 1]
  <2>1. r.ev \in Event /\ ev \in Event /\ ev.ttl = r.ev.ttl /\ ev.id = r.ev.id
        /\ ev.replyTo = r.ev.replyTo
    BY <1>1 DEF Event
  <2>2. ev.id <= issued /\ ev.replyTo <= issued
    BY <2>1 DEF Inv, IdsIssued
  <2>3. PICK t \in TTLs : r.ev.ttl < t
    BY DEF Inv, TypeOK
  <2>4. ev.ttl <= t
    BY <1>1, <2>1, <2>3 DEF Event
  <2>5. /\ Free(g) /\ OpenWindow(g) /\ call' = [call EXCEPT ![g] = Enter(ev, NoId)]
        /\ UNCHANGED <<registry, requests, running, lifecycle>>
    BY <1>8 DEF HandlerForward
  <2> HIDE DEF ev
  <2> QED
    BY <1>6, <2>1, <2>2, <2>4, <2>5
<1>9. ASSUME NEW g \in Dispatchers, NEW r \in running, NEW ch \in Channels,
             HandlerReply(r, g, ch)
      PROVE  Inv'
  <2> DEFINE ev == NewEvent(NoId, ch, r.ev.id, DefaultTTL)
  <2>1. r.ev.id \in Ids \cup {NoId} /\ r.ev.id <= issued
    BY <1>1 DEF Inv, IdsIssued, Event
  <2>2. ev \in Event /\ ev.id = NoId /\ ev.replyTo = r.ev.id /\ ev.ttl = DefaultTTL
    BY <1>1, <2>1, NewEventType
  <2>3. ev.id <= issued /\ ev.replyTo <= issued /\ \E t \in TTLs : ev.ttl <= t
    BY <1>1, <2>1, <2>2 DEF NoId
  <2>4. /\ Free(g) /\ OpenWindow(g) /\ call' = [call EXCEPT ![g] = Enter(ev, NoId)]
        /\ UNCHANGED <<registry, requests, running, lifecycle>>
    BY <1>9 DEF HandlerReply
  <2> HIDE DEF ev
  <2> QED
    BY <1>6, <2>2, <2>3, <2>4
<1>10. ASSUME NEW g \in Goroutines, Step(g) PROVE Inv'
  <2>1. CASE LookUpReply(g)
    BY <2>1, LookUpReplyInv
  <2>6. CASE SendReply(g)
    BY <2>6, SendReplyInv
  <2>2. CASE CheckGate(g)
    BY <2>2, CheckGateInv
  <2>3. CASE Collect(g)
    BY <2>3, CollectInv
  <2>4. CASE Drop(g)
    <3>1. call' = [call EXCEPT ![g] = Finished(call[g].req)] /\ running' = running
      BY <1>1, <2>4 DEF Drop
    <3> QED
      BY <2>4, <3>1, FinishInv DEF Drop
  <2>5. CASE Spawn(g)
    <3>1. /\ call' = [call EXCEPT ![g] = Finished(call[g].req)] /\ InDispatch(call[g])
          /\ call[g].ev \in Event /\ call[g].snap \subseteq Handlers
      BY <1>1, <2>5 DEF Spawn, InDispatch, Calls
    <3>2. \A r \in running' : r \in running \/ (r.ev = call[g].ev /\ r.h \in Handlers
                                                 /\ r \in [h: Handlers, ev: Event])
      BY <2>5, <3>1 DEF Spawn
    <3> QED
      BY <2>5, <3>1, <3>2, FinishInv DEF Spawn
  <2> QED
    BY <1>10, <2>1, <2>2, <2>3, <2>4, <2>5, <2>6 DEF Step
<1>11. ASSUME NEW g \in Requesters, Await(g) \/ Answered(g) \/ TimedOut(g) \/ BusGone(g)
       PROVE  Inv'
  <2>1. g \in Goroutines
    BY DEF Goroutines
  <2>2. CASE Await(g)
    BY <2>1, <2>2, AwaitInv
  <2>3. CASE Answered(g) \/ TimedOut(g) \/ BusGone(g)
    BY <2>1, <2>3, LeaveInv DEF Answered, TimedOut, BusGone
  <2> QED
    BY <1>11, <2>2, <2>3
<1>12. ASSUME NEW r \in running, HandlerEnd(r) PROVE Inv'
  <2>1. /\ running' \subseteq running
        /\ UNCHANGED <<registry, requests, call, lifecycle, window>>
    BY <1>12 DEF HandlerEnd
  <2>2. TypeOK'
    BY <2>1 DEF Inv, TypeOK, registry, requests, lifecycle
  <2> QED
    BY <2>1, <2>2 DEF Inv, registry, requests, HopsCounted, IdsIssued, RequestsDistinct,
                      NoPendingLeak, ReplyKept, RepliesIssued, Witnessed
<1>13. ASSUME UNCHANGED <<registry, requests, call, running, window>>,
              toStop' \subseteq Modules, shutdown' \in {"up", "stopping", "expired", "down"}
       PROVE  Inv'
  <2>1. TypeOK'
    BY <1>13 DEF Inv, TypeOK, registry, requests
  <2>2. window' \in [Goroutines -> Windows] /\ Witnessed'
    BY <1>13 DEF Inv, registry, Witnessed
  <2> QED
    BY <1>13, <2>1, <2>2, CallsKept DEF Inv
<1>14. CASE Shutdown \/ ShutdownExpires \/ Cancel \/ \E m \in Modules : StopModule(m)
  BY <1>13, <1>14 DEF Shutdown, ShutdownExpires, Cancel, StopModule, Inv, TypeOK
<1>15. CASE UNCHANGED vars
  <2>1. /\ UNCHANGED <<registry, requests, call, running, window>>
        /\ toStop' = toStop /\ shutdown' = shutdown
    BY <1>15 DEF vars, registry, requests
  <2> QED
    BY <1>13, <2>1 DEF Inv, TypeOK
<1> QED
  BY <1>2, <1>3, <1>4, <1>5, <1>7, <1>8, <1>9, <1>10, <1>11, <1>12, <1>14, <1>15 DEF Next

\* The inductive invariant holds in every reachable state.
THEOREM InvHolds == Spec => []Inv
  BY InitInv, StepInv, PTL DEF Spec

\* Every variable keeps its type, and a delivered event has hops left to count.
THEOREM TypeCorrect == Spec => []TypeOK
<1>1. Inv => TypeOK
  BY DEF Inv
<1> QED
  BY <1>1, InvHolds, PTL

\* However the gate and the handlers change between the three critical sections
\* of Dispatch, nobody is given an event that was not open to it at some moment.
THEOREM Delivered == Spec => []DeliveredWithinCall
<1>1. Inv => DeliveredWithinCall
  BY DEF Inv, Witnessed, Decided, InDispatch, DeliveredWithinCall
<1> QED
  BY <1>1, InvHolds, PTL

\* An event is not lost on a gate or a handler that was there all the time.
THEOREM Missed == Spec => []NothingMissed
<1>1. Inv => NothingMissed
  BY DEF Inv, Witnessed, Decided, Listeners, InDispatch, NothingMissed
<1> QED
  BY <1>1, InvHolds, PTL

\* Reply channels and requests under way correspond one to one.
THEOREM PendingExact == Spec => []NoPendingLeak
<1>1. Inv => NoPendingLeak
  BY DEF Inv
<1> QED
  BY <1>1, InvHolds, PTL

\* A Request under way has a reply in its channel exactly if one was signalled
\* to it, although lookup and send are separate and the sends of others, late
\* ones included, fall in between.
THEOREM RepliesKept == Spec => []ReplyKept
<1>1. Inv => ReplyKept
  BY DEF Inv
<1> QED
  BY <1>1, InvHolds, PTL

=============================================================================
