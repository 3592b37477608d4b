-------------------------- MODULE PlanCacheProofs --------------------------
(***************************************************************************)
(* How old a cached plan gets and what a webhook leaves, for any readers,  *)
(* events, searches, time to live and latency.                             *)
(*                                                                         *)
(* The invariant of the first adds to StalenessBound that a request holds  *)
(* nothing old before it has read something; that of the second says where *)
(* an outdated answer can still be while a webhook is at work: under keys  *)
(* it has not come to.                                                     *)
(***************************************************************************)
EXTENDS PlanCache, TLAPS

BeforeRead == {"event_key", "response_key", "fetch"}

NothingOld == \A r \in Reader : readers[r].pc \in BeforeRead => readers[r].age = 0

IInv == TypeOK /\ StalenessBound /\ NothingOld

-----------------------------------------------------------------------------
(* Entries *)

\* What is put in a cache is an entry, as old as what the request holds.
LEMMA NewEntryType ==
    ASSUME NEW c, c.age \in Nat, c.outdated \in SUBSET Event,
           NEW about \in SUBSET Event
    PROVE  /\ NewEntry(c, about) \in Entry
           /\ NewEntry(c, about).age = c.age
           /\ NewEntry(c, about).left = TTL
BY CacheAssumption DEF NewEntry, Entry

LEMMA NoKeyType == NoKey \in Entry /\ ~Cached(NoKey)
BY CacheAssumption DEF NoKey, Entry, Cached

\* An entry grows older as fast as its time runs out.
LEMMA OlderType ==
    ASSUME NEW entry \in Entry
    PROVE  /\ Older(entry) \in Entry
           /\ Cached(Older(entry)) =>
                 /\ Cached(entry)
                 /\ Older(entry).age + Older(entry).left = entry.age + entry.left
<1>1. CASE entry.left > 1
  <2>1. Older(entry) = [about |-> entry.about, outdated |-> entry.outdated,
                        age |-> entry.age + 1, left |-> entry.left - 1]
    BY <1>1 DEF Older, Entry
  <2>2. entry.left \in 0..TTL /\ entry.age \in Nat /\ TTL \in Nat
    BY CacheAssumption DEF Entry
  <2>. QED  BY <1>1, <2>1, <2>2 DEF Entry, Cached
<1>2. CASE ~(entry.left > 1)
  BY <1>2, NoKeyType DEF Older
<1>. QED  BY <1>1, <1>2

\* A change at the provider does not change how old an entry is.
LEMMA OutdateEntry ==
    ASSUME NEW entry \in Entry, NEW e \in Event
    PROVE  /\ Outdate(entry, e) \in Entry
           /\ Outdate(entry, e).age = entry.age
           /\ Outdate(entry, e).left = entry.left
BY DEF Outdate, Entry

CallRecord == [pc : Steps, q : Request \union {NoRequest}, about : SUBSET Event,
          outdated : SUBSET Event, age : Nat, held : 0..MaxFlight]

LEMMA OutdateReader ==
    ASSUME NEW c \in CallRecord, NEW e \in Event
    PROVE  /\ Outdate(c, e) \in CallRecord
           /\ Outdate(c, e).pc = c.pc
           /\ Outdate(c, e).q = c.q
           /\ Outdate(c, e).age = c.age
           /\ Outdate(c, e).held = c.held
BY DEF Outdate, CallRecord

-----------------------------------------------------------------------------
(* What a step may do to a cache, to a request and to the webhook *)

WebhookType == [event : Event \union {NoRequest}, keys : SUBSET Request,
                scanned : BOOLEAN, quiet : BOOLEAN]

ResponseOK(entry) == entry \in Entry /\ Fresh(entry, TTL + MaxFlight)
EventOK(entry) == entry \in Entry /\ Fresh(entry, 2 * (TTL + MaxFlight) - 1)
ReaderOK(c) ==
    /\ c \in CallRecord
    /\ c.pc = "event_key" => c.q \in Event
    /\ c.pc # "idle" => c.q \in Request
    /\ c.pc \in BeforeRead => c.age = 0
    /\ c.pc = "cache_response" => c.age <= c.held
    /\ c.pc = "cache_events" => c.age < TTL + MaxFlight + c.held

Parts ==
    /\ responses = [q \in Request |-> responses[q]]
    /\ \A q \in Request : ResponseOK(responses[q])
    /\ events = [e \in Event |-> events[e]]
    /\ \A e \in Event : EventOK(events[e])
    /\ readers = [r \in Reader |-> readers[r]]
    /\ \A r \in Reader : ReaderOK(readers[r])
    /\ webhook \in WebhookType

LEMMA IInvParts == IInv <=> Parts
<1>1. ASSUME IInv PROVE Parts
  BY <1>1 DEF IInv, Parts, TypeOK, StalenessBound, NothingOld, ResponseOK,
              EventOK, ReaderOK, CallRecord, WebhookType
<1>2. ASSUME Parts PROVE IInv
  <2>1. TypeOK
    BY <1>2 DEF Parts, TypeOK, ResponseOK, EventOK, ReaderOK, CallRecord, WebhookType
  <2>2. StalenessBound /\ NothingOld
    BY <1>2 DEF Parts, StalenessBound, NothingOld, ResponseOK, EventOK, ReaderOK
  <2>. QED  BY <2>1, <2>2 DEF IInv
<1>. QED  BY <1>1, <1>2

\* One request moves on.
LEMMA ReaderMoves ==
    ASSUME Parts, NEW r \in Reader, NEW c, ReaderOK(c),
           readers' = [readers EXCEPT ![r] = c]
    PROVE  /\ readers' = [x \in Reader |-> readers'[x]]
           /\ \A x \in Reader : ReaderOK(readers'[x])
BY DEF Parts

LEMMA IdleOK == ReaderOK(Idle)
BY CacheAssumption DEF Idle, ReaderOK, CallRecord, Steps, BeforeRead

\* The sides that a step leaves alone.
LEMMA Unchanged ==
    ASSUME Parts
    PROVE  /\ UNCHANGED responses =>
                 /\ responses' = [q \in Request |-> responses'[q]]
                 /\ \A q \in Request : ResponseOK(responses'[q])
           /\ UNCHANGED events =>
                 /\ events' = [e \in Event |-> events'[e]]
                 /\ \A e \in Event : EventOK(events'[e])
           /\ UNCHANGED readers =>
                 /\ readers' = [r \in Reader |-> readers'[r]]
                 /\ \A r \in Reader : ReaderOK(readers'[r])
           /\ UNCHANGED webhook => webhook' \in WebhookType
BY DEF Parts

LEMMA InitOK == Init => Parts
<1>. SUFFICES ASSUME Init PROVE Parts
  OBVIOUS
<1>1. /\ \A q \in Request : responses[q] = NoKey
      /\ \A e \in Event : events[e] = NoKey
      /\ \A r \in Reader : readers[r] = Idle
  BY DEF Init
<1>2. ResponseOK(NoKey) /\ EventOK(NoKey)
  BY NoKeyType DEF ResponseOK, EventOK, Fresh
<1>3. webhook \in WebhookType
  BY DEF Init, NoWebhook, WebhookType
<1>4. /\ responses = [q \in Request |-> responses[q]]
      /\ events = [e \in Event |-> events[e]]
      /\ readers = [r \in Reader |-> readers[r]]
  BY DEF Init
<1>. QED  BY <1>1, <1>2, <1>3, <1>4, IdleOK DEF Parts
-----------------------------------------------------------------------------
(* The steps *)

LEMMA CallOK ==
    ASSUME Parts, NEW r \in Reader, NEW q \in Request, Call(r, q)
    PROVE  Parts'
<1>. DEFINE c == [Idle EXCEPT !.q = q,
                  !.pc = IF q \in Event THEN "event_key" ELSE "response_key"]
<1>1. ReaderOK(c)
  <2>1. /\ c \in CallRecord /\ c.q = q /\ c.age = 0
        /\ c.pc = IF q \in Event THEN "event_key" ELSE "response_key"
    <3>1. Idle \in CallRecord /\ Idle.age = 0
      BY IdleOK DEF ReaderOK, Idle
    <3>2. (IF q \in Event THEN "event_key" ELSE "response_key") \in Steps
      BY DEF Steps
    <3>. QED  BY <3>1, <3>2 DEF CallRecord
  <2>. HIDE DEF c
  <2>. QED  BY <2>1 DEF ReaderOK
<1>2. readers' = [readers EXCEPT ![r] = c]
  BY DEF Call
<1>3. webhook' \in WebhookType
  BY DEF Call, Parts, WebhookType
<1>. HIDE DEF c
<1>. QED  BY <1>1, <1>2, <1>3, ReaderMoves, Unchanged DEF Call, Parts

\* A request that goes on to another key, or ends, without writing.
LEMMA GotoOK ==
    ASSUME Parts, NEW r \in Reader, NEW pc \in {"response_key", "fetch"},
           readers[r].pc \in {"event_key", "response_key"}, Goto(r, pc)
    PROVE  /\ readers' = [x \in Reader |-> readers'[x]]
           /\ \A x \in Reader : ReaderOK(readers'[x])
<1>. DEFINE c == [readers[r] EXCEPT !.pc = pc]
<1>1. ReaderOK(readers[r])
  BY DEF Parts
<1>2. ReaderOK(c)
  BY <1>1 DEF ReaderOK, CallRecord, Steps, BeforeRead
<1>3. readers' = [readers EXCEPT ![r] = c]
  BY DEF Goto
<1>. HIDE DEF c
<1>. QED  BY <1>2, <1>3, ReaderMoves

LEMMA ReturnOK ==
    ASSUME Parts, NEW r \in Reader, Return(r)
    PROVE  /\ readers' = [x \in Reader |-> readers'[x]]
           /\ \A x \in Reader : ReaderOK(readers'[x])
BY IdleOK, ReaderMoves DEF Return

LEMMA GetCachedResponseOK ==
    ASSUME Parts, NEW r \in Reader, GetCachedResponse(r)
    PROVE  Parts'
<1>. DEFINE c == readers[r]
            entry == responses[c.q]
            d == [c EXCEPT !.pc = "cache_events", !.about = entry.about,
                           !.outdated = entry.outdated, !.age = entry.age]
<1>1. ReaderOK(c) /\ c.pc = "response_key"
  BY DEF Parts, GetCachedResponse
<1>2. c.q \in Request
  BY <1>1 DEF ReaderOK
<1>3. ResponseOK(entry)
  BY <1>2 DEF Parts
<1>4. CASE Cached(entry)
  <2>1. entry \in Entry /\ entry.left > 0 /\ entry.age + entry.left <= TTL + MaxFlight
    BY <1>3, <1>4 DEF ResponseOK, Fresh, Cached
  <2>2. entry.age < TTL + MaxFlight
    BY <2>1, CacheAssumption DEF Entry
  <2>3. d \in CallRecord /\ d.pc = "cache_events" /\ d.q = c.q
        /\ d.age = entry.age /\ d.held = c.held /\ c.held \in Nat
    <3>1. c \in CallRecord /\ c.held \in Nat
      BY <1>1, CacheAssumption DEF ReaderOK, CallRecord
    <3>2. /\ entry.about \in SUBSET Event /\ entry.outdated \in SUBSET Event
          /\ entry.age \in Nat /\ "cache_events" \in Steps
      BY <2>1 DEF Entry, Steps
    <3>. HIDE DEF c, entry
    <3>. QED  BY <3>1, <3>2 DEF CallRecord
  <2>4. entry.age < TTL + MaxFlight + c.held
    BY <2>1, <2>2, <2>3, CacheAssumption DEF Entry
  <2>5. ReaderOK(d)
    BY <1>2, <2>3, <2>4 DEF ReaderOK, BeforeRead
  <2>6. readers' = [readers EXCEPT ![r] = d]
    BY <1>4 DEF GetCachedResponse
  <2>. HIDE DEF d
  <2>. QED  BY <2>5, <2>6, ReaderMoves, Unchanged DEF GetCachedResponse, Parts
<1>5. CASE ~Cached(entry)
  <2>1. Goto(r, "fetch")
    BY <1>5 DEF GetCachedResponse
  <2>. QED  BY <1>1, <2>1, GotoOK, Unchanged DEF GetCachedResponse, Parts
<1>. QED  BY <1>4, <1>5

LEMMA FetchOK ==
    ASSUME Parts, NEW r \in Reader, NEW about \in SUBSET Event, Fetch(r, about)
    PROVE  Parts'
<1>. DEFINE c == [readers[r] EXCEPT !.pc = "cache_response", !.about = about]
<1>1. ReaderOK(readers[r]) /\ readers[r].pc = "fetch"
  BY DEF Parts, Fetch
<1>2. ReaderOK(c)
  <2>. DEFINE b == readers[r]
  <2>1. b \in CallRecord /\ b.q \in Request /\ b.age = 0 /\ b.held >= 0
    BY <1>1, CacheAssumption DEF ReaderOK, CallRecord, BeforeRead
  <2>2. /\ c \in CallRecord /\ c.pc = "cache_response" /\ c.q = b.q
        /\ c.age = b.age /\ c.held = b.held
    <3>1. "cache_response" \in Steps
      BY DEF Steps
    <3>2. b.held \in 0..MaxFlight
      BY <2>1 DEF CallRecord
    <3>. QED  BY <2>1, <3>1, <3>2 DEF CallRecord
  <2>. HIDE DEF b, c
  <2>. QED  BY <2>1, <2>2 DEF ReaderOK, BeforeRead
<1>3. readers' = [readers EXCEPT ![r] = c]
  BY DEF Fetch
<1>. HIDE DEF c
<1>. QED  BY <1>2, <1>3, ReaderMoves, Unchanged DEF Fetch, Parts

LEMMA CacheResponseOK ==
    ASSUME Parts, NEW r \in Reader, CacheResponse(r)
    PROVE  Parts'
<1>. DEFINE c == readers[r]
            d == [c EXCEPT !.pc = "cache_events"]
            entry == NewEntry(c, c.about)
<1>1. ReaderOK(c) /\ c.pc = "cache_response"
  BY DEF Parts, CacheResponse
<1>2. /\ c.q \in Request /\ c.age \in Nat /\ c.held \in 0..MaxFlight
      /\ c.age <= c.held /\ c.about \in SUBSET Event /\ c.outdated \in SUBSET Event
  BY <1>1 DEF ReaderOK, CallRecord
<1>3. entry \in Entry /\ entry.age = c.age /\ entry.left = TTL
  BY <1>2, NewEntryType
<1>4. ResponseOK(entry)
  <2>1. c.age + TTL <= TTL + MaxFlight
    BY <1>2, CacheAssumption
  <2>. QED  BY <1>3, <2>1 DEF ResponseOK, Fresh
<1>5. ReaderOK(d)
  <2>1. c.age < TTL + MaxFlight + c.held
    BY <1>2, CacheAssumption
  <2>. QED  BY <1>1, <2>1 DEF ReaderOK, CallRecord, Steps, BeforeRead
<1>6. responses' = [responses EXCEPT ![c.q] = entry]
  BY DEF CacheResponse
<1>7. readers' = [readers EXCEPT ![r] = d]
  BY DEF CacheResponse, Goto
<1>. HIDE DEF c, d, entry
<1>8. /\ responses' = [q \in Request |-> responses'[q]]
      /\ \A q \in Request : ResponseOK(responses'[q])
  BY <1>2, <1>4, <1>6 DEF Parts
<1>. QED  BY <1>5, <1>7, <1>8, ReaderMoves, Unchanged DEF CacheResponse, Parts

LEMMA CacheEventOK ==
    ASSUME Parts, NEW r \in Reader, NEW e \in Event, CacheEvent(r, e)
    PROVE  Parts'
<1>. DEFINE c == readers[r]
            d == [c EXCEPT !.about = @ \ {e}]
            entry == NewEntry(c, {e})
<1>1. ReaderOK(c) /\ c.pc = "cache_events"
  BY DEF Parts, CacheEvent
<1>2. /\ c.age \in Nat /\ c.held \in 0..MaxFlight
      /\ c.age < TTL + MaxFlight + c.held /\ c.outdated \in SUBSET Event
  BY <1>1 DEF ReaderOK, CallRecord
<1>3. entry \in Entry /\ entry.age = c.age /\ entry.left = TTL
  BY <1>2, NewEntryType
<1>4. EventOK(entry)
  <2>1. c.age + TTL <= 2 * (TTL + MaxFlight) - 1
    BY <1>2, CacheAssumption
  <2>. QED  BY <1>3, <2>1 DEF EventOK, Fresh
<1>5. ReaderOK(d)
  BY <1>1 DEF ReaderOK, CallRecord, Steps, BeforeRead
<1>6. events' = [events EXCEPT ![e] = entry]
  BY DEF CacheEvent
<1>7. readers' = [readers EXCEPT ![r] = d]
  BY DEF CacheEvent
<1>. HIDE DEF c, d, entry
<1>8. /\ events' = [f \in Event |-> events'[f]]
      /\ \A f \in Event : EventOK(events'[f])
  BY <1>4, <1>6 DEF Parts
<1>. QED  BY <1>5, <1>7, <1>8, ReaderMoves, Unchanged DEF CacheEvent, Parts

LEMMA WebhookOK ==
    ASSUME Parts,
           \/ \E e \in Event : PlanUpdated(e)
           \/ HandleWebhook
    PROVE  Parts'
<1>1. ASSUME NEW e \in Event, PlanUpdated(e) PROVE Parts'
  BY <1>1, Unchanged DEF PlanUpdated, Parts, WebhookType
<1>2. CASE InvalidateEvent
  <2>1. webhook.event \in Event
    BY <1>2 DEF InvalidateEvent, Parts, WebhookType
  <2>2. EventOK(NoKey)
    BY NoKeyType DEF EventOK, Fresh
  <2>3. /\ events' = [f \in Event |-> events'[f]]
        /\ \A f \in Event : EventOK(events'[f])
    BY <1>2, <2>1, <2>2 DEF InvalidateEvent, Parts
  <2>4. webhook' \in WebhookType
    BY <1>2 DEF InvalidateEvent, Parts, WebhookType, CachedResponses
  <2>. QED  BY <1>2, <2>3, <2>4, Unchanged DEF InvalidateEvent, Parts
<1>3. ASSUME NEW q \in Request, DeleteResponse(q) PROVE Parts'
  <2>1. ResponseOK(NoKey)
    BY NoKeyType DEF ResponseOK, Fresh
  <2>2. /\ responses' = [x \in Request |-> responses'[x]]
        /\ \A x \in Request : ResponseOK(responses'[x])
    BY <1>3, <2>1 DEF DeleteResponse, Parts
  <2>3. webhook' \in WebhookType
    BY <1>3 DEF DeleteResponse, Parts, WebhookType
  <2>. QED  BY <1>3, <2>2, <2>3, Unchanged DEF DeleteResponse, Parts
<1>4. CASE ScanEnds
  BY <1>4, Unchanged DEF ScanEnds, Parts, WebhookType, NoWebhook
<1>. QED  BY <1>1, <1>2, <1>3, <1>4 DEF HandleWebhook

LEMMA ProviderChangesOK ==
    ASSUME Parts, NEW e \in Event, ProviderChanges(e)
    PROVE  Parts'
<1>1. ASSUME NEW q \in Request PROVE ResponseOK(responses'[q])
  <2>1. responses'[q] = Outdate(responses[q], e) /\ ResponseOK(responses[q])
    BY DEF ProviderChanges, Parts
  <2>. QED  BY <2>1, OutdateEntry DEF ResponseOK, Fresh, Cached
<1>2. ASSUME NEW f \in Event PROVE EventOK(events'[f])
  <2>1. events'[f] = Outdate(events[f], e) /\ EventOK(events[f])
    BY DEF ProviderChanges, Parts
  <2>. QED  BY <2>1, OutdateEntry DEF EventOK, Fresh, Cached
<1>3. ASSUME NEW r \in Reader PROVE ReaderOK(readers'[r])
  <2>1. readers'[r] = Outdate(readers[r], e) /\ ReaderOK(readers[r])
    BY DEF ProviderChanges, Parts
  <2>. QED  BY <2>1, OutdateReader DEF ReaderOK
<1>4. webhook' \in WebhookType
  BY DEF ProviderChanges, Parts, WebhookType
<1>5. /\ responses' = [q \in Request |-> responses'[q]]
      /\ events' = [f \in Event |-> events'[f]]
      /\ readers' = [r \in Reader |-> readers'[r]]
  BY DEF ProviderChanges
<1>. QED  BY <1>1, <1>2, <1>3, <1>4, <1>5 DEF Parts

LEMMA TickOK == ASSUME Parts, Tick PROVE Parts'
<1>1. ASSUME NEW q \in Request PROVE ResponseOK(responses'[q])
  <2>1. responses'[q] = Older(responses[q]) /\ ResponseOK(responses[q])
    BY DEF Tick, Parts
  <2>. QED  BY <2>1, OlderType DEF ResponseOK, Fresh
<1>2. ASSUME NEW f \in Event PROVE EventOK(events'[f])
  <2>1. events'[f] = Older(events[f]) /\ EventOK(events[f])
    BY DEF Tick, Parts
  <2>. QED  BY <2>1, OlderType DEF EventOK, Fresh
<1>3. ASSUME NEW r \in Reader PROVE ReaderOK(readers'[r])
  <2>. DEFINE c == readers[r]
  <2>1. ReaderOK(c)
    BY DEF Parts
  <2>2. CASE c.pc \in Holding
    <3>1. c.held < MaxFlight
      BY <2>2 DEF Tick
    <3>2. readers'[r] = [c EXCEPT !.age = @ + 1, !.held = @ + 1]
      BY <2>2 DEF Tick
    <3>3. c \in CallRecord /\ c.q \in Request /\ c.pc \notin BeforeRead
      BY <2>1, <2>2 DEF ReaderOK, Holding, BeforeRead
    <3>4. readers'[r] = [pc |-> c.pc, q |-> c.q, about |-> c.about,
                         outdated |-> c.outdated, age |-> c.age + 1,
                         held |-> c.held + 1]
      BY <3>2, <3>3 DEF CallRecord
    <3>5. c.age + 1 \in Nat /\ c.held + 1 \in 0..MaxFlight
      BY <3>1, <3>3, CacheAssumption DEF CallRecord
    <3>6. readers'[r] \in CallRecord
      BY <3>3, <3>4, <3>5 DEF CallRecord
    <3>7. /\ c.pc = "cache_response" => c.age + 1 <= c.held + 1
          /\ c.pc = "cache_events" => c.age + 1 < TTL + MaxFlight + (c.held + 1)
      BY <2>1, <3>3, CacheAssumption DEF ReaderOK, CallRecord
    <3>. HIDE DEF c
    <3>. QED  BY <2>2, <3>3, <3>4, <3>6, <3>7 DEF ReaderOK, Holding
  <2>3. CASE c.pc \notin Holding
    BY <2>1, <2>3 DEF Tick
  <2>. QED  BY <2>2, <2>3
<1>4. webhook' \in WebhookType
  BY DEF Tick, Parts, WebhookType
<1>5. /\ responses' = [q \in Request |-> responses'[q]]
      /\ events' = [f \in Event |-> events'[f]]
      /\ readers' = [r \in Reader |-> readers'[r]]
  BY DEF Tick
<1>. QED  BY <1>1, <1>2, <1>3, <1>4, <1>5 DEF Parts

LEMMA ReadOK ==
    ASSUME Parts, NEW r \in Reader, Read(r)
    PROVE  Parts'
<1>1. CASE GetCachedEvent(r)
  <2>1. Return(r) \/ (Goto(r, "response_key") /\ readers[r].pc = "event_key")
    BY <1>1 DEF GetCachedEvent
  <2>2. /\ readers' = [x \in Reader |-> readers'[x]]
        /\ \A x \in Reader : ReaderOK(readers'[x])
    BY <2>1, ReturnOK, GotoOK
  <2>. QED  BY <1>1, <2>2, Unchanged DEF GetCachedEvent, Parts
<1>2. CASE FetchFails(r)
  BY <1>2, ReturnOK, Unchanged DEF FetchFails, Parts
<1>3. CASE AllCached(r)
  BY <1>3, ReturnOK, Unchanged DEF AllCached, Parts
<1>4. CASE RedisRaises(r)
  BY <1>4, ReturnOK, Unchanged DEF RedisRaises, Parts
<1>. QED  BY <1>1, <1>2, <1>3, <1>4, GetCachedResponseOK, FetchOK,
             CacheResponseOK, CacheEventOK DEF Read

LEMMA NextOK == Parts /\ [Next]_vars => Parts'
<1>. SUFFICES ASSUME Parts, [Next]_vars PROVE Parts'
  OBVIOUS
<1>1. ASSUME NEW r \in Reader, Read(r) PROVE Parts'
  BY <1>1, ReadOK
<1>2. ASSUME NEW r \in Reader, NEW q \in Request, Call(r, q) PROVE Parts'
  BY <1>2, CallOK
<1>3. ASSUME NEW e \in Event, ProviderChanges(e) PROVE Parts'
  BY <1>3, ProviderChangesOK
<1>4. CASE UNCHANGED vars
  BY <1>4, Unchanged DEF vars, Parts
<1>. QED  BY <1>1, <1>2, <1>3, <1>4, WebhookOK, TickOK DEF Next

-----------------------------------------------------------------------------
\* Cached responses and events have a bounded age: get_plan never answers with
\* a plan the provider sent more than twice a time to live, and twice the
\* latency of a request, ago (ticketmaster.py:159-283).
THEOREM BoundedStaleness == Spec => []StalenessBound
<1>1. Spec => []Parts
  BY InitOK, NextOK, PTL DEF Spec
<1>2. Parts => StalenessBound
  BY IInvParts DEF IInv
<1>. QED  BY <1>1, <1>2, PTL

\* The caches, the requests and the webhook keep to their types.
THEOREM CacheTypeCorrect == Spec => []TypeOK
<1>1. Spec => []Parts
  BY InitOK, NextOK, PTL DEF Spec
<1>2. Parts => TypeOK
  BY IInvParts DEF IInv
<1>. QED  BY <1>1, <1>2, PTL

-----------------------------------------------------------------------------
(* What a webhook leaves in the caches *)

\* An entry is outdated in what it tells of, and a key that is gone tells of
\* nothing.
Told(entry) ==
    /\ entry.outdated \subseteq entry.about
    /\ entry.about # {} => Cached(entry)

Entries ==
    /\ \A q \in Request : Told(responses[q])
    /\ \A f \in Event : Told(events[f]) /\ events[f].about \subseteq {f}

\* No call overlaps the webhook so far; once it has scanned, only the keys it
\* is about to delete hold the event as it was.
Undisturbed ==
    /\ webhook.event \in Event
    /\ \A r \in Reader : readers[r] = Idle
    /\ webhook.scanned =>
          /\ \A f \in Event : webhook.event \notin events[f].outdated
          /\ \A q \in Request :
                webhook.event \in responses[q].outdated => q \in webhook.keys

ClearInv == Parts /\ Entries /\ (webhook.quiet => Undisturbed)

LEMMA NewEntryTold ==
    ASSUME NEW c, NEW about
    PROVE  Told(NewEntry(c, about)) /\ NewEntry(c, about).about = about
BY CacheAssumption DEF Told, NewEntry, Cached

LEMMA NoKeyTold == Told(NoKey) /\ NoKey.about = {} /\ NoKey.outdated = {}
BY DEF Told, NoKey

LEMMA OlderTold ==
    ASSUME NEW entry \in Entry, Told(entry)
    PROVE  /\ Told(Older(entry))
           /\ Older(entry).about \subseteq entry.about
           /\ Older(entry).outdated \subseteq entry.outdated
           /\ Older(entry).outdated # {} => Cached(Older(entry))
<1>1. CASE entry.left > 1
  <2>1. Older(entry) = [about |-> entry.about, outdated |-> entry.outdated,
                        age |-> entry.age + 1, left |-> entry.left - 1]
    BY <1>1 DEF Older, Entry
  <2>2. entry.left \in Nat
    BY CacheAssumption DEF Entry
  <2>3. Cached(Older(entry))
    BY <1>1, <2>1, <2>2 DEF Cached
  <2>. QED  BY <2>1, <2>3 DEF Told
<1>2. CASE ~(entry.left > 1)
  BY <1>2, NoKeyTold DEF Older
<1>. QED  BY <1>1, <1>2

LEMMA OutdateTold ==
    ASSUME NEW entry \in Entry, NEW e \in Event, Told(entry)
    PROVE  /\ Told(Outdate(entry, e))
           /\ Outdate(entry, e).about = entry.about
           /\ Outdate(entry, e).outdated \subseteq entry.outdated \union {e}
<1>1. Outdate(entry, e) = [about |-> entry.about,
                           outdated |-> entry.outdated \union ({e} \intersect entry.about),
                           age |-> entry.age, left |-> entry.left]
  BY DEF Outdate, Entry
<1>. QED  BY <1>1 DEF Told, Cached

\* A step of a request finds a webhook that some call overlaps.
LEMMA ReadClears ==
    ASSUME ClearInv, NEW r \in Reader, Read(r)
    PROVE  Entries' /\ webhook' = webhook /\ ~webhook.quiet
<1>1. webhook' = webhook
  BY DEF Read, GetCachedEvent, GetCachedResponse, Fetch, FetchFails, CacheResponse,
         CacheEvent, AllCached, RedisRaises
<1>2. readers[r].pc # "idle"
  BY DEF Read, GetCachedEvent, GetCachedResponse, Fetch, FetchFails, CacheResponse,
         CacheEvent, AllCached, RedisRaises
<1>3. ~webhook.quiet
  <2>1. Idle.pc = "idle"
    BY DEF Idle
  <2>. QED  BY <1>2, <2>1 DEF ClearInv, Undisturbed
<1>4. Entries'
  <2>1. CASE CacheResponse(r)
    <3>. DEFINE entry == NewEntry(readers[r], readers[r].about)
    <3>1. responses' = [responses EXCEPT ![readers[r].q] = entry] /\ events' = events
      BY <2>1 DEF CacheResponse
    <3>2. Told(entry)
      BY NewEntryTold
    <3>. HIDE DEF entry
    <3>. QED  BY <3>1, <3>2 DEF ClearInv, Parts, Entries
  <2>2. ASSUME NEW e \in Event, CacheEvent(r, e) PROVE Entries'
    <3>. DEFINE entry == NewEntry(readers[r], {e})
    <3>1. events' = [events EXCEPT ![e] = entry] /\ responses' = responses
      BY <2>2 DEF CacheEvent
    <3>2. Told(entry) /\ entry.about = {e}
      BY NewEntryTold
    <3>. HIDE DEF entry
    <3>. QED  BY <3>1, <3>2 DEF ClearInv, Parts, Entries
  <2>3. CASE UNCHANGED <<responses, events>>
    BY <2>3 DEF ClearInv, Entries
  <2>. QED  BY <2>1, <2>2, <2>3 DEF Read, GetCachedEvent, GetCachedResponse, Fetch,
               FetchFails, AllCached, RedisRaises
<1>. QED  BY <1>1, <1>3, <1>4

LEMMA WebhookClearsStep ==
    ASSUME ClearInv, \/ \E e \in Event : PlanUpdated(e)
                     \/ HandleWebhook
    PROVE  Entries' /\ (webhook'.quiet => Undisturbed')
<1>1. ASSUME NEW e \in Event, PlanUpdated(e)
      PROVE  Entries' /\ (webhook'.quiet => Undisturbed')
  <2>1. /\ webhook' = [event |-> e, keys |-> {}, scanned |-> FALSE,
                       quiet |-> \A r \in Reader : readers[r] = Idle]
        /\ UNCHANGED <<responses, events, readers>>
    BY <1>1 DEF PlanUpdated
  <2>. QED  BY <2>1 DEF ClearInv, Entries, Undisturbed
<1>2. CASE InvalidateEvent
  <2>1. /\ events' = [events EXCEPT ![webhook.event] = NoKey]
        /\ webhook' = [webhook EXCEPT !.scanned = TRUE, !.keys = CachedResponses]
        /\ responses' = responses /\ readers' = readers
    BY <1>2 DEF InvalidateEvent
  <2>2. webhook \in WebhookType
    BY DEF ClearInv, Parts
  <2>3. /\ webhook'.event = webhook.event /\ webhook'.quiet = webhook.quiet
        /\ webhook'.keys = CachedResponses
    BY <2>1, <2>2 DEF WebhookType
  <2>4. \A f \in Event : events'[f] = IF f = webhook.event THEN NoKey ELSE events[f]
    BY <2>1 DEF ClearInv, Parts
  <2>5. Entries'
    BY <2>1, <2>4, NoKeyTold DEF ClearInv, Entries
  <2>6. ASSUME NEW f \in Event PROVE webhook.event \notin events'[f].outdated
    BY <2>4, NoKeyTold DEF ClearInv, Entries, Told
  <2>7. ASSUME NEW q \in Request, responses[q].outdated # {}
        PROVE  q \in CachedResponses
    BY <2>7 DEF ClearInv, Entries, Told, CachedResponses
  <2>. QED  BY <2>1, <2>3, <2>5, <2>6, <2>7 DEF ClearInv, Undisturbed
<1>3. ASSUME NEW q \in Request, DeleteResponse(q)
      PROVE  Entries' /\ (webhook'.quiet => Undisturbed')
  <2>1. /\ responses' = [responses EXCEPT ![q] = NoKey]
        /\ webhook' = [webhook EXCEPT !.keys = @ \ {q}]
        /\ events' = events /\ readers' = readers
    BY <1>3 DEF DeleteResponse
  <2>2. webhook \in WebhookType
    BY DEF ClearInv, Parts
  <2>3. /\ webhook'.event = webhook.event /\ webhook'.quiet = webhook.quiet
        /\ webhook'.scanned = webhook.scanned /\ webhook'.keys = webhook.keys \ {q}
    BY <2>1, <2>2 DEF WebhookType
  <2>4. \A x \in Request : responses'[x] = IF x = q THEN NoKey ELSE responses[x]
    BY <2>1 DEF ClearInv, Parts
  <2>5. Entries'
    BY <2>1, <2>4, NoKeyTold DEF ClearInv, Entries
  <2>. QED  BY <2>1, <2>3, <2>4, <2>5, NoKeyTold DEF ClearInv, Undisturbed
<1>4. CASE ScanEnds
  BY <1>4 DEF ScanEnds, NoWebhook, ClearInv, Entries
<1>. QED  BY <1>1, <1>2, <1>3, <1>4 DEF HandleWebhook

LEMMA ProviderChangesClears ==
    ASSUME ClearInv, NEW e \in Event, ProviderChanges(e)
    PROVE  Entries' /\ (webhook'.quiet => Undisturbed')
<1>1. /\ \A q \in Request : responses'[q] = Outdate(responses[q], e)
      /\ \A f \in Event : events'[f] = Outdate(events[f], e)
      /\ \A r \in Reader : readers'[r] = Outdate(readers[r], e)
      /\ webhook' = [webhook EXCEPT !.quiet = @ /\ webhook.event # e]
  BY DEF ProviderChanges
<1>2. webhook \in WebhookType
  BY DEF ClearInv, Parts
<1>3. /\ webhook'.event = webhook.event /\ webhook'.scanned = webhook.scanned
      /\ webhook'.keys = webhook.keys
      /\ webhook'.quiet => webhook.quiet /\ webhook.event # e
  BY <1>1, <1>2 DEF WebhookType
<1>4. ASSUME NEW q \in Request
      PROVE  /\ Told(responses'[q])
             /\ responses'[q].outdated \subseteq responses[q].outdated \union {e}
  BY <1>1, OutdateTold DEF ClearInv, Parts, ResponseOK, Entries
<1>5. ASSUME NEW f \in Event
      PROVE  /\ Told(events'[f]) /\ events'[f].about \subseteq {f}
             /\ events'[f].outdated \subseteq events[f].outdated \union {e}
  BY <1>1, OutdateTold DEF ClearInv, Parts, EventOK, Entries
<1>6. Outdate(Idle, e) = Idle
  BY DEF Outdate, Idle
<1>. QED  BY <1>1, <1>3, <1>4, <1>5, <1>6 DEF ClearInv, Entries, Undisturbed

LEMMA TickClears ==
    ASSUME ClearInv, Tick
    PROVE  Entries' /\ (webhook'.quiet => Undisturbed')
<1>1. /\ \A q \in Request : responses'[q] = Older(responses[q])
      /\ \A f \in Event : events'[f] = Older(events[f])
      /\ \A r \in Reader : readers[r].pc \notin Holding => readers'[r] = readers[r]
      /\ webhook' = [webhook EXCEPT !.keys =
                        {q \in webhook.keys : Cached(responses'[q])}]
  BY DEF Tick
<1>2. webhook \in WebhookType
  BY DEF ClearInv, Parts
<1>3. /\ webhook'.event = webhook.event /\ webhook'.scanned = webhook.scanned
      /\ webhook'.keys = {q \in webhook.keys : Cached(responses'[q])}
      /\ webhook'.quiet = webhook.quiet
  BY <1>1, <1>2 DEF WebhookType
<1>4. ASSUME NEW q \in Request
      PROVE  /\ Told(responses'[q])
             /\ responses'[q].outdated \subseteq responses[q].outdated
             /\ responses'[q].outdated # {} => Cached(responses'[q])
  BY <1>1, OlderTold DEF ClearInv, Parts, ResponseOK, Entries
<1>5. ASSUME NEW f \in Event
      PROVE  /\ Told(events'[f]) /\ events'[f].about \subseteq {f}
             /\ events'[f].outdated \subseteq events[f].outdated
  BY <1>1, OlderTold DEF ClearInv, Parts, EventOK, Entries
<1>6. Idle.pc \notin Holding
  BY DEF Idle, Holding
<1>7. Entries'
  BY <1>4, <1>5 DEF Entries
<1>8. webhook'.quiet => Undisturbed'
  <2>. SUFFICES ASSUME webhook'.quiet PROVE Undisturbed'
    OBVIOUS
  <2>1. Undisturbed
    BY <1>3 DEF ClearInv
  <2>2. \A r \in Reader : readers'[r] = Idle
    BY <1>1, <1>6, <2>1 DEF Undisturbed
  <2>. QED  BY <1>3, <1>4, <1>5, <2>1, <2>2 DEF Undisturbed
<1>. QED  BY <1>7, <1>8

LEMMA ClearNext == ClearInv /\ [Next]_vars => ClearInv'
<1>. SUFFICES ASSUME ClearInv, [Next]_vars PROVE ClearInv'
  OBVIOUS
<1>1. Parts'
  BY NextOK DEF ClearInv
<1>2. ASSUME NEW r \in Reader, Read(r) PROVE ClearInv'
  BY <1>1, <1>2, ReadClears DEF ClearInv
<1>3. ASSUME NEW r \in Reader, NEW q \in Request, Call(r, q) PROVE ClearInv'
  <2>1. webhook' = [webhook EXCEPT !.quiet = FALSE]
        /\ UNCHANGED <<responses, events>>
    BY <1>3 DEF Call
  <2>2. ~webhook'.quiet
    BY <2>1 DEF ClearInv, Parts, WebhookType
  <2>. QED  BY <1>1, <2>1, <2>2 DEF ClearInv, Entries
<1>4. ASSUME NEW e \in Event, ProviderChanges(e) PROVE ClearInv'
  BY <1>1, <1>4, ProviderChangesClears DEF ClearInv
<1>5. CASE (\E e \in Event : PlanUpdated(e)) \/ HandleWebhook
  BY <1>1, <1>5, WebhookClearsStep DEF ClearInv
<1>6. CASE Tick
  BY <1>1, <1>6, TickClears DEF ClearInv
<1>7. CASE UNCHANGED vars
  BY <1>1, <1>7 DEF vars, ClearInv, Entries, Undisturbed
<1>. QED  BY <1>2, <1>3, <1>4, <1>5, <1>6, <1>7 DEF Next

\* A webhook that is quiet can only end when its scan does.
LEMMA OnlyTheScanEnds ==
    ASSUME ClearInv, [Next]_vars, webhook.quiet, webhook' = NoWebhook
    PROVE  ScanEnds
<1>1. /\ webhook.event \in Event /\ NoWebhook.event = NoRequest
      /\ ~NoWebhook.quiet /\ ~NoWebhook.scanned /\ webhook \in WebhookType
  BY DEF ClearInv, Undisturbed, NoWebhook, Parts
<1>2. webhook'.event # webhook.event /\ ~webhook'.quiet
  BY <1>1, CacheAssumption
<1>3. ASSUME NEW r \in Reader, Read(r) PROVE FALSE
  BY <1>3, ReadClears
<1>4. ASSUME NEW r \in Reader, NEW q \in Request, Call(r, q) PROVE FALSE
  BY <1>1, <1>2, <1>4 DEF Call, WebhookType
<1>5. ASSUME NEW e \in Event, PlanUpdated(e) PROVE FALSE
  BY <1>1, <1>5 DEF PlanUpdated
<1>6. ASSUME NEW e \in Event, ProviderChanges(e) PROVE FALSE
  BY <1>1, <1>2, <1>6 DEF ProviderChanges, WebhookType
<1>7. CASE InvalidateEvent
  BY <1>1, <1>2, <1>7 DEF InvalidateEvent, WebhookType
<1>8. ASSUME NEW q \in Request, DeleteResponse(q) PROVE FALSE
  BY <1>1, <1>2, <1>8 DEF DeleteResponse, WebhookType
<1>9. CASE Tick
  BY <1>1, <1>2, <1>9 DEF Tick, WebhookType
<1>10. CASE UNCHANGED vars
  BY <1>2, <1>10 DEF vars
<1>. QED  BY <1>3, <1>4, <1>5, <1>6, <1>7, <1>8, <1>9, <1>10 DEF Next, HandleWebhook

\* A plan update that no call overlaps leaves nothing in either cache that was
\* read before it, whatever entries, searches and expiries there are
\* (ticketmaster.py:295-300, 316-327).
THEOREM QuietWebhookClears == Spec => WebhookClears
<1>1. Init => ClearInv
  <2>. SUFFICES ASSUME Init PROVE ClearInv
    OBVIOUS
  <2>1. Parts
    BY InitOK
  <2>2. Entries
    BY NoKeyTold DEF Init, Entries
  <2>3. ~webhook.quiet
    BY DEF Init, NoWebhook
  <2>. QED  BY <2>1, <2>2, <2>3 DEF ClearInv
<1>2. ASSUME ClearInv, [Next]_vars
      PROVE  [webhook.quiet /\ webhook' = NoWebhook =>
                LET e == webhook.event IN
                /\ \A q \in Request : e \notin responses'[q].outdated
                /\ \A f \in Event : e \notin events'[f].outdated]_vars
  <2>. SUFFICES ASSUME webhook.quiet, webhook' = NoWebhook
                PROVE  /\ \A q \in Request : webhook.event \notin responses'[q].outdated
                       /\ \A f \in Event : webhook.event \notin events'[f].outdated
    OBVIOUS
  <2>1. ScanEnds
    BY <1>2, OnlyTheScanEnds
  <2>. QED  BY <1>2, <2>1 DEF ScanEnds, ClearInv, Undisturbed
<1>. QED  BY <1>1, <1>2, ClearNext, PTL DEF Spec, WebhookClears
=============================================================================
