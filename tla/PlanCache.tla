----------------------------- MODULE PlanCache -----------------------------
(***************************************************************************)
(* The Redis caches in front of the Ticketmaster Discovery API             *)
(* (adapters/ticketmaster.py): responses under tm:search:{hash} and single *)
(* events under tm:event:{id}, filled by the requests of several readers,  *)
(* emptied by time and by the plan-update webhook.                         *)
(*                                                                         *)
(* There is no clock: whatever was read from the provider has an age, the  *)
(* time since the provider sent it, and a key has the time it has left.    *)
(***************************************************************************)
EXTENDS Naturals, FiniteSets

CONSTANTS
    Reader,     \* threads that call get_plan or search_plans
    Event,      \* events at the provider
    Search,     \* normalized parameters of searches
    NoRequest,  \* a reader or a webhook that is idle
    TTL,        \* life of a key: 300 s
    MaxFlight   \* longest time a request keeps what it has read

ASSUME CacheAssumption ==
    /\ TTL \in Nat \ {0}
    /\ MaxFlight \in Nat
    /\ NoRequest \notin Event
    /\ Event \intersect Search = {}

\* GET /events/{id}.json or GET /events.json with parameters: what
\* _cache_key hashes, without the apikey.
Request == Event \union Search

\* What an answer to a request may tell of; which events a search finds is
\* the provider's choice.
Answers(q) == IF q \in Event THEN {{q}} ELSE SUBSET Event

VARIABLES
    responses,  \* tm:search:* keys: at most one entry per request
    events,     \* tm:event:* keys: at most one entry per event
    readers,    \* the call each reader is in
    webhook     \* the webhook being handled

vars == <<responses, events, readers, webhook>>

\* outdated: events the provider has changed since it sent the answer (read
\* by no step of the code).  left = 0: the key does not exist.
NoKey == [about |-> {}, outdated |-> {}, age |-> 0, left |-> 0]
Cached(entry) == entry.left > 0

Idle == [pc |-> "idle", q |-> NoRequest, about |-> {}, outdated |-> {},
         age |-> 0, held |-> 0]

\* quiet: no reader has been in a call, and the event has not changed again,
\* since the webhook arrived.
NoWebhook == [event |-> NoRequest, keys |-> {}, scanned |-> FALSE,
              quiet |-> FALSE]

Init ==
    /\ responses = [q \in Request |-> NoKey]
    /\ events = [e \in Event |-> NoKey]
    /\ readers = [r \in Reader |-> Idle]
    /\ webhook = NoWebhook

-----------------------------------------------------------------------------
(* search_plans and get_plan *)

Goto(r, pc) == readers' = [readers EXCEPT ![r].pc = pc]
Return(r) == readers' = [readers EXCEPT ![r] = Idle]

\* get_plan looks for the event's own key first; a search does not.
Call(r, q) ==
    /\ readers[r] = Idle
    /\ readers' = [readers EXCEPT ![r] =
          [Idle EXCEPT !.q = q,
                       !.pc = IF q \in Event THEN "event_key" ELSE "response_key"]]
    /\ webhook' = [webhook EXCEPT !.quiet = FALSE]
    /\ UNCHANGED <<responses, events>>

GetCachedEvent(r) ==
    /\ readers[r].pc = "event_key"
    /\ IF Cached(events[readers[r].q]) THEN Return(r) ELSE Goto(r, "response_key")
    /\ UNCHANGED <<responses, events, webhook>>

\* mutant: a response that is read is cached again.
ReadAndRenew(r) ==
    LET c == readers[r]
        entry == responses[c.q]
    IN
    /\ c.pc = "response_key"
    /\ IF Cached(entry)
       THEN readers' = [readers EXCEPT ![r] =
               [c EXCEPT !.pc = "cache_response", !.about = entry.about,
                         !.outdated = entry.outdated, !.age = entry.age]]
       ELSE Goto(r, "fetch")
    /\ UNCHANGED <<responses, events, webhook>>

\* _make_request: a cached response is handed on like a new one.
GetCachedResponse(r) ==
    LET c == readers[r]
        entry == responses[c.q]
    IN
    /\ c.pc = "response_key"
    /\ IF Cached(entry)
       THEN readers' = [readers EXCEPT ![r] =
               [c EXCEPT !.pc = "cache_events", !.about = entry.about,
                         !.outdated = entry.outdated, !.age = entry.age]]
       ELSE Goto(r, "fetch")
    /\ UNCHANGED <<responses, events, webhook>>

Fetch(r, about) ==
    LET c == readers[r] IN
    /\ c.pc = "fetch"
    /\ about \in Answers(c.q)
    /\ readers' = [readers EXCEPT ![r] =
          [c EXCEPT !.pc = "cache_response", !.about = about]]
    /\ UNCHANGED <<responses, events, webhook>>

\* No answer: PlanNotFoundError is returned as None, the rest is raised.
FetchFails(r) ==
    /\ readers[r].pc = "fetch"
    /\ Return(r)
    /\ UNCHANGED <<responses, events, webhook>>

\* mutant: the time to live in milliseconds.
LongEntry(c, about) ==
    [about |-> about, outdated |-> c.outdated \intersect about,
     age |-> c.age, left |-> 1000 * TTL]

\* SETEX of what the reader holds, for the full time to live.
NewEntry(c, about) ==
    [about |-> about, outdated |-> c.outdated \intersect about,
     age |-> c.age, left |-> TTL]

CacheResponse(r) ==
    LET c == readers[r] IN
    /\ c.pc = "cache_response"
    /\ responses' = [responses EXCEPT ![c.q] = NewEntry(c, c.about)]
    /\ Goto(r, "cache_events")
    /\ UNCHANGED <<events, webhook>>

\* _cache_event for each event of the response, cached or new; then return.
CacheEvent(r, e) ==
    LET c == readers[r] IN
    /\ c.pc = "cache_events"
    /\ e \in c.about
    /\ events' = [events EXCEPT ![e] = NewEntry(c, {e})]
    /\ readers' = [readers EXCEPT ![r].about = @ \ {e}]
    /\ UNCHANGED <<responses, webhook>>

AllCached(r) ==
    /\ readers[r].pc = "cache_events"
    /\ readers[r].about = {}
    /\ Return(r)
    /\ UNCHANGED <<responses, events, webhook>>

\* Of the readers' calls.  A webhook whose own calls raise half way is not
\* modelled: it deletes less, and reports the error.
RedisRaises(r) ==
    /\ readers[r].pc \notin {"idle", "fetch"}
    /\ Return(r)
    /\ UNCHANGED <<responses, events, webhook>>

-----------------------------------------------------------------------------
(* handle_plan_updated_webhook *)

PlanUpdated(e) ==
    /\ webhook = NoWebhook
    /\ webhook' = [event |-> e, keys |-> {}, scanned |-> FALSE,
                   quiet |-> \A r \in Reader : readers[r] = Idle]
    /\ UNCHANGED <<responses, events, readers>>

CachedResponses == {q \in Request : Cached(responses[q])}

\* mutant: the scan starts from the wrong prefix and finds searches only.
ScanSearches ==
    /\ webhook.event # NoRequest /\ ~webhook.scanned
    /\ events' = [events EXCEPT ![webhook.event] = NoKey]
    /\ webhook' = [webhook EXCEPT !.scanned = TRUE,
                                  !.keys = CachedResponses \intersect Search]
    /\ UNCHANGED <<responses, readers>>

(* invalidate_event_cache, then the first SCAN.  A scan returns the keys    *)
(* that exist from its beginning to its end, and any of those set later.   *)
InvalidateEvent ==
    /\ webhook.event # NoRequest /\ ~webhook.scanned
    /\ events' = [events EXCEPT ![webhook.event] = NoKey]
    /\ webhook' = [webhook EXCEPT !.scanned = TRUE, !.keys = CachedResponses]
    /\ UNCHANGED <<responses, readers>>

DeleteResponse(q) ==
    /\ webhook.scanned
    /\ q \in webhook.keys \/ Cached(responses[q])
    /\ responses' = [responses EXCEPT ![q] = NoKey]
    /\ webhook' = [webhook EXCEPT !.keys = @ \ {q}]
    /\ UNCHANGED <<events, readers>>

ScanEnds ==
    /\ webhook.scanned /\ webhook.keys = {}
    /\ webhook' = NoWebhook
    /\ UNCHANGED <<responses, events, readers>>

-----------------------------------------------------------------------------
(* The environment *)

Outdate(x, e) == [x EXCEPT !.outdated = @ \union ({e} \intersect x.about)]

\* The provider changes an event: what was read of it before is outdated.
ProviderChanges(e) ==
    /\ responses' = [q \in Request |-> Outdate(responses[q], e)]
    /\ events' = [f \in Event |-> Outdate(events[f], e)]
    /\ readers' = [r \in Reader |-> Outdate(readers[r], e)]
    /\ webhook' = [webhook EXCEPT !.quiet = @ /\ webhook.event # e]

Holding == {"cache_response", "cache_events"}

Older(entry) ==
    IF entry.left > 1 THEN [entry EXCEPT !.age = @ + 1, !.left = @ - 1] ELSE NoKey

Tick ==
    /\ \A r \in Reader : readers[r].pc \in Holding => readers[r].held < MaxFlight
    /\ responses' = [q \in Request |-> Older(responses[q])]
    /\ events' = [e \in Event |-> Older(events[e])]
    /\ readers' = [r \in Reader |->
          IF readers[r].pc \in Holding
          THEN [readers[r] EXCEPT !.age = @ + 1, !.held = @ + 1]
          ELSE readers[r]]
    /\ webhook' = [webhook EXCEPT !.keys =
                      {q \in webhook.keys : Cached(responses'[q])}]

-----------------------------------------------------------------------------
Read(r) ==
    \/ GetCachedEvent(r) \/ GetCachedResponse(r)
    \/ \E about \in SUBSET Event : Fetch(r, about)
    \/ FetchFails(r) \/ CacheResponse(r)
    \/ \E e \in Event : CacheEvent(r, e)
    \/ AllCached(r) \/ RedisRaises(r)

HandleWebhook ==
    InvalidateEvent \/ (\E q \in Request : DeleteResponse(q)) \/ ScanEnds

Next ==
    \/ \E r \in Reader : Read(r) \/ \E q \in Request : Call(r, q)
    \/ \E e \in Event : PlanUpdated(e) \/ ProviderChanges(e)
    \/ HandleWebhook
    \/ Tick

Spec == Init /\ [][Next]_vars

-----------------------------------------------------------------------------
(* Properties *)

Entry == [about : SUBSET Event, outdated : SUBSET Event, age : Nat, left : 0..TTL]

Steps == {"idle", "event_key", "response_key", "fetch", "cache_response",
          "cache_events"}

\* Types: a key lives for at most its time to live, and a request keeps what
\* it has read for at most MaxFlight.
TypeOK ==
    /\ responses \in [Request -> Entry]
    /\ events \in [Event -> Entry]
    /\ readers \in [Reader ->
          [pc : Steps, q : Request \union {NoRequest}, about : SUBSET Event,
           outdated : SUBSET Event, age : Nat, held : 0..MaxFlight]]
    /\ \A r \in Reader : readers[r].pc = "event_key" => readers[r].q \in Event
    /\ \A r \in Reader : readers[r].pc # "idle" => readers[r].q \in Request
    /\ webhook \in [event : Event \union {NoRequest}, keys : SUBSET Request,
                    scanned : BOOLEAN, quiet : BOOLEAN]

\* A response is at most one time to live old, but search_plans and get_plan
\* put the events of a cached response in the event cache again, for a full
\* time to live (ticketmaster.py:169-173, 252-254, 270): what get_plan answers
\* from it may be twice that old, and never older, whatever readers, webhooks
\* and failures interleave.
Fresh(entry, limit) == Cached(entry) => entry.age + entry.left <= limit

StalenessBound ==
    /\ \A q \in Request : Fresh(responses[q], TTL + MaxFlight)
    /\ \A r \in Reader :
          LET c == readers[r] IN
          /\ c.pc = "cache_response" => c.age <= c.held
          /\ c.pc = "cache_events" => c.age < TTL + MaxFlight + c.held
    /\ \A e \in Event : Fresh(events[e], 2 * (TTL + MaxFlight) - 1)

\* A plan-update webhook that no call of a reader overlaps leaves nothing in
\* either cache that was read before the update: get_plan's own response lies
\* under the prefix of the searches and goes with them
\* (ticketmaster.py:226, 316-327).  A call that overlaps it may put the old
\* plan back.
WebhookClears ==
    [][webhook.quiet /\ webhook' = NoWebhook =>
          LET e == webhook.event IN
          /\ \A q \in Request : e \notin responses'[q].outdated
          /\ \A f \in Event : e \notin events'[f].outdated]_vars
=============================================================================
