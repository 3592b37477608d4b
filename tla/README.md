# Verification of ticket-genius

TLA+ models of ticket-genius (Flask, SQLAlchemy, Redis, the Ticketmaster and
payment adapters), the TLC runs that check them on small instances, and TLAPS
proofs for every instance. Paths below are relative to the repository's root.

## 1. The system

| Component | State it keeps | Operations | Hard behaviour |
|---|---|---|---|
| Order commands (`service_layer/handlers.py`, `fulfillment.py`) | none of their own; the aggregates loaded for one request | create, confirm-payment, cancel, refund | each is a chain of calls to Redis, the provider, Ticketmaster and the database; any of them can fail, and other requests run in between |
| Aggregates (`domain/models.py`, `events.py`) | status and version of an order and of its payment; events not yet collected | reserve_seats, initiate_payment, confirm_payment, fulfill, cancel, refund; authorize, capture, fail, refund | state machines that refuse illegal moves, on rows that may be stale |
| Payment simulator (`adapters/payment.py`) | payment intents, in the memory of one process | create and confirm an intent | a restart forgets them; another process never knew them; whoever knows an intent may confirm any order with it |
| Seat holds (`service_layer/seat_holds.py`, `ticketmaster.py:428`) | one Redis key per seat, 600 s | acquire all or none, release | check-then-delete, expiry at any moment |
| Confirmation key (`seat_holds.py:50`) | one Redis key per payment and idempotency key | check and set | set before the work it stands for |
| Unit of work and outbox (`adapters/unit_of_work.py`) | a session, and the list of domain events it has collected | `__exit__` (collect, write outbox rows, commit, or roll back), `flush_outbox` | failure between the steps; events that outlive a request; threads that share it |
| Ticketmaster commerce (`ticketmaster.py:329-401`) | one Redis key per offer and per acceptance | create_order, accept_offer | check-then-act on the key |
| Plan cache and webhook (`ticketmaster.py:139-327`) | `tm:search:*` and `tm:event:*` keys, 300 s | search_plans, get_plan, handle_plan_updated_webhook | a cache filled from another cache; a deletion that races a read |
| Ticketmaster client (`ticketmaster.py:29-219`) | token bucket, OAuth token and its expiry, in the memory of one process | consume, _get_access_token, three attempts | threads without locks, 429, 5xx and timeouts |
| Plan synchronisation (`handlers.py:205`) | the plans table | handle_sync_plans | a provider that changes between pages; a session that is never committed |
| Queries (`cursor.py`, `repositories_read.py`) | none | search, get, list with cursors | rows inserted while a client pages |
| Message bus, bootstrap, container | the one bus made at start | dispatch, health checks, shutdown | threads share one unit of work; shutdown commits whatever is open |
| API, schemas, CLI, mapping, configuration, observability, migrations, tasks | - | translation and tooling | amounts (CLI refund), replay of the outbox |

A request enters through `entrypoints/api.py`, becomes a command, is dispatched
by the message bus to one handler, and runs inside `with self._uow` (the
synchronisation does not). Handlers share the database and Redis with every
other process; within a process they share the unit of work (its session and
collected events), the payment adapter (its intents) and the Ticketmaster
adapter (its bucket and OAuth token).

What makes each component correct: an aggregate's stored status only moves
along its machine, and order and payment move together (lifecycle); no seat is
held or sold twice (holds); the provider is asked once per key and every charge
is recorded (confirmation); an order is paid with an intent the provider
accepts (payment); one Ticketmaster order per order (commerce); the
outbox tells exactly what was committed (unit of work); an answer from a cache
is not older than documented, and an update clears what it makes outdated (plan
cache); requests carry a live token, keep to a rate and end (client); a
finished synchronisation has everything the provider offers, once (sync); a
client sees each row once (paging).

`PROJECT.json` lists the hazards at their lines, with the property that covers
each one or the reason none does.

## 2. Modules

| Module | What it models |
|---|---|
| `Aggregates` | `Order` and `Payment` of `domain/models.py` as values: a guard `Can...` that is true when a method does not raise, and the value the method leaves |
| `OrderLifecycle` | the abstract specification: the joint state machine of an order and its payment, every request one atomic step |
| `OrderService` | the four handlers, run by several workers |
| `OrderProperties` | everything `OrderService` is checked for, and its refinement mapping to `OrderLifecycle` |
| `SharedSession` | the unit of work of one process, used by several threads and the shutdown handler |
| `PlanCache` | the two caches in Redis, readers that fill them and the webhook that empties them |
| `TicketmasterClient` | threads in consume, in the renewal of the OAuth token and in the attempts of a request |
| `RateMeter` | `TicketmasterClient` with a meter for the calls the bucket lets through |
| `PlanSync` | handle_sync_plans of several processes over a provider that changes |
| `Pagination` | a client that follows cursors while rows are inserted |
| `MCOrderService`, `MCPlanCache`, `MCPlanSync`, `MCPagination` | symmetry sets and small data for TLC |
| `...Proofs` | the proofs about the module they are named after; `TicketmasterClientProofs` also those about `RateMeter`; `OrderSafetyProofs` and `OrderHoldProofs` those about `OrderProperties` |

`OrderService` and the discovery modules share no state: orders read a plan only
to know that it exists, and discovery never reads orders. They are therefore
composed nowhere; `RateMeter` extends `TicketmasterClient`, and
`OrderService` is related to `OrderLifecycle` by refinement.

### OrderService

State: the three tables (`orders`, `payments`, `outbox`), the Redis keys
(`holds`, `confirmKeys`, `offers`, `accepts`), each worker's memory (`intents`,
`events`) and the request it serves (`req`: handler, next step, loaded
aggregates). `issued` keeps order ids unique; three history variables that no
action reads count provider confirmations and Ticketmaster orders, and remember
for which orders an intent within the limit was confirmed (`covered`).

An intent is known by the order it was created for; whether the provider
declines it depends on its own amount, so on that order (`OverLimit`). Nothing
ties it to the order it is used for: `handlers.py:141` passes on the id that the
client sends, and `payment.py:48` looks it up among all intents of its process.
`ConfirmIntent(w, p)` therefore confirms with the intent of any order `p` that
the worker knows. The client names it when it sends the request; the model
chooses it when it is used, which is the same, because a worker's intents do not
change while it serves a confirmation. That includes intents of orders that were
never stored.

A handler is cut where it leaves the process: each call to Redis is one step,
what follows in memory up to the next call belongs to it, and the commit is one
step. So a partial acquisition, its undo, GET and DEL of a release, GET and
SETEX of an offer can all be separated by other requests, an expiry, an
exception or a crash. Two database calls that read rows nobody else could
change in a way the handler notices are merged with the step before or after
(the plan read of create; payment and order of a refund are read in the
handler's order, as two steps).

| Handler | Steps |
|---|---|
| create | HandleCreateOrder, AcquireHold..., (UndoHold...), CreateIntent, Commit |
| confirm | HandleConfirmPayment, LoadPayment, CheckKey, ConfirmIntent, LoadPlan, CreateOffer, (SetOffer), AcceptOffer, (SetAccept), GetHold/DeleteHold..., FinishFulfillment, Commit |
| confirm, declined | ... ConfirmIntent, GetHold/DeleteHold..., RaiseDeclined |
| cancel | HandleCancelOrder, GetHold/DeleteHold..., CancelLoaded, Commit |
| refund | HandleRefundOrder, RefundLoaded, Commit |

Environment: `RedisRaises`, `DatabaseRaises`, `CommitRaises` (each under the
constant `MayRaise`), `Crash`, `ExpireHold`, and `AuthorizePayment`, the webhook
that `CONTEXT.md` describes and no code implements. It is a constant (`Webhook`)
because without it no payment can ever be captured; the runs switch it on to
check what lies behind.

`UPDATE` takes a row lock, as on PostgreSQL. A confirmation flushes its rows
when it reads the plan (`handlers.py:158`, autoflush) and holds the locks until
its transaction ends; `RowFree` makes other writers wait. Writing names only
the primary key, so a commit overwrites what was committed since the read.

### SharedSession

State: the committed orders and their OrderCancelled rows, and what one SQLAlchemy
session holds: the identity map, the objects threads have loaded, the outbox
rows added and not committed, and the list of events that the unit of work has
collected. Steps: `Load`, `CancelOrder` (after the holds are released),
`CollectAndWrite`, `Commit`, `Rollback`, `Close` of a cancellation,
`CheckDatabase` of the readiness probe, which passes through `__exit__` too,
and collect-and-commit of the shutdown handler, which does not close. A step ends
where a thread waits for Redis or the database. Confirmations are left out.

### PlanCache

State: at most one entry per `tm:search` and per `tm:event` key, the call of each
reader, and the webhook in progress. There is no clock: an entry has an age (time
since the provider sent it) and the time it has left. `GetCachedEvent`,
`GetCachedResponse`, `Fetch`, `CacheResponse` and `CacheEvent` are the reads and
writes of get_plan and search_plans in their order, each a step; a cached
response is handed on like a fresh one and its events are cached again.
`InvalidateEvent`, `DeleteResponse`, `ScanEnds` are the webhook with Redis' SCAN,
which may or may not return keys set while it runs. `outdated` remembers which
events have changed since; no step of the code reads it. `MaxFlight` bounds how
long a reader keeps what it has read, and is a parameter of the result.

### TicketmasterClient and RateMeter

State: bucket (tokens, time since the last refill), OAuth token (`good`: how long
the service will accept it; `trusted`: how long the code believes so), and the
call of each thread. `ReadClock`, `Refill`, `Take` are consume cut at its calls;
`GetToken`, `Grant`, `StoreToken`, `StoreExpiry` the renewal of the token;
`TooManyRequests`, `ServerError`, `Answer`, `Exceeded` the outcomes of an attempt.
`Tick` passes time and cannot pass while a thread has been kept in a step for
`MaxStall`. `RateMeter` adds a leaky bucket, `level`, that no step reads.

### PlanSync

State: the lists the provider has offered, the version of each cached page, the
plans table as committed, each process's session (its view, what it has added
and changed since the last flush, the rows its transaction has locked) and the
sync it runs. `SearchPlans` reads a page, cached or new; `Merge` is one event:
from_ticketmaster, get_by_tm_id with its autoflush, update or add. Nothing in
the loop commits, so other processes wait (`WaitsFor`) for the rows a session
has flushed, until its process ends (`Leave` of a process that is not
`Resident`) or restarts, or a statement fails. `DateRangeRaises`,
`ProviderRaises`, `DatabaseRaises`, `BreakDeadlock` and `PendingRollback` abort
it. `Change` lets the provider list other events at any time.

### Pagination

State: the rows, the client's cursor, and what it has been given. `FirstPage` and
`NextPage` are list_orders and search_plans, `ApplyCursorFilter`, `IsPage` and
`IsNextCursor` their filter, order and limit, and get_next_cursor. A row may be
committed late, with an older key than rows already listed, so `Insert` puts it
anywhere.

### What the models supply

As committed, no command gets past its first lines: the bus dispatches on
`self` (`messagebus.py:103-105`: `singledispatch` on a method), `SeatId` has no
`to_seat` (`handlers.py:90`), `Decimal` is not imported in `models.py`, the
route passes a dict as attendee (`api.py:169`), and the mapping of seats and
amounts does not configure (`orm.py:227-240`). Neither does a search:
`TicketmasterAdapter.search_plans` takes a SearchParams and binds the name to a
dict whose attributes it then reads (`ticketmaster.py:228-232`), the sync calls
it with the page and size of `PlanSearchPort` (`repositories.py:145-162`), and
nothing calls get_plan, the webhook handler or get_next_cursor. A model of that
would have no behaviour; the modules take those references as their callers and
signatures intend, and state nothing about them. Two faults that bite only
after a request has had effects are kept in `OrderService`, under the constant
`Faults`:

* `loaded_events`: an aggregate read from the database has no `_domain_events`
  (set in `__post_init__` only), so adding an event to it raises.
* `write_outbox`: `_serialize_event` reads `__dict__` of a slots dataclass and
  raises on the first event.

The runs check the design without them; the proofs hold with and without.

Further assumptions. Orders: plans exist and are not deleted; Redis is
configured; the 24 h keys do not expire; one request at a time per worker
(threads: `SharedSession`); uuid4 never repeats. A commit either stores
everything or raises, stores nothing and frees its row locks: nothing in
`__exit__` rolls back then, but SQLAlchemy rolls back a flush that fails and
PostgreSQL a COMMIT that does; a lost connection ends the transaction as well.
(The serializer of `write_outbox` also raises there, but then no order is ever
stored, and nobody holds or waits for its row.) `FULFILLED` is unreachable
because nothing calls `Order.fulfill`, and `PENDING` and `SEATS_RESERVED` are
never stored. SharedSession: SQLAlchemy does not refuse a second thread during a
commit (2.0 may raise IllegalStateChangeError; the atomic `Commit` leaves that
outcome out). PlanSync: a list has no event twice, Ticketmaster's limit on deep
paging is not reached, and a day passes only between syncs (`DayPasses`).

## 3. Properties that hold

| Run | Properties | Instance | What it shows |
|---|---|---|---|
| `lifecycle` | `TypeOK`, `PaidIsDelivered`, `ImplementsLifecycle`, `OnlyOwnerReleases` | 1 worker, 2 orders (the intent of one is over the limit), each confirmed with either intent, 2 keys, all failures and crashes, holds expiring at any time; 2.1 M states | requests cut anywhere by an exception, a crash or an expiry still look atomic in the database, and give back no hold of another order; nothing is stored as paid without an accepted intent, though not always its own, and its tickets |
| `retries` | `ConfirmOncePerKey`, `OutboxComplete`, `PaidIsDelivered` | 2 workers, 1 order, 2 keys, all failures and crashes, counters to 2; 0.27 M states | repeated, concurrent and failing confirmations ask the provider once per key; no stored order or cancellation lacks its event; nothing is stored as paid unless it was charged, ordered and accepted at Ticketmaster |
| `checkout` | `CheckoutHoldsSeats`, `PaymentMatchesOrder`, `TmOrderOnce`, `OnlyOwnerReleases` | 2 workers, 2 orders of up to 2 of 2 seats, 2 keys, any intent of the worker, no expiry, no failures, nothing declined; 2.6 M states up to symmetry | overlapping checkouts never share a seat and give back only their own; a stored order and its payment match under concurrent confirmations and refunds; two confirmations of an order, each with an intent of its own worker, make one Ticketmaster order |
| `contention` | `EveryRequestEnds` | 2 workers under `FairSpec`, 1 order, 2 keys, database failures, crashes; 0.45 M states | row locks never make requests wait for each other for ever |
| `cache` | `TypeOK`, `StalenessBound`, `WebhookClears` | 2 readers, 1 event, 1 search, TTL 3, `MaxFlight` 1, symmetry | how old an entry of each cache can be; a webhook that no call overlaps leaves nothing outdated behind |
| `client` | `TypeOK`, `TokenAlive`, `EveryCallEnds` | 2 threads under `FairSpec`, bucket of 2 tokens at 2 ticks, token of 4 ticks with buffer 3, stall 1, sleep 1 | threads that race in consume leave the bucket in bounds, no request carries an expired token, every call ends |
| `rate` | `CallsConform` | 1 thread, 3 tokens at 3 ticks, sleeps of 1 and 2 | one thread keeps to a burst and twice the documented rate |
| `sync` | `TypeOK`, `PlanOnce`, `SyncComplete`, `SyncEnds` | API and CLI under `FairSpec`, 4 events in 3 lists, pages of 2, one change; 0.23 M states | no plan is inserted twice however lists move; an undisturbed sync has everything; a sync of the API ends, or the CLI waits for what it has flushed |
| `sync_ends` | `SyncEnds` | two API processes under `FairSpec`, 3 events in 2 lists, one of them without an end, pages of 2, one change; 0.18 M states | syncs of two processes break their deadlocks and end, except one that is held up by the other's flushed rows |
| `paging` | `TypeOK`, `NoneMissed`, `NewestFirst`, `ListingEnds` | 6 keys of 3 instants, pages of 2, under `FairSpec` | a listing misses no row that was there, shows none twice, and ends while rows are inserted |

Several of these hold under a named condition, and the code does not satisfy
the property without it:

* `ImplementsLifecycle` is checked for one worker; with two, `lost_update` breaks
  it. Proved: any number of workers keep it as long as no two of them serve the
  same order at a time (`SeparateRequestsFollowLifecycle`).
* `OnlyOwnerReleases` is checked for one worker, and for two without
  cancellations, declined payments and expiry: otherwise a hold changes hands
  between the GET and the DEL of a release (`seat_holds.py:45-46`). Cancelling
  and declining release without a row lock, so two of them for one order may
  both have read the hold; the second DEL hits whoever took it after the first.
  A hold that expires while no request is at work for its order does no harm;
  that is proved only.
* `PaymentMatchesOrder` is checked without cancellations, for the same reason: a
  cancellation that races a confirmation leaves a cancelled order with a
  captured payment. Confirmations and refunds cannot break it among
  themselves: those that pass the status checks write the same statuses. Requests
  for different orders keep it with cancellations too (`SeparateRequestsMatch`).
* `CheckoutHoldsSeats` is checked while holds do not expire, without
  cancellations, which release the holds before they succeed, and without
  declined payments, which release those of an order that goes on waiting.
* `PaidIsDelivered` asks for an intent that the provider accepts, not for the
  order's own: section 5. In `lifecycle` the order over the limit does become
  paid with the other's intent, and never with its own.
* `TmOrderOnce` is checked, and proved, while Redis does not fail and no worker
  is killed. The check and the set of `tm:offer` are two steps
  (`ticketmaster.py:340-362`), and any number of workers get past the provider;
  what keeps the second one out of the gap is that the first has flushed the
  order's row (`handlers.py:158`), where the second waits until the transaction
  ends. A crash, or a SETEX that fails, ends it between the order and its key:
  the next confirmation makes a second order, although the docstring (line 334)
  promises the key prevents it.
* `StalenessBound` is 2(TTL + MaxFlight) for events, not the 300 s of
  `CONTEXT.md:32`: a response that is 299 s old renews its events for 300 s.
* `WebhookClears` asks that no reader is in a call: one that has read the old
  plan puts it back after the deletion.
* `CallsConform` is about one thread. What two racing threads get has no such
  bound: both may refill from the same clock, and each pays for one token only.
  Attempts after the first, and calls to OAuth, do not pass the bucket at all.
* `SyncComplete` is about syncs whose pages are all of the version the provider
  offers at the end (`steady`); others may miss an event that moved to a page
  already read, and a page may be five minutes old.
* `SyncEnds` excludes the syncs that are held up (`HeldUp`). What a sync of an
  API process has flushed stays locked when it is over, until that process ends
  or a statement of it fails; a sync of another process, the CLI or a second
  API process, that comes to one of these rows waits for it. There is no cycle,
  so PostgreSQL breaks nothing, and no timeout is set.

Bounds. Two workers, readers, threads or processes give every pairwise
interleaving; a third worker adds only a third concurrent write, to which the
unconditional UPDATE is indifferent, and the proofs cover any number. Two
orders and two seats are the least at which checkouts overlap partly and undo;
two keys the least for a retry with the same and with another key. `MaxCopies`
and `MaxCalls` cap counters, where properties ask about 0, 1 and more than 1,
and they are 1 where no property of the run asks how many. The two orders of
`lifecycle` differ in `OverLimit` and are not symmetric; those of `checkout`
are, and it declines nothing (`OverLimit = {}`). `contention` has one order, so
requests wait in one chain of row locks; a request never holds the rows of two
orders. In `cache`,
three ticks of life and one of flight let an entry be renewed just before it
ends, twice in a row. In `client` the token is renewed after one tick and both
threads can be in the renewal at once; `Buffer >= 3 * MaxStall` is the
condition the proof needs, and 300 s meets it for stalls up to 100 s. In
`rate`, three tokens at three ticks let a wait be counted again before the bucket
is full. In `sync`, `<<e1, e2>>` and `<<e2, e3, e1>>` move an event across the
page boundary, `e2` is in the table already and `e4` has no end date; in
`sync_ends` `e3` has none, which keeps the state space of two residents small. In
`paging`, two ids per instant make ties on the page boundary.

Order ids are finite, so a run of `OrderService` ends when no order is left to
place and every request fails; in `shared_session` the requests run out too.
These are configured without the deadlock check: the real system also does
nothing when no client calls. `cache`, `client`, `rate`, `sync`, `sync_ends` and
`paging` never stop, and deadlock is checked. Symmetry is used in runs without
liveness only.

Fairness. `OrderService!FairSpec` asks weak fairness of each worker's next step:
a worker that is serving a request goes on with it (Flask runs the handler to
its end, and a call to Redis, the database or Ticketmaster returns or raises).
`TicketmasterClient!FairSpec`: threads are scheduled, a request is answered or
times out (`httpx.Timeout(10.0, connect=30.0)`), and time passes.
`PlanSync!FairSpec`: the same for syncs, and strong fairness of `Merge`, since
PostgreSQL queues those that wait for a row. `Pagination!FairSpec`: the client
goes on while pages are full. No arrival, crash, expiry, change or failure is
ever assumed.

## 4. Where the code departs from its documents

Each is a run with the single property a document or comment states, violated
by what the code does; `PROJECT.json` quotes the lines.

| Run | Property | What happens |
|---|---|---|
| `lost_update` | `ImplementsLifecycle` | no version check on UPDATE: a later commit overwrites a row changed since it was read, and an order goes from PAID to CANCELLED or back |
| `shared_session` | `EventsWithData` | threads share one session: another thread's commit, or the shutdown handler's, stores a cancellation before its event is collected |

## 5. Further departures, without a run

Found while modelling; most are visible in one request and need no interleaving.

Orders, in the model:

* The intent of another order pays an order (`handlers.py:141`,
  `payment.py:48-59`): one over the limit is captured and stored as PAID with the
  intent of a cheap one, and one intent pays any number of orders.
  `payment.intent_id` is written and never read.
* With two workers a release deletes a hold that has changed hands since its
  GET (`seat_holds.py:45-46`; line 44 says it prevents that), whether the hold
  expired or another request for the order released it; so does the undo of a
  partial acquisition when a hold expires under it (`ticketmaster.py:447`).
* A crash, or a failure of Redis, between Ticketmaster's answer and the key that
  remembers it lets the next confirmation order again (`ticketmaster.py:347-362`).
* An order can be paid only at the worker that created it, or with another
  order's intent, and after a restart of it only with another's
  (`payment.py:24`).
* Nobody authorizes a payment, so capture raises after the provider has
  confirmed (`handlers.py:154`): without the constant `Webhook` no order is paid.
* The confirmation key is used up by a request that fails before it reaches the
  provider (`handlers.py:135`), and refuses the retry for 24 h.
* Events collected by a commit that fails are written by the next commit of the
  process, and those of a commit that succeeds are written again by every later
  one (`unit_of_work.py:76`): the list is never cleared.
* OrderConfirmed is added after the flush at `handlers.py:158` and never
  collected. This relies on SQLAlchemy's autoflush in `Session.get` and on
  `session.dirty` listing only objects with changed attributes.
* The outbox serializer raises on the first event (`write_outbox`): the order is
  lost, its seats are held for 600 s and its intent exists.
* A cancellation that fails has already released its holds (`handlers.py:180`).
* A declined payment is never stored as FAILED (`handlers.py:143-151`): the
  exception that reports it rolls it back.
* Nothing remembers that a seat is sold once its hold is gone
  (`fulfillment.py:54`); `CONTEXT.md:145` says the plan's version would.
* An order without seats raises after its payment intent was created
  (`handlers.py:69`); the intent stays good for other orders.

Ticketmaster, in the models:

* Answers from `tm:event` are up to twice as old as documented, and two threads
  exceed the documented rate (section 3).
* Seen as one of the client's outcomes (`Answer`): a 404 of OAuth becomes
  PlanNotFoundError and get_plan returns None; a 401 leaves the refused token
  cached until five minutes before its end; RetryableError and httpx.RequestError reach callers
  that expect ProviderError.
* update_plan_from_ticketmaster leaves date_range as it was: a rescheduled event
  keeps its dates (`UpdatePlan`).
* An event listed without an end aborts the sync of everything after it
  (`DateRangeRaises`).
* One failed statement leaves the plan session unusable until the process
  restarts (`PendingRollback`).
* handle_sync_plans uses `self._uow` without entering it: nothing commits the
  session, so the plans it counts as synced are dropped with the process
  (`handlers.py:210`; `CONTEXT.md:224` says that sync-plans updates them). No
  action of `PlanSync` writes `stored`.
* The rows it has flushed stay locked all the same, and hold up every other
  process that synchronises one of them (`HeldUp`).

Elsewhere, not modelled: `since` and `--full` of a sync are ignored; list_orders
ignores customer_email; the API answers `has_more` with no cursor; check_redis
and check_ticketmaster read an attribute that does not exist, so the readiness
probe always answers 503 and shutdown closes no Redis connection; purge-cache
without a pattern deletes holds and idempotency keys; create-refund multiplies
the amount by 100.

## 6. What is proved

TLAPS checks these theorems for every value of the constants, under the
assumptions named in the modules (null values are not members of their sets, bounds
are naturals).

| Theorem | Statement | Argument |
|---|---|---|
| `OrderLifecycleProofs!LifecycleConsistent` | order and payment of the abstract machine match | with its type invariant it is inductive; one step per action |
| `OrderServiceProofs!TypeCorrect` | `Spec => []TypeOK` | `TypeInv`: `TypeOK`, and that a request is at a step of its own handler with the fields that step needs |
| `OrderSafetyProofs!OneConfirmationPerKey` | `Spec => []ConfirmOncePerKey` | `KeyInv`: a worker about to ask the provider owns its key: the key is in Redis, no other worker is there with it, and it has not been used |
| `OrderSafetyProofs!OutboxTellsAll`, `PaidOrdersAreDelivered` | `Spec => []OutboxComplete`, `Spec => []PaidIsDelivered`: a paid order had an accepted intent, its own or another's, and its tickets | `StoryInv`: what each request has behind it at each of its steps (`Told`, `Backed`), and that no step takes back a charge, a Ticketmaster order or an acceptance (`Grows`) |
| `OrderSafetyProofs!UncancelledOrdersMatch` | without cancellations, `Spec => []PaymentMatchesOrder` | `MatchInv`: two aggregates that will be written together match, so the rows match whichever commit is the later one |
| `OrderSafetyProofs!OneTicketmasterOrder` | while Redis does not fail and no worker is killed, `Spec => []TmOrderOnce`, for confirmations with any intents | `LockInv`: at most one worker has flushed an order's rows (`Flushed`), which only `LoadPlan` does; `OnceInv`: an order made at Ticketmaster is remembered by `tm:offer`, or made by the one worker that has flushed its rows and is about to set the key |
| `OrderSafetyProofs!SeparateRequestsFollowLifecycle` | `Spec /\ []OneRequestPerOrder => ImplementsLifecycle`: while no two workers serve the same order; `SoleWorkerFollowsLifecycle` is the case of one worker | `LifeInv`: what a request has read is still what the database stores (`Current`); see below |
| `OrderSafetyProofs!SeparateRequestsMatch` | `Spec /\ []OneRequestPerOrder => []PaymentMatchesOrder`, cancellations included | `LifecycleConsistent`, carried over by the refinement |
| `OrderHoldProofs!SoleWorkerReleasesOwn` | with one worker (`SoleWorker`), `Spec => OnlyOwnerReleases` | `ClearInv`: no seat a request has taken or looked at is held for another order; nobody else could take it |
| `OrderHoldProofs!OrderlyRequestsReleaseOwn` | when nobody cancels, nothing is declined and no hold expires under a request for its order (`Orderly`), `Spec => OnlyOwnerReleases` | `OwnInv`: a hold is given back by the request that took it while its order is not stored, or by the one confirmation that has flushed the order's row (`LockInv`) |
| `OrderHoldProofs!CheckoutsShareNoSeat` | when no hold expires, nothing fails, nothing is declined and nobody cancels (`Calm`), `Spec => []CheckoutHoldsSeats` | `SeatsInv`: `OwnInv`, and that an order that waits for its payment holds its seats until that confirmation gives them back |
| `PlanCacheProofs!CacheTypeCorrect`, `BoundedStaleness` | `Spec => []TypeOK`, `Spec => []StalenessBound` | the age an entry will have when it ends (`age + left`) does not grow with time; a request holds nothing old before it has read something (`NothingOld`) |
| `PlanCacheProofs!QuietWebhookClears` | `Spec => WebhookClears` | `ClearInv`: an outdated answer is under a key that exists and tells of the event; while no call overlaps the webhook, the only such keys are those its scan is about to delete |
| `TicketmasterClientProofs!ClientTypeCorrect`, `NoExpiredToken` | `Spec => []TypeOK`, `Spec => []TokenAlive` (with `Buffer >= 3 * MaxStall`, an assumption of the module) | `IInv` follows the token from its grant to the request: each step costs it at most one stall, and the expiry the code remembers is at most two stalls later than the real one |
| `TicketmasterClientProofs!OneThreadConforms` | with one thread, `MeteredSpec => []CallsConform` | what a call adds to the meter it takes out of the bucket, so their sum stays bounded; a caller that waits is the exception, and the reason for the factor two |
| `PlanSyncProofs!NoPlanTwice` | `Spec => []PlanOnce` | a session holds back at most one insert, of an event the query before it did not find: `get_by_tm_id` flushes it before it looks for the next event |
| `PlanSyncProofs!SyncMergesAll`, `SyncTypeCorrect` | `Spec => []SyncComplete`, `Spec => []TypeOK` | `SyncInv`: a sync has merged the events before its place, page times `Size` plus the events of the page (`Handled`); a full page ends where the next begins and a short one where the list does (`PageShape`); a session shows every row that `get_by_tm_id` would find, so an update meets a plan |
| `PaginationProofs!ListingTypeCorrect`, `ListingMissesNone`, `ListingIsOrdered` | `Spec => []TypeOK`, `Spec => []NoneMissed`, `Spec => []NewestFirst` | the cursor divides the rows: those that were there and are not listed yet are older than it, those listed are not (`Divided`); `TypeOK` is part of the invariant |

`OrderSafetyProofs` first states what each kind of step makes of the request it
serves (`ArriveShape`, `AskShape`, `HoldsShape`, `ConfirmIntentShape`,
`FulfillShape`, `ReadyShape`), whatever the invariant; the invariants are then
preserved by cases over these shapes. The order theorems hold for any number of
workers, orders, seats and keys, and for every setting of `Faults`, `MayRaise`,
`Crashes`, `HoldExpiry` and `Webhook` that the statement does not exclude.

The refinement. `OrderLifecycle` knows the statuses of an order and of its
payment, and its requests are atomic; the mapping reads the two tables. A step
of `OrderService` either leaves the statuses alone, which is a stutter, or is
the webhook's authorization (`AuthorizationSimulates`) or a commit
(`CommitSimulates`). A commit writes the aggregates its handler has loaded and
changed some steps before, so it is a step of the abstract machine only if the
rows are as they were then. That is `Current`; it is an invariant while no two
workers serve the same order (`OneRequestPerOrder`), because a commit writes the
rows of one order only (`OthersCurrent`). Nothing in the code ensures that: a
lock on the order's row would, a version check in the UPDATE would serve as
well, and `lost_update` shows what happens without them. The one
change between a read and the commit that nobody excludes, an authorization,
does no harm, because no guard of a handler asks for a payment that is *not*
authorized. Failures, crashes and expiries need no case of their own: they
commit nothing.

Assumptions on the constants are in the modules; those that say more than that
null values are new and bounds are naturals are `Buffer >= 3 * MaxStall`,
`Life > Buffer` and `Capacity > 1` (`TicketmasterClient`), and that one of the
lists a provider may offer is the longest (`PlanSync`), without which there
would be no bound on the pages to cache. `OneRequestPerOrder`, `SoleWorker`,
`Orderly` and `Calm` are hypotheses of the theorems that name them, and runs
instantiate each: `lifecycle` has one worker, and so one request per order;
`checkout` is `Calm` and with it `Orderly`.

Every invariant and action property that a run finds to hold is a theorem;
those that need a condition are proved under it. Only model-checked: the runs of
section 4, and liveness (`EveryRequestEnds`, `EveryCallEnds`, `SyncEnds`,
`ListingEnds`), which needs `ENABLED` of the fair actions, and the prover does
not handle that.

## 7. Not modelled

* Routes and schemas (`api.py`, `schemas.py`): validation and the mapping of
  exceptions to status codes keep no state. The routes are the arrivals of
  `OrderService` and `PlanSync`.
* `Money`, the other value objects and the columns of `orm.py`: arithmetic on
  amounts and strings without steps; a refund is full or partial, a payment
  within the limit or over it. `DateRange` appears where it aborts a sync.
* What offer and ticket identifiers look like (`ticketmaster.py:347-390`).
* Confirmations in `SharedSession`: threads of one process are modelled for
  cancellations, the handler whose event the session does collect.
* `replay-outbox`, `purge-cache`, `toggle-flag` and `show-order` of the CLI, and
  `create-refund` beyond the handler it runs: one process, one pass, run by
  hand. Nothing marks an outbox row as published, so a replay has no state.
* Health checks of Redis and Ticketmaster: they read an attribute that does not
  exist and answer False.
* Configuration, logging, metrics, tracing: read once or write-only. Migrations
  and tasks: the schema and tooling; the unique keys they define are used by
  `OrderService` and `PlanSync`.
* Methods without a caller: `commit`, `rollback` and `close` of the unit of work,
  the update methods of the repositories, `invalidate_all_event_cache`.

## 8. What could come next

1. Confirmations in `SharedSession`, whose autoflush and row locks two threads
   would share.
2. `OrderService` with threads that share the intents of their process.
3. Amounts: `Money`, refunds of part of an amount, and the CLI's conversion.
4. A bound, and its proof, for what several racing threads get from the bucket.
