---------------------------- MODULE OrderService ----------------------------
(***************************************************************************)
(* The order commands of service_layer/handlers.py run by several worker   *)
(* processes against one database and one Redis.  A worker serves one      *)
(* request at a time; a request is the sequence of its calls that leave    *)
(* the process (Redis, the payment provider, the database), one action per *)
(* call, so that requests of different workers, expiring keys, failures    *)
(* and crashes fall between them.                                          *)
(*                                                                         *)
(* A request that raises before it has changed anything is a stuttering    *)
(* step: the guards of the Handle... actions are the conditions under      *)
(* which a handler gets past those checks.                                 *)
(***************************************************************************)
EXTENDS Aggregates, FiniteSets

CONSTANTS
    Worker,      \* processes, each with its own UnitOfWork and payment adapter
    Order,       \* order ids uuid4 may draw
    OverLimit,   \* the orders whose total, so whose intent, is over EUR 100
    Seat,        \* seats of the plan on sale: one Redis hold key each
    Key,         \* idempotency keys clients send with confirm-payment
    NoOrder,     \* a hold key that does not exist
    NoKey,       \* a request that carries no idempotency key
    MaxQuantity, \* most seats of one order
    MaxCopies,   \* bound of the counters of outbox rows and collected events
    MaxCalls,    \* bound of the counters of calls to the two providers
    Requests,    \* the endpoints clients use
    Faults,      \* which known faults of the code are present
    MayRaise,    \* the services whose calls may fail
    Crashes,     \* whether a worker may be killed
    HoldExpiry,  \* when the 600 s of a seat hold may run out
    Webhook      \* whether something calls Payment.authorize

ASSUME OrderAssumption ==
    /\ NoOrder \notin Order
    /\ OverLimit \subseteq Order
ASSUME KeyAssumption == NoKey \notin Key
ASSUME BoundAssumption ==
    /\ MaxQuantity \in 1..8
    /\ MaxCopies \in Nat \ {0} /\ MaxCalls \in Nat \ {0}
ASSUME SwitchAssumption ==
    /\ Requests \subseteq {"create", "confirm", "cancel", "refund"}
    /\ Faults \subseteq {"loaded_events", "write_outbox"}
    /\ MayRaise \subseteq {"redis", "db"}
    /\ Crashes \in BOOLEAN
    /\ HoldExpiry \in {"never", "between_requests", "any_time"}
    /\ Webhook \in BOOLEAN

\* seat_ids of a request: in the order the client lists them, repeats allowed.
SeatLists == UNION {[1..n -> Seat] : n \in 0..MaxQuantity}

Event == {"OrderCreated", "OrderConfirmed", "OrderCancelled"} \X Order

VARIABLES
    \* the database
    orders,       \* orders table
    payments,     \* payments table; one row per order (uq_payment_order)
    outbox,       \* outbox table: how many rows each event has
    \* Redis
    holds,        \* SEAT_HOLD:{plan}:{seat} -> order id
    confirmKeys,  \* payment_confirm:{payment}:{key}
    offers,       \* tm:offer:order_{order}
    accepts,      \* tm:accept:accept_{order}
    \* each worker's memory
    intents,      \* PaymentSimulatorAdapter._intents: the orders they are for
    events,       \* UnitOfWork._domain_events, never cleared
    req,          \* the request being served
    \* history, read by no handler
    issued,       \* order ids drawn so far: uuid4 does not repeat
    confirmed,    \* provider confirmations per order and idempotency key
    covered,      \* orders for which an intent within the limit was confirmed
    tmOrders      \* Ticketmaster orders made per order

database == <<orders, payments, outbox>>
redis    == <<holds, confirmKeys, offers, accepts>>
memory   == <<intents, events>>
history  == <<issued, confirmed, covered, tmOrders>>
vars     == <<database, redis, memory, req, history>>

-----------------------------------------------------------------------------
(* Requests *)

\* op: the handler, "decline" once confirm_payment is on its declined path.
Idle == [op |-> "none", pc |-> "idle", o |-> NoOrder, seats |-> <<>>, i |-> 1,
         key |-> NoKey, order |-> NoOrderRow, payment |-> NoPaymentRow]

AtStep(w, op, pc) == req[w].op = op /\ req[w].pc = pc

Goto(w, pc) == req' = [req EXCEPT ![w] = [req[w] EXCEPT !.pc = pc]]

NextSeat(w) == req' = [req EXCEPT ![w] = [req[w] EXCEPT !.i = req[w].i + 1]]

\* The order row is the first thing a handler reads.
LoadOrder(w, o, op, pc, k) ==
    req' = [req EXCEPT ![w] =
               [Idle EXCEPT !.op = op, !.pc = pc, !.o = o, !.key = k,
                            !.order = orders[o], !.seats = orders[o].seats]]

Finish(w) == req' = [req EXCEPT ![w] = Idle]

CountUp(n) == IF n < MaxCopies THEN n + 1 ELSE n
CountCall(n) == IF n < MaxCalls THEN n + 1 ELSE n

(* A confirmation writes its rows when the plan is read (autoflush) and    *)
(* keeps the row locks until its transaction ends.                         *)
AfterFlush == {"offer", "offer_set", "accept", "accept_set", "release",
               "release_del", "commit"}
Flushed(w, o) ==
    req[w].op = "confirm" /\ req[w].pc \in AfterFlush /\ req[w].o = o
RowFreeOfAll(w, o) == \A v \in Worker : ~Flushed(v, o) \* mutant: waits for itself
RowNeverLocked(w, o) == TRUE            \* mutant: no flush before fulfill
RowFree(w, o) == \A v \in Worker \ {w} : ~Flushed(v, o)

\* What SET NX and GET say of a hold key.
TakenOrNot(s) == TRUE                   \* mutant: SET without NX
HoldFree(s) == holds[s] = NoOrder

AlwaysOwns(s, o) == TRUE               \* mutant: DEL without looking
OwnsHold(s, o) == holds[s] = o

KeyNeverUsed(o, k) == FALSE             \* mutant: SET without NX
KeyUsed(o, k) == <<o, k>> \in confirmKeys

OfferCached(o) == o \in offers

(* The provider looks at the amount of the intent it is given, whichever   *)
(* order that intent was created for.                                      *)
AlwaysAccepted(p) == FALSE              \* mutant: intent.status not looked at
Declined(p) == p \in OverLimit

-----------------------------------------------------------------------------
Init ==
    /\ orders = [o \in Order |-> NoOrderRow]
    /\ payments = [o \in Order |-> NoPaymentRow]
    /\ outbox = [e \in Event |-> 0]
    /\ holds = [s \in Seat |-> NoOrder]
    /\ confirmKeys = {}
    /\ offers = {}
    /\ accepts = {}
    /\ intents = [w \in Worker |-> {}]
    /\ events = [w \in Worker |-> [e \in Event |-> 0]]
    /\ req = [w \in Worker |-> Idle]
    /\ issued = {}
    /\ confirmed = [o \in Order |-> [k \in Key |-> 0]]
    /\ covered = {}
    /\ tmOrders = [o \in Order |-> 0]

-----------------------------------------------------------------------------
(* handle_create_order *)

HandleCreateOrder(w, o, seats) ==
    /\ req[w] = Idle
    /\ "create" \in Requests
    /\ o \notin issued
    /\ issued' = issued \union {o}
    /\ req' = [req EXCEPT ![w] =
                  [Idle EXCEPT !.op = "create", !.pc = "hold", !.o = o,
                               !.seats = seats, !.order = NewOrder]]
    /\ UNCHANGED <<database, redis, memory, confirmed, covered, tmOrders>>

\* SET NX EX of the next seat; when it is taken, give back those acquired.
AcquireHold(w) ==
    LET r == req[w] IN
    /\ AtStep(w, "create", "hold")
    /\ r.i <= Len(r.seats)
    /\ IF HoldFree(r.seats[r.i])
       THEN /\ holds' = [holds EXCEPT ![r.seats[r.i]] = r.o]
            /\ NextSeat(w)
       ELSE /\ req' = [req EXCEPT ![w] =
                          [r EXCEPT !.pc = "undo", !.i = 1,
                                    !.seats = SubSeq(r.seats, 1, r.i - 1)]]
            /\ UNCHANGED holds
    /\ UNCHANGED <<database, confirmKeys, offers, accepts, memory, history>>

\* An unconditional DEL; after the last one InsufficientInventoryError.
UndoHold(w) ==
    LET r == req[w] IN
    /\ AtStep(w, "create", "undo")
    /\ IF r.i <= Len(r.seats)
       THEN /\ holds' = [holds EXCEPT ![r.seats[r.i]] = NoOrder]
            /\ NextSeat(w)
       ELSE /\ Finish(w)
            /\ UNCHANGED holds
    /\ UNCHANGED <<database, confirmKeys, offers, accepts, memory, history>>

(* All seats are held.  The intent is created before initiate_payment is   *)
(* tried, which raises for an order without seats: it is still PENDING.    *)
CreateIntent(w) ==
    LET r == req[w]
        order == IF r.seats = <<>> THEN r.order
                 ELSE ReserveSeats(r.order, r.seats)
    IN
    /\ AtStep(w, "create", "hold")
    /\ r.i > Len(r.seats)
    /\ intents' = [intents EXCEPT ![w] = @ \union {r.o}]
    /\ IF CanInitiatePayment(order)
       THEN req' = [req EXCEPT ![w] =
                       [r EXCEPT !.pc = "commit", !.i = 1,
                                 !.order = InitiatePayment(order),
                                 !.payment = NewPayment]]
       ELSE Finish(w)
    /\ UNCHANGED <<database, redis, events, history>>

-----------------------------------------------------------------------------
(* handle_confirm_payment *)

HandleConfirmPayment(w, o, k) ==
    /\ req[w] = Idle
    /\ "confirm" \in Requests
    /\ Stored(orders[o])
    /\ LoadOrder(w, o, "confirm", "load_payment", k)
    /\ UNCHANGED <<database, redis, memory, history>>

LoadPayment(w) ==
    LET r == req[w] IN
    /\ AtStep(w, "confirm", "load_payment")
    /\ IF Stored(payments[r.o])
       THEN req' = [req EXCEPT ![w] =
                       [r EXCEPT !.pc = "key", !.payment = payments[r.o]]]
       ELSE Finish(w)
    /\ UNCHANGED <<database, redis, memory, history>>

\* check_payment_idempotency: SET NX; IdempotencyKeyUsedError if it exists.
CheckKey(w) ==
    LET r == req[w] IN
    /\ AtStep(w, "confirm", "key")
    /\ IF KeyUsed(r.o, r.key)
       THEN Finish(w) /\ UNCHANGED confirmKeys
       ELSE Goto(w, "provider")
            /\ confirmKeys' = confirmKeys \union {<<r.o, r.key>>}
    /\ UNCHANGED <<database, holds, offers, accepts, memory, history>>

(* The client names the intent: that of order p.  The provider knows those *)
(* this worker has created, and nothing compares the one it confirms with  *)
(* the order or its payment.  A declined payment is failed and the holds   *)
(* are released before the handler raises; an accepted one is captured and *)
(* the order confirmed, in memory.                                         *)
ConfirmIntent(w, p) ==
    LET r == req[w]
        declined == Declined(p)
    IN
    /\ AtStep(w, "confirm", "provider")
    /\ IF p \notin intents[w]
       THEN Finish(w) /\ UNCHANGED <<confirmed, covered>>
       ELSE /\ confirmed' = [confirmed EXCEPT ![r.o][r.key] = CountCall(@)]
            /\ covered' = IF p \in OverLimit THEN covered ELSE covered \union {r.o}
            /\ \/ /\ declined /\ CanFail(r.payment)
                  /\ req' = [req EXCEPT ![w] =
                        [r EXCEPT !.op = "decline", !.pc = "release",
                                  !.key = NoKey]]
               \/ /\ ~declined /\ CanCapture(r.payment)
                  /\ CanConfirmPayment(r.order)
                  /\ req' = [req EXCEPT ![w] =
                        [r EXCEPT !.pc = "plan", !.key = NoKey,
                                  !.order = ConfirmPayment(r.order),
                                  !.payment = Capture(r.payment)]]
               \/ /\ declined => ~CanFail(r.payment)
                  /\ ~declined => ~(/\ CanCapture(r.payment)
                                    /\ CanConfirmPayment(r.order))
                  /\ Finish(w)
    /\ UNCHANGED <<database, redis, memory, issued, tmOrders>>

\* Reading the plan autoflushes the two changed rows: UPDATEs that wait for
\* the row locks of other transactions.
LoadPlan(w) ==
    /\ AtStep(w, "confirm", "plan")
    /\ RowFree(w, req[w].o)
    /\ Goto(w, "offer")
    /\ UNCHANGED <<database, redis, memory, history>>

\* mutant: the new order's idempotency key is not stored.
CreateOfferUnsaved(w) ==
    LET o == req[w].o IN
    /\ AtStep(w, "confirm", "offer")
    /\ Goto(w, "accept")
    /\ tmOrders' = [tmOrders EXCEPT ![o] = IF OfferCached(o) THEN @ ELSE CountCall(@)]
    /\ UNCHANGED <<database, redis, memory, issued, confirmed, covered>>

\* Ticketmaster's create_order: a hit on the cached offer, or a new order.
CreateOffer(w) ==
    LET o == req[w].o IN
    /\ AtStep(w, "confirm", "offer")
    /\ IF OfferCached(o)
       THEN Goto(w, "accept") /\ UNCHANGED tmOrders
       ELSE Goto(w, "offer_set")
            /\ tmOrders' = [tmOrders EXCEPT ![o] = CountCall(@)]
    /\ UNCHANGED <<database, redis, memory, issued, confirmed, covered>>

SetOffer(w) ==
    /\ AtStep(w, "confirm", "offer_set")
    /\ offers' = offers \union {req[w].o}
    /\ Goto(w, "accept")
    /\ UNCHANGED <<database, holds, confirmKeys, accepts, memory, history>>

\* accept_offer: the same check-then-set on its own key.
AcceptOffer(w) ==
    /\ AtStep(w, "confirm", "accept")
    /\ Goto(w, IF req[w].o \in accepts THEN "release" ELSE "accept_set")
    /\ UNCHANGED <<database, redis, memory, history>>

SetAccept(w) ==
    /\ AtStep(w, "confirm", "accept_set")
    /\ accepts' = accepts \union {req[w].o}
    /\ Goto(w, "release")
    /\ UNCHANGED <<database, holds, confirmKeys, offers, memory, history>>

-----------------------------------------------------------------------------
(* release_seat_holds, of a confirmed, a declined and a cancelled order:   *)
(* GET the next key and, when it names this order, DEL it.                 *)

GetHold(w) ==
    LET r == req[w] IN
    /\ r.pc = "release"
    /\ r.i <= Len(r.seats)
    /\ IF OwnsHold(r.seats[r.i], r.o) THEN Goto(w, "release_del")
                                      ELSE NextSeat(w)
    /\ UNCHANGED <<database, redis, memory, history>>

DeleteHold(w) ==
    LET r == req[w] IN
    /\ r.pc = "release_del"
    /\ holds' = [holds EXCEPT ![r.seats[r.i]] = NoOrder]
    /\ req' = [req EXCEPT ![w] = [r EXCEPT !.pc = "release", !.i = r.i + 1]]
    /\ UNCHANGED <<database, confirmKeys, offers, accepts, memory, history>>

AllReleased(w, op) == AtStep(w, op, "release") /\ req[w].i > Len(req[w].seats)

\* PaymentDeclinedError: the transaction, payment.fail included, is undone.
RaiseDeclined(w) ==
    /\ AllReleased(w, "decline")
    /\ Finish(w)
    /\ UNCHANGED <<database, redis, memory, history>>

\* The end of fulfill: OrderConfirmed is added to the loaded order.
FinishFulfillment(w) ==
    /\ AllReleased(w, "confirm")
    /\ IF "loaded_events" \in Faults
       THEN Finish(w)
       ELSE req' = [req EXCEPT ![w] = [req[w] EXCEPT !.pc = "commit", !.i = 1]]
    /\ UNCHANGED <<database, redis, memory, history>>

-----------------------------------------------------------------------------
(* handle_cancel_order and handle_refund_order *)

HandleCancelOrder(w, o) ==
    /\ req[w] = Idle
    /\ "cancel" \in Requests
    /\ Stored(orders[o])
    /\ LoadOrder(w, o, "cancel", "release", NoKey)
    /\ UNCHANGED <<database, redis, memory, history>>

\* order.cancel, on the row read before the holds were released.
CancelLoaded(w) ==
    LET r == req[w] IN
    /\ AllReleased(w, "cancel")
    /\ IF CanCancel(r.order) /\ "loaded_events" \notin Faults
       THEN req' = [req EXCEPT ![w] = [r EXCEPT !.pc = "commit", !.i = 1,
                                                !.order = Cancel(r.order)]]
       ELSE Finish(w)
    /\ UNCHANGED <<database, redis, memory, history>>

HandleRefundOrder(w, o) ==
    /\ req[w] = Idle
    /\ "refund" \in Requests
    /\ Stored(orders[o])
    /\ LoadOrder(w, o, "refund", "load_payment", NoKey)
    /\ UNCHANGED <<database, redis, memory, history>>

\* The payment is read and both aggregates are refunded; full or partial.
RefundLoaded(w, full) ==
    LET r == req[w] IN
    /\ AtStep(w, "refund", "load_payment")
    /\ IF CanRefundPayment(payments[r.o]) /\ CanRefundOrder(r.order)
       THEN req' = [req EXCEPT ![w] =
               [r EXCEPT !.pc = "commit", !.order = RefundOrder(r.order),
                         !.payment = RefundPayment(payments[r.o], full)]]
       ELSE Finish(w)
    /\ UNCHANGED <<database, redis, memory, history>>

-----------------------------------------------------------------------------
(* UnitOfWork.__exit__ without an exception *)

(* _collect_domain_events looks at new and changed aggregates only.  The   *)
(* order of a confirmation is neither: LoadPlan flushed it, and adding     *)
(* OrderConfirmed changes no column.                                       *)
CollectNewOnly(r) ==                    \* mutant: session.dirty is not visited
    IF r.op = "create" THEN {<<"OrderCreated", r.o>>} ELSE {}
CollectDomainEvents(r) ==
    CASE r.op = "create" -> {<<"OrderCreated", r.o>>}
      [] r.op = "cancel" -> {<<"OrderCancelled", r.o>>}
      [] OTHER           -> {}

Collected(w) ==
    [e \in Event |-> IF e \in CollectDomainEvents(req[w])
                     THEN CountUp(events[w][e]) ELSE events[w][e]]

\* _write_outbox_events raises on the first event it serializes.
WriteRaises(w) ==
    "write_outbox" \in Faults /\ \E e \in Event : Collected(w)[e] > 0

WriteOutboxEvents(w) ==
    [e \in Event |-> IF outbox[e] + Collected(w)[e] <= MaxCopies
                     THEN outbox[e] + Collected(w)[e] ELSE MaxCopies]

PaymentForgotten(r) == r.op \in {"create", "confirm"} \* mutant: not on refund
WritesPayment(r) == r.op # "cancel"

(* The rows are written by primary key alone: no WHERE version = ...       *)
(* Cancelling leaves the payment's row alone.                              *)
Commit(w) ==
    LET r == req[w] IN
    /\ r.pc = "commit"
    /\ RowFree(w, r.o)
    /\ ~WriteRaises(w)
    /\ orders' = [orders EXCEPT ![r.o] = r.order]
    /\ payments' = IF WritesPayment(r)
                   THEN [payments EXCEPT ![r.o] = r.payment] ELSE payments
    /\ outbox' = WriteOutboxEvents(w)
    /\ events' = [events EXCEPT ![w] = Collected(w)]
    /\ Finish(w)
    /\ UNCHANGED <<redis, intents, history>>

\* Nothing is stored; the collected events stay in the unit of work.  Nobody
\* rolls back, but the rows are free: SQLAlchemy rolls back a flush that fails,
\* PostgreSQL a COMMIT that does.
CommitRaises(w) ==
    /\ req[w].pc = "commit"
    /\ "db" \in MayRaise \/ WriteRaises(w)
    /\ events' = [events EXCEPT ![w] = Collected(w)]
    /\ Finish(w)
    /\ UNCHANGED <<database, redis, intents, history>>

-----------------------------------------------------------------------------
(* The environment *)

RedisSteps == {"hold", "undo", "key", "offer", "offer_set", "accept",
               "accept_set", "release", "release_del"}

RedisRaises(w) ==
    /\ "redis" \in MayRaise
    /\ req[w].pc \in RedisSteps
    /\ req[w].pc \in {"hold", "undo", "release"} => req[w].i <= Len(req[w].seats)
    /\ Finish(w)
    /\ UNCHANGED <<database, redis, memory, history>>

DatabaseRaises(w) ==
    /\ "db" \in MayRaise
    /\ req[w].pc \in {"load_payment", "plan"}
    /\ Finish(w)
    /\ UNCHANGED <<database, redis, memory, history>>

\* A killed worker comes back with nothing in memory.
Crash(w) ==
    /\ Crashes
    /\ Finish(w)
    /\ intents' = [intents EXCEPT ![w] = {}]
    /\ events' = [events EXCEPT ![w] = [e \in Event |-> 0]]
    /\ UNCHANGED <<database, redis, history>>

ExpireHold(s) ==
    /\ holds[s] # NoOrder
    /\ \/ HoldExpiry = "any_time"
       \/ /\ HoldExpiry = "between_requests"
          /\ \A w \in Worker : req[w].o # holds[s]
    /\ holds' = [holds EXCEPT ![s] = NoOrder]
    /\ UNCHANGED <<database, confirmKeys, offers, accepts, memory, req, history>>

\* Nothing in the repository calls Payment.authorize: a webhook would.
AuthorizePayment(o) ==
    /\ Webhook
    /\ CanAuthorize(payments[o])
    /\ \A w \in Worker : ~Flushed(w, o)
    /\ payments' = [payments EXCEPT ![o] = Authorize(@)]
    /\ UNCHANGED <<orders, outbox, redis, memory, req, history>>

-----------------------------------------------------------------------------
Arrive(w) ==
    \E o \in Order :
        \/ \E seats \in SeatLists : HandleCreateOrder(w, o, seats)
        \/ \E k \in Key : HandleConfirmPayment(w, o, k)
        \/ HandleCancelOrder(w, o)
        \/ HandleRefundOrder(w, o)

Serve(w) ==
    \/ AcquireHold(w) \/ UndoHold(w) \/ CreateIntent(w)
    \/ LoadPayment(w) \/ CheckKey(w) \/ LoadPlan(w)
    \/ \E p \in Order : ConfirmIntent(w, p)
    \/ CreateOffer(w) \/ SetOffer(w) \/ AcceptOffer(w) \/ SetAccept(w)
    \/ GetHold(w) \/ DeleteHold(w)
    \/ RaiseDeclined(w) \/ FinishFulfillment(w) \/ CancelLoaded(w)
    \/ \E full \in BOOLEAN : RefundLoaded(w, full)
    \/ Commit(w)

Fail(w) == RedisRaises(w) \/ DatabaseRaises(w) \/ CommitRaises(w) \/ Crash(w)

Next ==
    \/ \E w \in Worker : Arrive(w) \/ Serve(w) \/ Fail(w)
    \/ \E s \in Seat : ExpireHold(s)
    \/ \E o \in Order : AuthorizePayment(o)

Spec == Init /\ [][Next]_vars

(* A worker goes on with the request it serves.  That its database fails   *)
(* is not assumed: only a defect of the code raises without fail.          *)
Proceed(w) == Serve(w) \/ (WriteRaises(w) /\ CommitRaises(w))

FairSpec == Spec /\ \A w \in Worker : WF_vars(Proceed(w))
=============================================================================
