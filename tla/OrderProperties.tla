--------------------------- MODULE OrderProperties ---------------------------
(***************************************************************************)
(* What OrderService is checked for, each property under the constants     *)
(* README.md gives for its run.  Where the repository's documents state    *)
(* more than the code does, the comment of the property says under which   *)
(* condition it holds.                                                     *)
(***************************************************************************)
EXTENDS OrderService

Steps == {"idle", "hold", "undo", "load_payment", "key", "provider", "plan",
          "offer", "offer_set", "accept", "accept_set", "release",
          "release_del", "commit"}

OrderRow == [status : OrderStatus \union {"ABSENT"}, version : Nat,
             seats : Seq(Seat)]
PaymentRow == [status : PaymentStatus \union {"ABSENT"}, version : Nat]

Request == [op : {"none", "create", "confirm", "decline", "cancel", "refund"},
            pc : Steps, o : Order \union {NoOrder}, seats : Seq(Seat),
            i : Nat \ {0}, key : Key \union {NoKey}, order : OrderRow,
            payment : PaymentRow]

\* Types: every status is one the enums of models.py define, every counter is
\* within its bound, and only known orders hold seats.
TypeOK ==
    /\ orders \in [Order -> OrderRow]
    /\ payments \in [Order -> PaymentRow]
    /\ outbox \in [Event -> 0..MaxCopies]
    /\ holds \in [Seat -> Order \union {NoOrder}]
    /\ confirmKeys \subseteq Order \X Key
    /\ offers \subseteq Order
    /\ accepts \subseteq Order
    /\ intents \in [Worker -> SUBSET Order]
    /\ events \in [Worker -> [Event -> 0..MaxCopies]]
    /\ req \in [Worker -> Request]
    /\ issued \subseteq Order
    /\ confirmed \in [Order -> [Key -> 0..MaxCalls]]
    /\ covered \subseteq Order
    /\ tmOrders \in [Order -> 0..MaxCalls]

-----------------------------------------------------------------------------
Lifecycle == INSTANCE OrderLifecycle WITH
    orderStatus   <- [o \in Order |-> orders[o].status],
    paymentStatus <- [o \in Order |-> payments[o].status]

\* One worker alone, whatever fails, implements the state machines of models.py
\* with atomic requests: no failure between the calls of a handler leaves rows
\* in a state those machines cannot reach (UnitOfWork.__exit__, 53-60).  Two
\* workers do not, because their writes do not check versions.
ImplementsLifecycle == Lifecycle!Spec

\* The stored order and payment tell the same story, although a handler
\* changes them one after the other (handlers.py:154-155, 195-200).  It holds
\* for concurrent confirmations and refunds; a cancellation that has read the
\* order before it is paid breaks it.
PaymentMatchesOrder == Lifecycle!PaymentMatchesOrder

\* However often confirm-payment is sent, and whatever crashes or fails, the
\* provider is asked at most once per payment and idempotency key
\* (handlers.py:132-141, seat_holds.py:50-59).
ConfirmOncePerKey == \A o \in Order, k \in Key : confirmed[o][k] <= 1

\* A stored order is in the outbox as created, a cancelled one as cancelled:
\* no failure of the commit separates a row from its event
\* (unit_of_work.py:53-83).
OutboxComplete ==
    \A o \in Order :
        /\ Stored(orders[o]) => outbox[<<"OrderCreated", o>>] > 0
        /\ orders[o].status = "CANCELLED" => outbox[<<"OrderCancelled", o>>] > 0

\* An order is stored as paid only after the provider confirmed for it an
\* intent of an amount it accepts - not always the order's own, which nothing
\* asks for - and Ticketmaster's offer was made and accepted: no failing step
\* of the chain is skipped (handlers.py:141-163, fulfillment.py:34-48).
PaidIsDelivered ==
    \A o \in Order :
        orders[o].status \in {"PAID", "REFUNDED"} =>
            /\ o \in covered
            /\ tmOrders[o] > 0
            /\ o \in offers \intersect accepts

\* With Redis up and no worker killed, confirmations of an order that all get
\* past the provider, each with an intent of its own worker, make one
\* Ticketmaster order: the check and the set of ticketmaster.py:340-362 are not
\* atomic, but the rows flushed before them admit one confirmation at a time.
TmOrderOnce == \A o \in Order : tmOrders[o] <= 1

\* An order waiting for its payment holds every one of its seats, until its
\* own confirmation gives them back: two checkouts never share a seat
\* (ticketmaster.py:428-449, handlers.py:63-66).
Releasing(o) ==
    \E w \in Worker : Flushed(w, o) /\ req[w].pc \in {"release", "release_del",
                                                      "commit"}
CheckoutHoldsSeats ==
    \A o \in Order :
        orders[o].status = "PAYMENT_INITIATED" /\ ~Releasing(o) =>
            \A n \in DOMAIN orders[o].seats : holds[orders[o].seats[n]] = o

\* Every request ends, with a response or an exception: no two confirmations
\* and cancellations wait for each other's rows for ever.
EveryRequestEnds == \A w \in Worker : req[w] # Idle ~> req[w] = Idle

\* seat_holds.py:44: "prevent releasing others' holds": a request gives back
\* only the holds of the order it serves.  It holds while requests do not run
\* concurrently: between the GET and the DEL of a release (45-46) the hold may
\* expire, but nobody else takes it.
GivesBackOwn ==
    \A w \in Worker, s \in Seat :
        req'[w] # req[w] /\ holds'[s] = NoOrder => holds[s] \in {NoOrder, req[w].o}
OnlyOwnerReleases == [][GivesBackOwn]_vars
=============================================================================
