------------------------- MODULE OrderSafetyProofs --------------------------
(***************************************************************************)
(* The safety properties of the order commands, for any number of workers *)
(* and whatever fails, expires or crashes.                                 *)
(***************************************************************************)
EXTENDS OrderServiceProofs

USE OrderAssumption, KeyAssumption, BoundAssumption, SwitchAssumption

\* A step of a worker changes its own request only.
LEMMA OwnRequest ==
    ASSUME TypeInv, NEW w \in Worker, Arrive(w) \/ Serve(w) \/ Fail(w)
    PROVE  \A v \in Worker \ {w} : req'[v] = req[v]
<1>1. ASSUME NEW r, req' = [req EXCEPT ![w] = r]
      PROVE  \A v \in Worker \ {w} : req'[v] = req[v]
    BY <1>1 DEF TypeInv
<1>2. CASE Arrive(w)
    BY <1>1, <1>2 DEF Arrive, HandleCreateOrder, HandleConfirmPayment,
       HandleCancelOrder, HandleRefundOrder, LoadOrder
<1>3. CASE Fail(w)
    BY <1>1, <1>3 DEF Fail, RedisRaises, DatabaseRaises, CommitRaises, Crash, Finish
<1>4. CASE Serve(w)
    BY <1>1, <1>4 DEF Serve, AcquireHold, UndoHold, CreateIntent, LoadPayment,
       CheckKey, ConfirmIntent, LoadPlan, CreateOffer, SetOffer, AcceptOffer,
       SetAccept, GetHold, DeleteHold, RaiseDeclined, FinishFulfillment,
       CancelLoaded, RefundLoaded, Commit, Goto, NextSeat, Finish
<1>5. QED
    BY <1>2, <1>3, <1>4

\* What each kind of step leaves as the worker's request.
LEMMA NextRequest ==
    ASSUME TypeInv, NEW w \in Worker
    PROVE  /\ Finish(w) => req'[w] = Idle
           /\ NextSeat(w) => req'[w].op = req[w].op /\ req'[w].pc = req[w].pc
           /\ \A pc : Goto(w, pc) => req'[w].op = req[w].op /\ req'[w].pc = pc
<1>1. req \in [Worker -> Request]
    BY DEF TypeInv, TypeOK
<1>2. Finish(w) => req'[w] = Idle
    BY <1>1 DEF Finish
<1>3. NextSeat(w) => req'[w].op = req[w].op /\ req'[w].pc = req[w].pc
    BY <1>1 DEF NextSeat, Request
<1>4. \A pc : Goto(w, pc) => req'[w].op = req[w].op /\ req'[w].pc = pc
    BY <1>1 DEF Goto, Request
<1>5. QED
    BY <1>1, <1>2, <1>3, <1>4

LEMMA Rewritten ==
    ASSUME TypeInv, NEW w \in Worker, NEW r, req' = [req EXCEPT ![w] = r]
    PROVE  req'[w] = r
BY DEF TypeInv, TypeOK

-----------------------------------------------------------------------------
(* What a step makes of the worker's request                               *)

\* Moving an aggregate gives it the status.
LEMMA MoveOrderStatus ==
    ASSUME NEW order \in OrderRow, NEW status
    PROVE  MoveOrder(order, status).status = status
<1> DEFINE next == order.version + 1
<1> HIDE DEF next
<1>1. [order EXCEPT !.status = status, !.version = next].status = status
    BY DEF OrderRow
<1>2. MoveOrder(order, status) = [order EXCEPT !.status = status, !.version = next]
    BY DEF MoveOrder, next
<1>3. QED
    BY <1>1, <1>2

LEMMA MovePaymentStatus ==
    ASSUME NEW payment \in PaymentRow, NEW status
    PROVE  MovePayment(payment, status).status = status
<1> DEFINE next == payment.version + 1
<1> HIDE DEF next
<1>1. [payment EXCEPT !.status = status, !.version = next].status = status
    BY DEF PaymentRow
<1>2. MovePayment(payment, status) = [payment EXCEPT !.status = status, !.version = next]
    BY DEF MovePayment, next
<1>3. QED
    BY <1>1, <1>2

\* The steps before the provider is asked, and those of a release.
Before == {"hold", "undo", "load_payment", "key", "provider"}
Release == {"release", "release_del"}

\* A confirmation that the provider has accepted.
Fulfilling(r) == r.op = "confirm" /\ r.pc \in {"plan"} \union AfterFlush

SameOrder(q, r) == q.o = r.o /\ q.order = r.order

\* Only Commit stores an order or an event.
LEMMA OnlyCommitStores ==
    ASSUME NEW w \in Worker, Arrive(w) \/ Serve(w) \/ Fail(w), ~Commit(w)
    PROVE  UNCHANGED <<orders, payments, outbox>>
BY DEF Arrive, Serve, Fail, HandleCreateOrder, HandleConfirmPayment,
   HandleCancelOrder, HandleRefundOrder, AcquireHold, UndoHold, CreateIntent,
   LoadPayment, CheckKey, ConfirmIntent, LoadPlan, CreateOffer, SetOffer,
   AcceptOffer, SetAccept, GetHold, DeleteHold, RaiseDeclined, FinishFulfillment,
   CancelLoaded, RefundLoaded, RedisRaises, DatabaseRaises, CommitRaises, Crash,
   database

\* Order ids are drawn, and never handed back.
LEMMA IssuedGrows ==
    ASSUME NEW w \in Worker, Arrive(w) \/ Serve(w) \/ Fail(w)
    PROVE  issued \subseteq issued'
BY DEF Arrive, Serve, Fail, HandleCreateOrder, HandleConfirmPayment,
   HandleCancelOrder, HandleRefundOrder, AcquireHold, UndoHold, CreateIntent,
   LoadPayment, CheckKey, ConfirmIntent, LoadPlan, CreateOffer, SetOffer,
   AcceptOffer, SetAccept, GetHold, DeleteHold, RaiseDeclined, FinishFulfillment,
   CancelLoaded, RefundLoaded, Commit, RedisRaises, DatabaseRaises, CommitRaises,
   Crash, history

LEMMA ArriveShape ==
    ASSUME TypeInv, NEW w \in Worker, Arrive(w)
    PROVE  LET q == req'[w] IN
           /\ req[w] = Idle
           /\ UNCHANGED <<orders, outbox, offers, accepts, confirmKeys, intents,
                          confirmed, covered, tmOrders>>
           /\ \/ /\ q.op = "create" /\ q.pc = "hold" /\ q.order = NewOrder /\ q.i = 1
                 /\ q.o \in Order \ issued /\ issued' = issued \union {q.o}
              \/ /\ q.op \in {"confirm", "refund"} /\ q.pc = "load_payment"
                 /\ q.o \in Order /\ q.order = orders[q.o] /\ Stored(q.order)
                 /\ issued' = issued
              \/ /\ q.op = "cancel" /\ q.pc = "release" /\ "cancel" \in Requests
                 /\ q.o \in Order /\ q.order = orders[q.o] /\ Stored(q.order)
                 /\ issued' = issued
<1>1. /\ req[w] = Idle
      /\ UNCHANGED <<orders, outbox, offers, accepts, confirmKeys, intents,
                     confirmed, covered, tmOrders>>
    BY DEF Arrive, HandleCreateOrder, HandleConfirmPayment, HandleCancelOrder,
       HandleRefundOrder, database, redis, memory, history
<1>2. PICK o \in Order :
         \/ \E seats \in SeatLists : HandleCreateOrder(w, o, seats)
         \/ \E k \in Key : HandleConfirmPayment(w, o, k)
         \/ HandleCancelOrder(w, o) \/ HandleRefundOrder(w, o)
    BY DEF Arrive
<1> DEFINE row == orders[o]
           created(seats) == [Idle EXCEPT !.op = "create", !.pc = "hold", !.o = o,
                                          !.seats = seats, !.order = NewOrder]
           loaded(op, pc, k) == [Idle EXCEPT !.op = op, !.pc = pc, !.o = o, !.key = k,
                                             !.order = row, !.seats = row.seats]
<1>3. \/ /\ \E seats : req'[w] = created(seats)
         /\ o \notin issued /\ issued' = issued \union {o}
      \/ /\ \E k : \/ req'[w] = loaded("confirm", "load_payment", k)
                   \/ req'[w] = loaded("refund", "load_payment", k)
                   \/ req'[w] = loaded("cancel", "release", k) /\ "cancel" \in Requests
         /\ Stored(row) /\ issued' = issued
    BY <1>2, Rewritten DEF HandleCreateOrder, HandleConfirmPayment, HandleCancelOrder,
       HandleRefundOrder, LoadOrder, history
<1> HIDE DEF row
<1>4. /\ \A seats : /\ created(seats).op = "create" /\ created(seats).pc = "hold"
                    /\ created(seats).o = o /\ created(seats).order = NewOrder
                    /\ created(seats).i = 1
      /\ \A op, pc, k : /\ loaded(op, pc, k).op = op /\ loaded(op, pc, k).pc = pc
                        /\ loaded(op, pc, k).o = o /\ loaded(op, pc, k).order = row
    BY DEF Idle
<1> HIDE DEF created, loaded
<1>5. QED
    BY <1>1, <1>3, <1>4 DEF row

LEMMA HoldsShape ==
    ASSUME TypeInv, NEW w \in Worker,
           \/ AcquireHold(w) \/ UndoHold(w) \/ GetHold(w) \/ DeleteHold(w)
           \/ LoadPayment(w) \/ CheckKey(w) \/ RaiseDeclined(w)
    PROVE  LET r == req[w]
               q == req'[w]
           IN
           /\ UNCHANGED <<orders, outbox, offers, accepts, intents, issued, confirmed,
                          covered, tmOrders>>
           /\ r.pc \in Before \union Release
           /\ \/ Finish(w)
              \/ /\ q.op = r.op /\ SameOrder(q, r)
                 /\ r.pc \in Before /\ q.pc \in Before
                 /\ q.pc \in {"hold", "provider"} => q.pc = r.pc \/ CheckKey(w)
              \/ /\ q.op = r.op /\ SameOrder(q, r) /\ q.payment = r.payment
                 /\ r.pc \in Release /\ q.pc \in Release
<1> DEFINE r == req[w]
           inc == r.i + 1
           row == payments[r.o]
           acquired == SubSeq(r.seats, 1, r.i - 1)
           next == [r EXCEPT !.i = inc]
           undo == [r EXCEPT !.pc = "undo", !.i = 1, !.seats = acquired]
           deleted == [r EXCEPT !.pc = "release", !.i = inc]
           paying == [r EXCEPT !.pc = "key", !.payment = row]
           found == [r EXCEPT !.pc = "release_del"]
           asking == [r EXCEPT !.pc = "provider"]
<1>1. /\ r \in Request /\ r.pc \in Before \union Release
      /\ UNCHANGED <<orders, outbox, offers, accepts, intents, issued, confirmed,
                     covered, tmOrders>>
    BY DEF TypeInv, TypeOK, AcquireHold, UndoHold, GetHold, DeleteHold, LoadPayment,
       CheckKey, RaiseDeclined, AllReleased, AtStep, Before, Release, database, redis,
       memory, history
<1>2. \/ Finish(w)
      \/ r.pc \in Before /\ req'[w] \in {next, undo, paying}
      \/ r.pc \in Before /\ req'[w] = asking /\ CheckKey(w)
      \/ r.pc \in Release /\ req'[w] \in {next, deleted, found}
    BY <1>1, Rewritten DEF AcquireHold, UndoHold, GetHold, DeleteHold, LoadPayment,
       CheckKey, RaiseDeclined, AtStep, NextSeat, Goto, Before, Release
<1> HIDE DEF inc, row, acquired
<1>3. /\ \A q \in {next, undo, deleted, paying, found, asking} :
            q.op = r.op /\ SameOrder(q, r)
      /\ \A q \in {next, deleted, found} : q.payment = r.payment
      /\ next.pc = r.pc
      /\ undo.pc = "undo" /\ paying.pc = "key" /\ asking.pc = "provider"
      /\ \A q \in {deleted, found} : q.pc \in Release
    BY <1>1 DEF Request, Release, SameOrder
<1> HIDE DEF next, undo, deleted, paying, found, asking
<1>4. QED
    BY <1>1, <1>2, <1>3 DEF Before

\* A step before the provider is asked loads the payment or keeps it.
LEMMA AskShape ==
    ASSUME TypeInv, NEW w \in Worker, LoadPayment(w) \/ CheckKey(w)
    PROVE  LET r == req[w]
               q == req'[w]
           IN
           /\ r.op = "confirm" /\ r.pc \in {"load_payment", "key"}
           /\ \/ Finish(w)
              \/ /\ q.op = "confirm" /\ SameOrder(q, r)
                 /\ \/ q.pc = "key" /\ q.payment = payments[r.o]
                    \/ r.pc = "key" /\ q.pc = "provider" /\ q.payment = r.payment
<1> DEFINE r == req[w]
           row == payments[r.o]
           loaded == [r EXCEPT !.pc = "key", !.payment = row]
           asking == [r EXCEPT !.pc = "provider"]
<1>1. r \in Request /\ r.op = "confirm" /\ r.pc \in {"load_payment", "key"}
    BY DEF TypeInv, TypeOK, LoadPayment, CheckKey, AtStep
<1>2. Finish(w) \/ req'[w] = loaded \/ (r.pc = "key" /\ req'[w] = asking)
    BY <1>1, Rewritten DEF LoadPayment, CheckKey, Goto, AtStep
<1> HIDE DEF row
<1>3. /\ loaded.op = r.op /\ SameOrder(loaded, r) /\ loaded.pc = "key"
      /\ loaded.payment = row
      /\ asking.op = r.op /\ SameOrder(asking, r) /\ asking.pc = "provider"
      /\ asking.payment = r.payment
    BY <1>1 DEF Request, SameOrder
<1> HIDE DEF loaded, asking
<1>4. QED
    BY <1>1, <1>2, <1>3 DEF row

LEMMA ConfirmIntentShape ==
    ASSUME TypeInv, NEW w \in Worker, NEW p \in Order, ConfirmIntent(w, p)
    PROVE  LET r == req[w]
               q == req'[w]
           IN
           /\ UNCHANGED <<orders, outbox, offers, accepts, intents, issued, confirmKeys,
                          tmOrders>>
           /\ r.op = "confirm" /\ r.pc = "provider"
           /\ \/ Finish(w)
              \/ /\ q.op = "decline" /\ q.pc = "release" /\ SameOrder(q, r)
                 /\ Declined(p)
              \/ /\ q.op = "confirm" /\ q.pc = "plan" /\ q.o = r.o
                 /\ q.order.status = "PAID" /\ q.payment.status = "CAPTURED"
                 /\ CanConfirmPayment(r.order) /\ CanCapture(r.payment)
                 /\ p \in intents[w] /\ r.o \in covered'
<1> DEFINE r == req[w]
           paid == ConfirmPayment(r.order)
           captured == Capture(r.payment)
           declined == [r EXCEPT !.op = "decline", !.pc = "release", !.key = NoKey]
           accepted == [r EXCEPT !.pc = "plan", !.key = NoKey, !.order = paid,
                                 !.payment = captured]
<1>1. /\ r \in Request /\ r.op = "confirm" /\ r.pc = "provider"
      /\ r.order \in OrderRow /\ r.payment \in PaymentRow
      /\ UNCHANGED <<orders, outbox, offers, accepts, intents, issued, confirmKeys,
                     tmOrders>>
    BY Serving DEF TypeInv, TypeOK, ConfirmIntent, AtStep, database, redis, memory
<1>2. \/ Finish(w)
      \/ req'[w] = declined /\ Declined(p)
      \/ /\ req'[w] = accepted /\ p \in intents[w] /\ r.o \in covered'
         /\ CanConfirmPayment(r.order) /\ CanCapture(r.payment)
    BY <1>1, Rewritten DEF ConfirmIntent, Declined
<1>3. paid.status = "PAID" /\ captured.status = "CAPTURED"
    BY <1>1, MoveOrderStatus, MovePaymentStatus DEF ConfirmPayment, Capture
<1> HIDE DEF paid, captured
<1>4. /\ declined.op = "decline" /\ declined.pc = "release" /\ SameOrder(declined, r)
      /\ accepted.op = "confirm" /\ accepted.pc = "plan" /\ accepted.o = r.o
      /\ accepted.order = paid /\ accepted.payment = captured
    BY <1>1 DEF Request, SameOrder
<1> HIDE DEF declined, accepted
<1>5. QED
    BY <1>1, <1>2, <1>3, <1>4

LEMMA FulfillShape ==
    ASSUME TypeInv, NEW w \in Worker,
           \/ LoadPlan(w) \/ CreateOffer(w) \/ SetOffer(w)
           \/ AcceptOffer(w) \/ SetAccept(w) \/ FinishFulfillment(w)
    PROVE  LET r == req[w]
               q == req'[w]
           IN
           /\ UNCHANGED <<orders, outbox, confirmKeys, intents, issued, confirmed, covered>>
           /\ r.o \in Order /\ Fulfilling(r)
           /\ \/ Finish(w) /\ FinishFulfillment(w)
              \/ /\ q.op = r.op /\ SameOrder(q, r) /\ q.payment = r.payment
                 /\ q.pc \in AfterFlush \ {"release_del"}
                 /\ FinishFulfillment(w) => q.pc = "commit"
<1> DEFINE r == req[w]
           moved(pc) == [r EXCEPT !.pc = pc]
           filled == [r EXCEPT !.pc = "commit", !.i = 1]
<1>1. /\ r \in Request /\ r.o \in Order /\ Fulfilling(r)
      /\ UNCHANGED <<orders, outbox, confirmKeys, intents, issued, confirmed, covered>>
    BY Serving DEF TypeInv, TypeOK, LoadPlan, CreateOffer, SetOffer, AcceptOffer,
       SetAccept, FinishFulfillment, AllReleased, AtStep, Fulfilling, AfterFlush,
       database, redis, memory, history
<1>2. \/ Finish(w) /\ FinishFulfillment(w)
      \/ /\ \E pc \in AfterFlush \ {"release_del"} : req'[w] = moved(pc)
         /\ ~FinishFulfillment(w)
      \/ req'[w] = filled
    BY <1>1, Rewritten DEF AtStep, AllReleased, LoadPlan, CreateOffer, SetOffer, AcceptOffer, SetAccept,
       FinishFulfillment, Goto, AfterFlush
<1>3. /\ \A pc : /\ moved(pc).pc = pc /\ moved(pc).op = r.op
                 /\ SameOrder(moved(pc), r) /\ moved(pc).payment = r.payment
      /\ filled.pc = "commit" /\ filled.op = r.op
      /\ SameOrder(filled, r) /\ filled.payment = r.payment
    BY <1>1 DEF Request, SameOrder
<1> HIDE DEF moved, filled
<1>4. QED
    BY <1>1, <1>2, <1>3 DEF AfterFlush

LEMMA ReadyShape ==
    ASSUME TypeInv, NEW w \in Worker,
           \/ CreateIntent(w) \/ CancelLoaded(w)
           \/ \E full \in BOOLEAN : RefundLoaded(w, full)
    PROVE  LET r == req[w]
               q == req'[w]
           IN
           /\ UNCHANGED <<orders, outbox, offers, accepts, confirmKeys, issued,
                          confirmed, covered, tmOrders>>
           /\ r.op \in {"create", "cancel", "refund"}
           /\ r.op = "create" => CreateIntent(w)
           /\ r.op # "create" => intents' = intents
           /\ \/ Finish(w)
              \/ /\ q.op = r.op /\ q.pc = "commit" /\ q.o = r.o
                 /\ \/ /\ r.op = "create" /\ q.order.status = "PAYMENT_INITIATED"
                       /\ q.payment = NewPayment
                    \/ /\ r.op = "cancel" /\ r.pc = "release" /\ CanCancel(r.order)
                       /\ q.order.status = "CANCELLED"
                    \/ /\ r.op = "refund" /\ r.pc = "load_payment"
                       /\ CanRefundOrder(r.order) /\ CanRefundPayment(payments[r.o])
                       /\ q.order.status = "REFUNDED"
                       /\ q.payment.status \in {"REFUNDED", "PARTIALLY_REFUNDED"}
<1> DEFINE r == req[w]
           reserved == IF r.seats = <<>> THEN r.order ELSE ReserveSeats(r.order, r.seats)
           initiated == InitiatePayment(reserved)
           cancelled == Cancel(r.order)
           refunded == RefundOrder(r.order)
           row == payments[r.o]
           refund(full) == RefundPayment(row, full)
           created == [r EXCEPT !.pc = "commit", !.i = 1, !.order = initiated,
                                !.payment = NewPayment]
           undone == [r EXCEPT !.pc = "commit", !.i = 1, !.order = cancelled]
           repaid(full) == [r EXCEPT !.pc = "commit", !.order = refunded,
                                     !.payment = refund(full)]
<1>1. /\ r \in Request /\ r.order \in OrderRow /\ r.seats \in Seq(Seat)
      /\ row \in PaymentRow /\ r.op \in {"create", "cancel", "refund"}
      /\ r.op = "create" => CreateIntent(w)
      /\ r.op # "create" => intents' = intents
      /\ UNCHANGED <<orders, outbox, offers, accepts, confirmKeys, issued, confirmed,
                     covered, tmOrders>>
    BY Serving DEF TypeInv, TypeOK, CreateIntent, CancelLoaded, RefundLoaded,
       AllReleased, AtStep, database, redis, memory, history
<1>2. \/ Finish(w)
      \/ r.op = "create" /\ req'[w] = created
      \/ /\ r.op = "cancel" /\ r.pc = "release" /\ CanCancel(r.order)
         /\ req'[w] = undone
      \/ /\ r.op = "refund" /\ r.pc = "load_payment"
         /\ CanRefundOrder(r.order) /\ CanRefundPayment(row)
         /\ \E full \in BOOLEAN : req'[w] = repaid(full)
    BY <1>1, Rewritten DEF CreateIntent, CancelLoaded, RefundLoaded, AllReleased, AtStep
<1>3. /\ initiated.status = "PAYMENT_INITIATED"
      /\ cancelled.status = "CANCELLED" /\ refunded.status = "REFUNDED"
    <2>1. MoveOrder(r.order, "SEATS_RESERVED") \in OrderRow
        BY <1>1, MoveOrderType DEF OrderStatus
    <2>2. reserved \in OrderRow
        BY <1>1, <2>1 DEF ReserveSeats, OrderRow
    <2> HIDE DEF reserved
    <2>3. QED
        BY <1>1, <2>2, MoveOrderStatus DEF InitiatePayment, Cancel, RefundOrder
<1> HIDE DEF row
<1>4. \A full \in BOOLEAN : refund(full).status \in {"REFUNDED", "PARTIALLY_REFUNDED"}
    BY <1>1, MovePaymentStatus DEF RefundPayment
<1> HIDE DEF reserved, initiated, cancelled, refunded, refund
<1>5. /\ \A q \in {created, undone} : q.op = r.op /\ q.pc = "commit" /\ q.o = r.o
      /\ created.order = initiated /\ created.payment = NewPayment
      /\ undone.order = cancelled
      /\ \A full : /\ repaid(full).op = r.op /\ repaid(full).pc = "commit"
                   /\ repaid(full).o = r.o /\ repaid(full).order = refunded
                   /\ repaid(full).payment = refund(full)
    BY <1>1 DEF Request
<1> HIDE DEF created, undone, repaid
<1>6. QED
    BY <1>1, <1>2, <1>3, <1>4, <1>5 DEF row

-----------------------------------------------------------------------------
(* The provider is asked once per payment and idempotency key              *)

AtProvider(w) == AtStep(w, "confirm", "provider")

Asks(w, o, k) == AtProvider(w) /\ req[w].o = o /\ req[w].key = k

(* ConfirmOncePerKey is kept because a worker about to ask the provider    *)
(* owns its key: the key is in Redis, no other worker is there with it,    *)
(* and it has not been used.                                               *)
KeyInv ==
    /\ TypeInv
    /\ \A o \in Order, k \in Key :
          /\ confirmed[o][k] <= 1
          /\ confirmed[o][k] > 0 => <<o, k>> \in confirmKeys
          /\ \A w \in Worker : Asks(w, o, k) =>
                /\ <<o, k>> \in confirmKeys
                /\ confirmed[o][k] = 0
                /\ \A v \in Worker : Asks(v, o, k) => v = w

\* A request that is moved on elsewhere than to the provider keeps KeyInv.
LEMMA AwayFromProvider ==
    ASSUME KeyInv, TypeInv', UNCHANGED <<confirmKeys, confirmed>>,
           \A w \in Worker : AtProvider(w)' => req'[w] = req[w]
    PROVE  KeyInv'
<1>1. \A w \in Worker, o \in Order, k \in Key : Asks(w, o, k)' => Asks(w, o, k)
    BY DEF Asks, AtProvider, AtStep
<1>2. QED
    BY <1>1 DEF KeyInv

LEMMA KeyInit == Init => KeyInv
<1> SUFFICES ASSUME Init PROVE KeyInv
    OBVIOUS
<1>1. \A w \in Worker : ~AtProvider(w)
    BY DEF Init, AtProvider, AtStep, Idle
<1>2. \A o \in Order, k \in Key : confirmed[o][k] = 0
    BY DEF Init
<1>3. QED
    BY <1>1, <1>2, TypeInit DEF KeyInv, Asks

LEMMA CheckKeyKeeps ==
    ASSUME KeyInv, NEW w \in Worker, CheckKey(w)
    PROVE  KeyInv'
<1> DEFINE r == req[w]
<1>1. TypeInv /\ TypeInv'
    BY CheckKeyType DEF KeyInv
<1>2. /\ req \in [Worker -> Request]
      /\ \A v \in Worker \ {w} : req'[v] = req[v]
      /\ confirmed' = confirmed
    BY <1>1, OwnRequest DEF Serve, TypeInv, TypeOK, CheckKey, history
<1>3. CASE KeyUsed(r.o, r.key)
    <2>1. ~AtProvider(w)' /\ UNCHANGED confirmKeys
        BY <1>2, <1>3 DEF CheckKey, Finish, Idle, AtProvider, AtStep
    <2>2. QED
        BY <1>1, <1>2, <2>1, AwayFromProvider
<1>4. CASE ~KeyUsed(r.o, r.key)
    <2>1. /\ confirmKeys' = confirmKeys \union {<<r.o, r.key>>}
          /\ req'[w].o = r.o /\ req'[w].key = r.key
          /\ <<r.o, r.key>> \notin confirmKeys
        BY <1>2, <1>4 DEF CheckKey, Goto, KeyUsed, Request
    <2>2. \A v \in Worker, o \in Order, k \in Key :
             Asks(v, o, k)' => IF v = w THEN o = r.o /\ k = r.key
                                        ELSE Asks(v, o, k)
        BY <1>2, <2>1 DEF Asks, AtProvider, AtStep
    <2>3. \A o \in Order, k \in Key :
             /\ confirmed'[o][k] <= 1
             /\ confirmed'[o][k] > 0 => <<o, k>> \in confirmKeys'
        BY <1>2, <2>1 DEF KeyInv
    <2>4. ASSUME NEW o \in Order, NEW k \in Key, NEW v \in Worker, Asks(v, o, k)'
          PROVE  /\ <<o, k>> \in confirmKeys'
                 /\ confirmed'[o][k] = 0
                 /\ \A u \in Worker : Asks(u, o, k)' => u = v
        <3>1. CASE v = w
            <4>1. o = r.o /\ k = r.key
                BY <2>2, <2>4, <3>1
            <4>2. \A u \in Worker : ~Asks(u, o, k)
                BY <2>1, <4>1 DEF KeyInv
            <4>3. ~(confirmed[o][k] > 0) /\ confirmed[o][k] \in 0..MaxCalls
                BY <1>1, <2>1, <4>1 DEF KeyInv, TypeInv, TypeOK
            <4>4. QED
                BY <1>2, <2>1, <2>2, <3>1, <4>1, <4>2, <4>3
        <3>2. CASE v # w
            <4>1. Asks(v, o, k) /\ <<o, k>> # <<r.o, r.key>>
                BY <2>1, <2>2, <2>4, <3>2 DEF KeyInv
            <4>2. QED
                BY <1>2, <2>1, <2>2, <4>1 DEF KeyInv
        <3>3. QED
            BY <3>1, <3>2
    <2>5. QED
        BY <1>1, <2>3, <2>4 DEF KeyInv
<1>5. QED
    BY <1>3, <1>4

LEMMA ConfirmIntentKeeps ==
    ASSUME KeyInv, NEW w \in Worker, NEW p \in Order, ConfirmIntent(w, p)
    PROVE  KeyInv'
<1> DEFINE r == req[w]
<1>1. TypeInv /\ TypeInv'
    BY ConfirmIntentType DEF KeyInv
<1>2. /\ req \in [Worker -> Request]
      /\ confirmed \in [Order -> [Key -> 0..MaxCalls]]
      /\ \A v \in Worker \ {w} : req'[v] = req[v]
      /\ confirmKeys' = confirmKeys
    BY <1>1, OwnRequest DEF Serve, TypeInv, TypeOK, ConfirmIntent, redis
<1>3. ~AtProvider(w)'
    <2>1. Finish(w) => ~AtProvider(w)'
        BY <1>1, NextRequest DEF AtProvider, AtStep, Idle
    <2>2. \/ Finish(w)
          \/ req'[w].op = "decline"
          \/ req'[w].pc = "plan"
        BY <1>1, ConfirmIntentShape
    <2>3. QED
        BY <2>1, <2>2 DEF AtProvider, AtStep
<1>4. r.o \in Order /\ r.key \in Key /\ Asks(w, r.o, r.key)
    BY <1>1, Serving DEF ConfirmIntent, AtStep, CarriesKey, Active, Asks, AtProvider
<1>5. confirmed[r.o][r.key] = 0 /\ <<r.o, r.key>> \in confirmKeys
    BY <1>4 DEF KeyInv
<1>6. \/ confirmed' = confirmed
      \/ confirmed' = [confirmed EXCEPT ![r.o][r.key] = 1]
    <2>1. CountCall(0) = 1
        BY DEF CountCall
    <2>2. \/ confirmed' = confirmed
          \/ confirmed' = [confirmed EXCEPT ![r.o][r.key]
                                              = CountCall(confirmed[r.o][r.key])]
        BY DEF ConfirmIntent
    <2>3. QED
        BY <1>5, <2>1, <2>2
<1>7. \A v \in Worker, o \in Order, k \in Key :
         Asks(v, o, k)' => v # w /\ Asks(v, o, k) /\ <<o, k>> # <<r.o, r.key>>
    <2>1. \A v \in Worker, o \in Order, k \in Key :
             Asks(v, o, k)' => v # w /\ Asks(v, o, k)
        BY <1>2, <1>3 DEF Asks, AtProvider, AtStep
    <2>2. \A v \in Worker : Asks(v, r.o, r.key) => v = w
        BY <1>4 DEF KeyInv
    <2>3. QED
        BY <2>1, <2>2
<1>8. \A o \in Order, k \in Key :
         \/ confirmed'[o][k] = confirmed[o][k]
         \/ o = r.o /\ k = r.key /\ confirmed'[o][k] = 1
    BY <1>2, <1>4, <1>6
<1>9. \A o \in Order, k \in Key :
         <<o, k>> # <<r.o, r.key>> => confirmed'[o][k] = confirmed[o][k]
    BY <1>8
<1>10. ASSUME NEW o \in Order, NEW k \in Key
       PROVE  /\ confirmed'[o][k] <= 1
              /\ confirmed'[o][k] > 0 => <<o, k>> \in confirmKeys'
    <2>1. /\ confirmed[o][k] <= 1
          /\ confirmed[o][k] > 0 => <<o, k>> \in confirmKeys
        BY DEF KeyInv
    <2>2. \/ confirmed'[o][k] = confirmed[o][k]
          \/ o = r.o /\ k = r.key /\ confirmed'[o][k] = 1
        BY <1>8
    <2>3. QED
        BY <1>2, <1>5, <2>1, <2>2
<1>11. ASSUME NEW o \in Order, NEW k \in Key, NEW v \in Worker, Asks(v, o, k)'
       PROVE  /\ <<o, k>> \in confirmKeys'
              /\ confirmed'[o][k] = 0
              /\ \A u \in Worker : Asks(u, o, k)' => u = v
    BY <1>2, <1>7, <1>9, <1>11 DEF KeyInv
<1>12. QED
    BY <1>1, <1>10, <1>11 DEF KeyInv

\* No other step of a worker leads to the provider.
LEMMA OthersStayAway ==
    ASSUME TypeInv, NEW w \in Worker,
           Arrive(w) \/ Serve(w) \/ Fail(w), ~CheckKey(w),
           \A p \in Order : ~ConfirmIntent(w, p)
    PROVE  (AtProvider(w)' => req'[w] = req[w]) /\ UNCHANGED <<confirmKeys, confirmed>>
<1>1. Finish(w) => ~AtProvider(w)'
    BY NextRequest DEF Idle, AtProvider, AtStep
<1>2. CASE Arrive(w)
    BY <1>2, ArriveShape DEF AtProvider, AtStep
<1>3. CASE \/ AcquireHold(w) \/ UndoHold(w) \/ GetHold(w) \/ DeleteHold(w)
           \/ LoadPayment(w) \/ RaiseDeclined(w)
    <2>1. UNCHANGED <<confirmKeys, confirmed>> /\ ~AtProvider(w)
        BY <1>3 DEF AcquireHold, UndoHold, GetHold, DeleteHold, LoadPayment,
           RaiseDeclined, AllReleased, AtProvider, AtStep, redis, history
    <2>2. ~AtProvider(w)'
        BY <1>1, <1>3, <2>1, HoldsShape DEF AtProvider, AtStep, Release
    <2>3. QED
        BY <2>1, <2>2
<1>4. CASE \/ LoadPlan(w) \/ CreateOffer(w) \/ SetOffer(w) \/ AcceptOffer(w)
           \/ SetAccept(w) \/ FinishFulfillment(w)
    BY <1>1, <1>4, FulfillShape DEF AtProvider, AtStep, AfterFlush
<1>5. CASE CreateIntent(w) \/ CancelLoaded(w) \/ \E full \in BOOLEAN : RefundLoaded(w, full)
    BY <1>1, <1>5, ReadyShape DEF AtProvider, AtStep
<1>6. CASE Fail(w) \/ Commit(w)
    BY <1>1, <1>6 DEF Fail, RedisRaises, DatabaseRaises, Crash, CommitRaises, Commit,
       redis, history
<1>7. QED
    BY <1>2, <1>3, <1>4, <1>5, <1>6 DEF Serve

LEMMA KeyNext == KeyInv /\ [Next]_vars => KeyInv'
<1> SUFFICES ASSUME KeyInv, [Next]_vars PROVE KeyInv'
    OBVIOUS
<1>1. TypeInv /\ TypeInv'
    BY TypeNext DEF KeyInv
<1>2. ASSUME NEW w \in Worker, Arrive(w) \/ Serve(w) \/ Fail(w) PROVE KeyInv'
    <2>1. CASE CheckKey(w)
        BY <2>1, CheckKeyKeeps
    <2>2. CASE \E p \in Order : ConfirmIntent(w, p)
        BY <2>2, ConfirmIntentKeeps
    <2>3. CASE ~CheckKey(w) /\ \A p \in Order : ~ConfirmIntent(w, p)
        <3>1. (AtProvider(w)' => req'[w] = req[w]) /\ UNCHANGED <<confirmKeys, confirmed>>
            BY <1>1, <1>2, <2>3, OthersStayAway
        <3>2. \A v \in Worker \ {w} : req'[v] = req[v]
            BY <1>1, <1>2, OwnRequest
        <3>3. QED
            BY <1>1, <3>1, <3>2, AwayFromProvider
    <2>4. QED
        BY <2>1, <2>2, <2>3
<1>3. ASSUME \/ \E s \in Seat : ExpireHold(s)
             \/ \E o \in Order : AuthorizePayment(o)
             \/ UNCHANGED vars
      PROVE  KeyInv'
    <2>1. UNCHANGED <<req, confirmKeys, confirmed>>
        BY <1>3 DEF ExpireHold, AuthorizePayment, vars, redis, history
    <2>2. QED
        BY <1>1, <2>1, AwayFromProvider
<1>4. QED
    BY <1>2, <1>3 DEF Next

\* The idempotency key of confirm-payment protects the provider: it is asked
\* at most once per payment and key (handlers.py:132-141).
THEOREM OneConfirmationPerKey == Spec => []ConfirmOncePerKey
<1>1. KeyInv => ConfirmOncePerKey
    BY DEF KeyInv, ConfirmOncePerKey
<1>2. QED
    BY <1>1, KeyInit, KeyNext, PTL DEF Spec

-----------------------------------------------------------------------------
(* What is stored has happened: events are in the outbox, and a paid order *)
(* was charged and has its tickets                                         *)

Settled(row) == row.status \in {"PAID", "FULFILLED", "REFUNDED"}

Charged(o) == o \in covered

Delivered(o) == Charged(o) /\ tmOrders[o] > 0 /\ o \in offers /\ o \in accepts

\* What a request has behind it, by its step: the event of the order it has
\* loaded, and of a confirmation the calls it has made.
Told(r) ==
    /\ r.op \notin {"none", "create"} => outbox[<<"OrderCreated", r.o>>] > 0
    /\ Fulfilling(r) => r.order.status = "PAID"
    /\ r.pc = "commit" /\ r.op # "cancel" => r.order.status # "CANCELLED"

Backed(r) ==
    /\ ~Fulfilling(r) /\ Settled(r.order) => Delivered(r.o)
    /\ Fulfilling(r) =>
          /\ Charged(r.o)
          /\ r.pc = "offer_set" => tmOrders[r.o] > 0
          /\ r.pc \in AfterFlush \ {"offer", "offer_set"} => r.o \in offers
          /\ r.pc \in {"release", "release_del", "commit"} => r.o \in accepts

StoryInv ==
    /\ TypeInv
    /\ OutboxComplete
    /\ \A o \in offers : tmOrders[o] > 0
    /\ \A o \in Order : Settled(orders[o]) => Delivered(o)
    /\ \A w \in Worker : Told(req[w]) /\ Backed(req[w])

\* What has happened is not taken back.
Grows ==
    /\ offers \subseteq offers' /\ accepts \subseteq accepts'
    /\ \A o \in Order : tmOrders[o] > 0 => tmOrders'[o] > 0
    /\ covered \subseteq covered'

LEMMA IdleTold == Told(Idle) /\ Backed(Idle)
BY DEF Told, Backed, Fulfilling, Settled, Idle, NoOrderRow

LEMMA IdleToldNext == (Told(Idle) /\ Backed(Idle))'
BY DEF Told, Backed, Fulfilling, Settled, Idle, NoOrderRow

\* A request that is not touched keeps what it has behind it.
LEMMA StillBacked ==
    ASSUME TypeInv, NEW v \in Worker, req'[v] = req[v], Grows,
           outbox[<<"OrderCreated", req[v].o>>] > 0
              => outbox'[<<"OrderCreated", req[v].o>>] > 0,
           Told(req[v]), Backed(req[v])
    PROVE  Told(req[v])' /\ Backed(req[v])'
<1>1. CASE req[v] = Idle
    BY <1>1, IdleToldNext
<1>2. CASE req[v] # Idle
    <2>1. req[v].o \in Order
        BY <1>2 DEF TypeInv, Active
    <2>2. Charged(req[v].o) => Charged(req[v].o)'
        BY <2>1 DEF Charged, Grows
    <2>3. Delivered(req[v].o) => Delivered(req[v].o)'
        BY <2>1, <2>2 DEF Delivered, Grows
    <2>4. Told(req[v])'
        BY DEF Told, Fulfilling
    <2>5. Backed(req[v])'
        BY <2>1, <2>2, <2>3 DEF Backed, Fulfilling, Grows
    <2>6. QED
        BY <2>4, <2>5
<1>3. QED
    BY <1>1, <1>2

\* A step that stores nothing needs to answer for its own request only.
LEMMA StoryKept ==
    ASSUME StoryInv, TypeInv', NEW w \in Worker,
           \A v \in Worker \ {w} : req'[v] = req[v],
           UNCHANGED <<orders, outbox>>, Grows,
           \A o \in offers' : tmOrders'[o] > 0,
           Told(req[w])', Backed(req[w])'
    PROVE  StoryInv'
<1>1. ASSUME NEW v \in Worker PROVE Told(req[v])' /\ Backed(req[v])'
    BY StillBacked DEF StoryInv
<1>2. ASSUME NEW o \in Order, Settled(orders'[o]) PROVE Delivered(o)'
    BY <1>2 DEF StoryInv, Delivered, Charged, Grows
<1>3. OutboxComplete'
    BY DEF StoryInv, OutboxComplete
<1>4. QED
    BY <1>1, <1>2, <1>3 DEF StoryInv

LEMMA StoryInit == Init => StoryInv
<1> SUFFICES ASSUME Init PROVE StoryInv
    OBVIOUS
<1>1. \A w \in Worker : req[w] = Idle
    BY DEF Init
<1>2. \A o \in Order : orders[o].status = "ABSENT"
    BY DEF Init, NoOrderRow
<1>3. OutboxComplete /\ \A o \in Order : ~Settled(orders[o])
    BY <1>2 DEF OutboxComplete, Settled, Stored
<1>4. offers = {}
    BY DEF Init
<1>5. QED
    BY <1>1, <1>3, <1>4, TypeInit, IdleTold DEF StoryInv

\* What a step that stores nothing owes.
Answers(w) ==
    /\ UNCHANGED <<orders, outbox>> /\ Grows
    /\ \A o \in offers' : tmOrders'[o] > 0
    /\ Told(req[w])' /\ Backed(req[w])'

Facts == <<orders, outbox, offers, accepts, covered, tmOrders>>

LEMMA QuietStep ==
    ASSUME StoryInv, NEW w \in Worker, UNCHANGED Facts, Told(req'[w]), Backed(req'[w])
    PROVE  Answers(w)
<1>1. Told(req[w])' /\ Backed(req[w])'
    BY DEF Told, Backed, Fulfilling, Delivered, Charged, Facts
<1>2. Grows /\ \A o \in offers' : tmOrders'[o] > 0
    BY DEF Grows, StoryInv, Facts
<1>3. QED
    BY <1>1, <1>2 DEF Answers, Facts

LEMMA FinishAnswers ==
    ASSUME StoryInv, NEW w \in Worker, Finish(w), UNCHANGED Facts
    PROVE  Answers(w)
<1>1. req'[w] = Idle
    BY NextRequest DEF StoryInv
<1>2. QED
    BY <1>1, IdleTold, QuietStep

LEMMA ArriveAnswers ==
    ASSUME StoryInv, NEW w \in Worker, Arrive(w)
    PROVE  Answers(w)
<1>1. TypeInv /\ UNCHANGED Facts
    BY ArriveShape DEF StoryInv, Facts
<1>2. ~Fulfilling(req'[w]) /\ req'[w].pc # "commit"
    BY <1>1, ArriveShape DEF Fulfilling, AfterFlush
<1>3. CASE req'[w].op = "create" /\ req'[w].order = NewOrder
    <2>1. ~Settled(req'[w].order)
        BY <1>3 DEF Settled, NewOrder
    <2>2. Told(req'[w]) /\ Backed(req'[w])
        BY <1>2, <1>3, <2>1 DEF Told, Backed
    <2>3. QED
        BY <1>1, <2>2, QuietStep
<1>4. CASE /\ req'[w].o \in Order /\ req'[w].order = orders[req'[w].o]
           /\ Stored(req'[w].order)
    BY <1>1, <1>2, <1>4, QuietStep DEF Told, Backed, StoryInv, OutboxComplete
<1>5. QED
    BY <1>1, <1>3, <1>4, ArriveShape

\* Within the steps before the provider, and within a release, a request only
\* changes its place.
LEMMA HoldsAnswer ==
    ASSUME StoryInv, NEW w \in Worker,
           \/ AcquireHold(w) \/ UndoHold(w) \/ GetHold(w) \/ DeleteHold(w)
           \/ LoadPayment(w) \/ CheckKey(w) \/ RaiseDeclined(w)
    PROVE  Answers(w)
<1>1. TypeInv /\ UNCHANGED Facts /\ Told(req[w]) /\ Backed(req[w])
    BY HoldsShape DEF StoryInv, Facts, RaiseDeclined, AcquireHold, UndoHold, GetHold,
       DeleteHold, LoadPayment, CheckKey, history
<1>2. CASE /\ req'[w].op = req[w].op /\ SameOrder(req'[w], req[w])
           /\ \/ req[w].pc \in Before /\ req'[w].pc \in Before
              \/ req[w].pc \in Release /\ req'[w].pc \in Release
    <2>1. Fulfilling(req'[w]) <=> Fulfilling(req[w])
        BY <1>2 DEF Fulfilling, AfterFlush, Before, Release
    <2>2. Told(req'[w])
        BY <1>1, <1>2, <2>1 DEF Told, SameOrder, Before, Release
    <2>3. Backed(req'[w])
        BY <1>1, <1>2, <2>1 DEF Backed, SameOrder, AfterFlush, Before, Release
    <2>4. QED
        BY <1>1, <2>2, <2>3, QuietStep
<1>3. QED
    <2>1. \/ Finish(w)
          \/ /\ req'[w].op = req[w].op /\ SameOrder(req'[w], req[w])
             /\ \/ req[w].pc \in Before /\ req'[w].pc \in Before
                \/ req[w].pc \in Release /\ req'[w].pc \in Release
        BY <1>1, HoldsShape
    <2>2. QED
        BY <1>1, <1>2, <2>1, FinishAnswers

LEMMA FailAnswers ==
    ASSUME StoryInv, NEW w \in Worker, Fail(w)
    PROVE  Answers(w)
<1>1. Finish(w) /\ UNCHANGED Facts
    BY DEF Fail, RedisRaises, DatabaseRaises, CommitRaises, Crash, Facts,
       database, redis, history
<1>2. QED
    BY <1>1, FinishAnswers

LEMMA ConfirmIntentAnswers ==
    ASSUME StoryInv, NEW w \in Worker, NEW p \in Order, ConfirmIntent(w, p)
    PROVE  Answers(w)
<1> DEFINE r == req[w]
           q == req'[w]
<1>1. /\ TypeInv /\ UNCHANGED <<orders, outbox, offers, accepts, tmOrders>>
      /\ r.op = "confirm" /\ r.pc = "provider" /\ ~Fulfilling(r)
      /\ Told(r) /\ Backed(r)
    BY ConfirmIntentShape DEF StoryInv, Fulfilling, AfterFlush
<1>2. r.o \in Order
    BY <1>1, Serving
<1>3. covered \subseteq covered'
    BY DEF ConfirmIntent
<1>4. Grows /\ \A o \in offers' : tmOrders'[o] > 0
    BY <1>1, <1>3 DEF Grows, StoryInv
<1>5. PICK o \in Order : o = r.o
    BY <1>2
<1>6. Told(req[w])' /\ Backed(req[w])'
    <2>1. CASE Finish(w)
        BY <1>1, <2>1, NextRequest, IdleToldNext
    <2>2. CASE q.op = "decline" /\ q.pc = "release" /\ SameOrder(q, r)
        <3>1. Delivered(o) => Delivered(o)'
            BY <1>4 DEF Delivered, Charged, Grows
        <3>2. q.o = o /\ ~(q.op = "confirm") /\ q.order = r.order
            BY <1>5, <2>2 DEF SameOrder
        <3>3. Told(req[w])'
            BY <1>1, <1>5, <2>2, <3>2 DEF Told, Fulfilling
        <3>4. Backed(req[w])'
            BY <1>1, <1>5, <3>1, <3>2 DEF Backed, Fulfilling, Delivered, Charged
        <3>5. QED
            BY <3>3, <3>4
    <2>3. CASE /\ q.op = "confirm" /\ q.pc = "plan" /\ q.o = r.o
               /\ q.order.status = "PAID" /\ r.o \in covered'
        <3>1. Charged(o)'
            BY <1>5, <2>3 DEF Charged
        <3>2. Told(req[w])'
            BY <1>1, <1>5, <2>3 DEF Told, Fulfilling
        <3>3. Backed(req[w])'
            BY <1>5, <2>3, <3>1 DEF Backed, Fulfilling, AfterFlush, Charged
        <3>4. QED
            BY <3>2, <3>3
    <2>4. QED
        BY <1>1, <2>1, <2>2, <2>3, ConfirmIntentShape
<1>7. QED
    BY <1>1, <1>4, <1>6 DEF Answers

LEMMA FulfillAnswers ==
    ASSUME StoryInv, NEW w \in Worker,
           \/ LoadPlan(w) \/ CreateOffer(w) \/ SetOffer(w)
           \/ AcceptOffer(w) \/ SetAccept(w) \/ FinishFulfillment(w)
    PROVE  Answers(w)
<1> DEFINE r == req[w]
           moved(pc) == [r EXCEPT !.pc = pc]
           filled == [r EXCEPT !.pc = "commit", !.i = 1]
<1>1. /\ TypeInv /\ r \in Request /\ r.o \in Order /\ r.op = "confirm"
      /\ UNCHANGED <<orders, outbox, covered>>
      /\ tmOrders \in [Order -> 0..MaxCalls]
      /\ Told(r) /\ Backed(r)
    BY Serving DEF StoryInv, TypeInv, TypeOK, LoadPlan, CreateOffer, SetOffer,
       AcceptOffer, SetAccept, FinishFulfillment, AllReleased, AtStep, database,
       redis, history
<1>2. Grows /\ \A o \in offers' : tmOrders'[o] > 0
    <2>1. CASE CreateOffer(w)
        <3>1. CountCall(tmOrders[r.o]) > 0
            BY <1>1, CountCallType
        <3>2. \/ tmOrders' = tmOrders
              \/ tmOrders' = [tmOrders EXCEPT ![r.o] = CountCall(tmOrders[r.o])]
            BY <2>1 DEF CreateOffer
        <3>3. \A o \in Order : tmOrders[o] > 0 => tmOrders'[o] > 0
            BY <1>1, <3>1, <3>2
        <3>4. UNCHANGED <<offers, accepts>> /\ offers \subseteq Order
            BY <2>1 DEF CreateOffer, redis, StoryInv, TypeInv, TypeOK
        <3>5. QED
            BY <1>1, <3>3, <3>4 DEF Grows, StoryInv
    <2>2. CASE SetOffer(w)
        <3>1. offers' = offers \union {r.o} /\ UNCHANGED <<accepts, tmOrders>>
            BY <2>2 DEF SetOffer, history
        <3>2. tmOrders[r.o] > 0
            BY <1>1, <2>2 DEF SetOffer, AtStep, Backed, Fulfilling, AfterFlush
        <3>3. QED
            BY <1>1, <3>1, <3>2 DEF Grows, StoryInv
    <2>3. CASE LoadPlan(w) \/ AcceptOffer(w) \/ SetAccept(w) \/ FinishFulfillment(w)
        <3>1. offers' = offers /\ accepts \subseteq accepts' /\ tmOrders' = tmOrders
            BY <2>3 DEF LoadPlan, AcceptOffer, SetAccept, FinishFulfillment, redis,
               history
        <3>2. QED
            BY <1>1, <3>1 DEF Grows, StoryInv
    <2>4. QED
        BY <2>1, <2>2, <2>3
<1>3. /\ filled.pc = "commit"
      /\ \A pc : moved(pc).pc = pc
      /\ \A pc : moved(pc).op = r.op /\ moved(pc).o = r.o /\ moved(pc).order = r.order
      /\ filled.op = r.op /\ filled.o = r.o /\ filled.order = r.order
    BY <1>1 DEF Request
<1>4. ASSUME NEW q, q.op = r.op, q.o = r.o, q.order = r.order, req'[w] = q,
             q.pc \in AfterFlush, Fulfilling(r), Charged(r.o),
             q.pc = "offer_set" => tmOrders'[r.o] > 0,
             q.pc \in AfterFlush \ {"offer", "offer_set"} => r.o \in offers',
             q.pc \in {"release", "release_del", "commit"} => r.o \in accepts'
      PROVE  Told(req[w])' /\ Backed(req[w])'
    <2>1. Told(req[w])'
        BY <1>1, <1>4 DEF Told, Fulfilling
    <2>2. Charged(r.o)'
        BY <1>1, <1>4 DEF Charged
    <2>3. Backed(req[w])'
        BY <1>1, <1>4, <2>2 DEF Backed, Fulfilling, Charged, AfterFlush
    <2>4. QED
        BY <2>1, <2>3
<1>5. Told(req[w])' /\ Backed(req[w])'
    <2>1. Fulfilling(r) /\ Charged(r.o)
        BY <1>1 DEF LoadPlan, CreateOffer, SetOffer, AcceptOffer, SetAccept,
           FinishFulfillment, AllReleased, AtStep, Fulfilling, AfterFlush, Backed
    <2>2. CASE LoadPlan(w)
        <3>1. req'[w] = moved("offer")
            BY <1>1, <2>2, Rewritten DEF LoadPlan, Goto
        <3> HIDE DEF moved
        <3>2. QED
            BY <1>3, <1>4, <2>1, <3>1 DEF AfterFlush
    <2>3. CASE CreateOffer(w)
        <3>1. \/ r.o \in offers /\ req'[w] = moved("accept") /\ offers' = offers
              \/ /\ req'[w] = moved("offer_set")
                 /\ tmOrders' = [tmOrders EXCEPT ![r.o] = CountCall(tmOrders[r.o])]
            BY <1>1, <2>3, Rewritten DEF CreateOffer, Goto, OfferCached, redis
        <3>2. CountCall(tmOrders[r.o]) > 0
            BY <1>1, CountCallType
        <3> HIDE DEF moved
        <3>3. CASE r.o \in offers /\ req'[w] = moved("accept") /\ offers' = offers
            BY <1>3, <1>4, <2>1, <3>3 DEF AfterFlush
        <3>4. CASE /\ req'[w] = moved("offer_set")
                   /\ tmOrders' = [tmOrders EXCEPT ![r.o] = CountCall(tmOrders[r.o])]
            <4>1. tmOrders'[r.o] > 0
                BY <1>1, <3>2, <3>4
            <4>2. QED
                BY <1>3, <1>4, <2>1, <3>4, <4>1 DEF AfterFlush
        <3>5. QED
            BY <3>1, <3>3, <3>4
    <2>4. CASE SetOffer(w)
        <3>1. req'[w] = moved("accept") /\ r.o \in offers'
            BY <1>1, <2>4, Rewritten DEF SetOffer, Goto
        <3> HIDE DEF moved
        <3>2. QED
            BY <1>3, <1>4, <2>1, <3>1 DEF AfterFlush
    <2>5. CASE AcceptOffer(w) \/ SetAccept(w)
        <3>1. /\ \/ req'[w] = moved("accept_set")
                 \/ req'[w] = moved("release") /\ r.o \in accepts'
              /\ offers' = offers
            BY <1>1, <2>5, Rewritten DEF AcceptOffer, SetAccept, Goto, redis
        <3>2. r.o \in offers
            BY <1>1, <2>1, <2>5 DEF AcceptOffer, SetAccept, AtStep, Backed, AfterFlush
        <3> HIDE DEF moved
        <3>3. QED
            BY <1>3, <1>4, <2>1, <3>1, <3>2 DEF AfterFlush
    <2>6. CASE FinishFulfillment(w)
        <3>1. Finish(w) \/ req'[w] = filled
            BY <1>1, <2>6, Rewritten DEF FinishFulfillment
        <3>2. r.o \in offers' /\ r.o \in accepts'
            BY <1>1, <2>1, <2>6 DEF FinishFulfillment, AllReleased, AtStep, Backed,
               AfterFlush, redis
        <3> HIDE DEF filled
        <3>3. CASE Finish(w)
            BY <1>1, <3>3, NextRequest, IdleToldNext
        <3>4. CASE req'[w] = filled
            BY <1>3, <1>4, <2>1, <3>2, <3>4 DEF AfterFlush
        <3>5. QED
            BY <3>1, <3>3, <3>4
    <2>7. QED
        BY <2>2, <2>3, <2>4, <2>5, <2>6
<1>6. QED
    BY <1>1, <1>2, <1>5 DEF Answers

LEMMA ReadyAnswers ==
    ASSUME StoryInv, NEW w \in Worker,
           \/ CreateIntent(w) \/ CancelLoaded(w)
           \/ \E full \in BOOLEAN : RefundLoaded(w, full)
    PROVE  Answers(w)
<1> DEFINE r == req[w]
           q == req'[w]
<1>1. /\ TypeInv /\ UNCHANGED Facts /\ Told(r) /\ Backed(r)
      /\ r.op \in {"create", "cancel", "refund"} /\ ~Fulfilling(r)
    BY ReadyShape DEF StoryInv, Facts, Fulfilling
<1>2. CASE Finish(w)
    BY <1>1, <1>2, FinishAnswers
<1>3. CASE ~Finish(w)
    <2>1. /\ q.op = r.op /\ q.pc = "commit" /\ q.o = r.o /\ ~Fulfilling(q)
          /\ \/ r.op = "create" /\ q.order.status = "PAYMENT_INITIATED"
             \/ r.op = "cancel" /\ q.order.status = "CANCELLED"
             \/ /\ r.op = "refund" /\ CanRefundOrder(r.order)
                /\ q.order.status = "REFUNDED"
        BY <1>1, <1>3, ReadyShape DEF Fulfilling
    <2>2. Told(q)
        BY <1>1, <2>1 DEF Told
    <2>3. Settled(q.order) => Delivered(r.o)
        BY <1>1, <2>1 DEF Backed, Settled, CanRefundOrder
    <2>4. Backed(q)
        BY <2>1, <2>3 DEF Backed
    <2>5. QED
        BY <1>1, <2>2, <2>4, QuietStep
<1>4. QED
    BY <1>2, <1>3

LEMMA CommitStory ==
    ASSUME StoryInv, NEW w \in Worker, Commit(w)
    PROVE  StoryInv'
<1> DEFINE r == req[w]
<1>1. TypeInv /\ TypeInv' /\ UNCHANGED <<offers, accepts, covered, tmOrders>>
    BY CommitType DEF StoryInv, Commit, redis, history
<1>2. r \in Active /\ r.o \in Order /\ r.order \in OrderRow /\ r.pc = "commit"
    BY <1>1, Serving DEF Commit
<1>3. orders \in [Order -> OrderRow] /\ orders' = [orders EXCEPT ![r.o] = r.order]
    BY <1>1 DEF TypeInv, TypeOK, Commit
<1>4. \A e \in Event : /\ outbox[e] > 0 => outbox'[e] > 0
                       /\ e \in CollectDomainEvents(r) => outbox'[e] > 0
    <2>1. outbox \in [Event -> 0..MaxCopies] /\ Collected(w) \in [Event -> 0..MaxCopies]
        BY <1>1, CollectedType DEF TypeInv, TypeOK
    <2>2. ASSUME NEW e \in Event, e \in CollectDomainEvents(r)
          PROVE  Collected(w)[e] > 0
        <3>1. events[w][e] \in 0..MaxCopies
            BY <1>1 DEF TypeInv, TypeOK
        <3>2. QED
            BY <2>2, <3>1, CountUpType DEF Collected
    <2>3. ASSUME NEW e \in Event, outbox[e] > 0 \/ Collected(w)[e] > 0
          PROVE  outbox'[e] > 0
        <3> DEFINE c == Collected(w)[e]
        <3>1. outbox[e] \in Nat /\ c \in Nat
            BY <2>1
        <3>2. outbox'[e] = IF outbox[e] + c <= MaxCopies THEN outbox[e] + c ELSE MaxCopies
            BY DEF Commit, WriteOutboxEvents
        <3> HIDE DEF c
        <3>3. outbox[e] > 0 \/ c > 0
            BY <2>3 DEF c
        <3>4. QED
            BY <3>1, <3>2, <3>3
    <2>4. QED
        BY <2>2, <2>3
<1>5. Grows
    BY <1>1 DEF Grows
<1>6. OutboxComplete'
    <2>1. Told(r)
        BY DEF StoryInv
    <2>2. \A o \in Order : <<"OrderCreated", o>> \in Event /\ <<"OrderCancelled", o>> \in Event
        BY DEF Event
    <2>3. outbox'[<<"OrderCreated", r.o>>] > 0
        <3>1. CASE r.op = "create"
            BY <1>2, <1>4, <2>2, <3>1 DEF CollectDomainEvents
        <3>2. CASE r.op # "create"
            BY <1>2, <1>4, <2>1, <2>2, <3>2 DEF Told, Active
        <3>3. QED
            BY <3>1, <3>2
    <2>4. r.order.status = "CANCELLED" => outbox'[<<"OrderCancelled", r.o>>] > 0
        <3>1. r.op # "cancel" => r.order.status # "CANCELLED"
            BY <1>2, <2>1 DEF Told
        <3>2. r.op = "cancel" => outbox'[<<"OrderCancelled", r.o>>] > 0
            BY <1>2, <1>4, <2>2 DEF CollectDomainEvents
        <3>3. QED
            BY <3>1, <3>2
    <2>5. ASSUME NEW o \in Order
          PROVE  /\ Stored(orders'[o]) => outbox'[<<"OrderCreated", o>>] > 0
                 /\ orders'[o].status = "CANCELLED"
                       => outbox'[<<"OrderCancelled", o>>] > 0
        <3>1. CASE o = r.o
            BY <1>2, <1>3, <2>3, <2>4, <3>1
        <3>2. CASE o # r.o
            BY <1>3, <1>4, <2>2, <3>2 DEF StoryInv, OutboxComplete
        <3>3. QED
            BY <3>1, <3>2
    <2>6. QED
        BY <2>5 DEF OutboxComplete
<1>7. ASSUME NEW o \in Order, Settled(orders'[o]) PROVE Delivered(o)'
    <2>1. Delivered(o)
        <3>1. CASE o # r.o
            BY <1>3, <1>7, <3>1 DEF StoryInv
        <3>2. CASE o = r.o
            <4>1. Settled(r.order) /\ Backed(r)
                BY <1>2, <1>3, <1>7, <3>2 DEF StoryInv
            <4>2. CASE ~Fulfilling(r)
                BY <3>2, <4>1, <4>2 DEF Backed
            <4>3. CASE Fulfilling(r)
                BY <1>2, <3>2, <4>1, <4>3 DEF Backed, Delivered, AfterFlush, StoryInv
            <4>4. QED
                BY <4>2, <4>3
        <3>3. QED
            BY <3>1, <3>2
    <2>2. QED
        BY <1>1, <2>1 DEF Delivered, Charged
<1>8. ASSUME NEW v \in Worker PROVE Told(req[v])' /\ Backed(req[v])'
    <2>1. CASE v = w
        <3>1. req'[w] = Idle
            BY <1>1, NextRequest DEF Commit
        <3>2. QED
            BY <2>1, <3>1, IdleToldNext
    <2>2. CASE v # w
        <3>1. req'[v] = req[v]
            BY <1>1, <2>2, OwnRequest DEF Serve
        <3>2. CASE req[v] = Idle
            BY <3>1, <3>2, IdleToldNext
        <3>3. CASE req[v] # Idle
            <4>1. <<"OrderCreated", req[v].o>> \in Event
                BY <1>1, <3>3 DEF TypeInv, Active, Event
            <4>2. QED
                BY <1>1, <1>4, <1>5, <3>1, <4>1, StillBacked DEF StoryInv
        <3>4. QED
            BY <3>2, <3>3
    <2>3. QED
        BY <2>1, <2>2
<1>9. QED
    BY <1>1, <1>6, <1>7, <1>8 DEF StoryInv

LEMMA StoryNext == StoryInv /\ [Next]_vars => StoryInv'
<1> SUFFICES ASSUME StoryInv, [Next]_vars PROVE StoryInv'
    OBVIOUS
<1>1. TypeInv /\ TypeInv'
    BY TypeNext DEF StoryInv
<1>2. ASSUME NEW w \in Worker, Arrive(w) \/ Serve(w) \/ Fail(w) PROVE StoryInv'
    <2>1. CASE Commit(w)
        BY <2>1, CommitStory
    <2>2. CASE ~Commit(w)
        <3>1. Answers(w)
            BY <1>2, <2>2, ArriveAnswers, FailAnswers, HoldsAnswer,
               ConfirmIntentAnswers, FulfillAnswers, ReadyAnswers DEF Serve
        <3>2. \A v \in Worker \ {w} : req'[v] = req[v]
            BY <1>1, <1>2, OwnRequest
        <3>3. QED
            BY <1>1, <3>1, <3>2, StoryKept DEF Answers
    <2>3. QED
        BY <2>1, <2>2
<1>3. ASSUME \/ \E s \in Seat : ExpireHold(s)
             \/ \E o \in Order : AuthorizePayment(o)
             \/ UNCHANGED vars
      PROVE  StoryInv'
    <2>1. UNCHANGED <<req, orders, outbox, offers, accepts, covered, tmOrders>>
        BY <1>3 DEF ExpireHold, AuthorizePayment, vars, database, redis, history
    <2>2. OutboxComplete'
        BY <2>1 DEF StoryInv, OutboxComplete
    <2>3. \A w \in Worker : Told(req[w])' /\ Backed(req[w])'
        BY <2>1 DEF StoryInv, Told, Backed, Delivered, Charged, Fulfilling
    <2>4. QED
        BY <1>1, <2>1, <2>2, <2>3 DEF StoryInv, Delivered, Charged
<1>4. QED
    BY <1>2, <1>3 DEF Next

\* No failure separates a stored order, or a stored cancellation, from its
\* event in the outbox (unit_of_work.py:53-83).
THEOREM OutboxTellsAll == Spec => []OutboxComplete
<1>1. StoryInv => OutboxComplete
    BY DEF StoryInv
<1>2. QED
    BY <1>1, StoryInit, StoryNext, PTL DEF Spec

\* No order is stored as paid for which the provider did not confirm an intent
\* of an amount it accepts - whichever order that intent was created for - or
\* which was not ordered and accepted at Ticketmaster (handlers.py:141-163,
\* payment.py:48-59, fulfillment.py:34-48).
THEOREM PaidOrdersAreDelivered == Spec => []PaidIsDelivered
<1>1. StoryInv => PaidIsDelivered
    BY DEF StoryInv, PaidIsDelivered, Settled, Delivered, Charged
<1>2. QED
    BY <1>1, StoryInit, StoryNext, PTL DEF Spec

-----------------------------------------------------------------------------
(* Without cancellations the stored order and its payment match            *)

Match(order, payment) ==
    /\ order = "ABSENT" <=> payment = "ABSENT"
    /\ order \in {"PAID", "FULFILLED"} <=> payment = "CAPTURED"
    /\ order = "REFUNDED" <=> payment \in {"REFUNDED", "PARTIALLY_REFUNDED"}

\* The two aggregates of a request that will be written together match, so
\* whichever of two commits is the later one leaves rows that match.
Paired(r) ==
    /\ r.op # "cancel"
    /\ Fulfilling(r) => r.order.status = "PAID" /\ r.payment.status = "CAPTURED"
    /\ r.pc = "commit" => Match(r.order.status, r.payment.status)

MatchInv ==
    /\ TypeInv
    /\ \A o \in Order : Match(orders[o].status, payments[o].status)
    /\ \A w \in Worker : Paired(req[w])

LEMMA MatchImplies == MatchInv => PaymentMatchesOrder
BY DEF MatchInv, Match, PaymentMatchesOrder, Lifecycle!PaymentMatchesOrder

LEMMA IdlePaired == Paired(Idle)
BY DEF Paired, Fulfilling, Idle

LEMMA MatchInit == Init => MatchInv
<1> SUFFICES ASSUME Init PROVE MatchInv
    OBVIOUS
<1>1. \A o \in Order : orders[o].status = "ABSENT" /\ payments[o].status = "ABSENT"
    BY DEF Init, NoOrderRow, NoPaymentRow
<1>2. \A w \in Worker : req[w] = Idle
    BY DEF Init
<1>3. QED
    BY <1>1, <1>2, TypeInit, IdlePaired DEF MatchInv, Match

\* A confirmation that the provider has accepted.
LEMMA PairedLate ==
    ASSUME NEW r, r.op = "confirm", r.order.status = "PAID",
           r.payment.status = "CAPTURED"
    PROVE  Paired(r)
BY DEF Paired, Match

LEMMA WorkerPaired ==
    ASSUME MatchInv, "cancel" \notin Requests, NEW w \in Worker,
           Arrive(w) \/ Serve(w) \/ Fail(w)
    PROVE  Paired(req'[w])
<1> DEFINE r == req[w]
           q == req'[w]
<1>1. TypeInv /\ Paired(r)
    BY DEF MatchInv
<1>2. CASE Finish(w)
    BY <1>1, <1>2, NextRequest, IdlePaired
<1>3. CASE Arrive(w)
    <2>1. q.op # "cancel" /\ q.pc \in {"hold", "load_payment"}
        BY <1>1, <1>3, ArriveShape
    <2>2. QED
        BY <2>1 DEF Paired, Fulfilling, AfterFlush
<1>4. CASE \/ AcquireHold(w) \/ UndoHold(w) \/ GetHold(w) \/ DeleteHold(w)
           \/ LoadPayment(w) \/ CheckKey(w) \/ RaiseDeclined(w)
    <2>1. CASE q.op = r.op /\ q.pc \in Before
        BY <1>1, <2>1 DEF Paired, Fulfilling, AfterFlush, Before
    <2>2. CASE /\ q.op = r.op /\ SameOrder(q, r) /\ q.payment = r.payment
               /\ r.pc \in Release /\ q.pc \in Release
        <3>1. r.op \in {"confirm", "decline"}
            BY <1>1, <2>2, Serving DEF Active, Release, StepsOf, Paired
        <3>2. CASE r.op = "decline"
            BY <2>2, <3>2 DEF Paired, Fulfilling, Release
        <3>3. CASE r.op = "confirm"
            BY <1>1, <2>2, <3>3, PairedLate DEF Paired, Fulfilling, Release,
               AfterFlush, SameOrder
        <3>4. QED
            BY <3>1, <3>2, <3>3
    <2>3. \/ Finish(w)
          \/ q.op = r.op /\ q.pc \in Before
          \/ /\ q.op = r.op /\ SameOrder(q, r) /\ q.payment = r.payment
             /\ r.pc \in Release /\ q.pc \in Release
        BY <1>1, <1>4, HoldsShape
    <2>4. QED
        BY <1>2, <2>1, <2>2, <2>3
<1>5. CASE \E p \in Order : ConfirmIntent(w, p)
    <2>1. \/ Finish(w)
          \/ q.op = "decline" /\ q.pc = "release"
          \/ /\ q.op = "confirm" /\ q.order.status = "PAID"
             /\ q.payment.status = "CAPTURED"
        BY <1>1, <1>5, ConfirmIntentShape
    <2>2. QED
        BY <1>2, <2>1, PairedLate DEF Paired, Fulfilling
<1>6. CASE \/ LoadPlan(w) \/ CreateOffer(w) \/ SetOffer(w)
           \/ AcceptOffer(w) \/ SetAccept(w) \/ FinishFulfillment(w)
    <2>1. Fulfilling(r)
        BY <1>1, <1>6, FulfillShape
    <2>2. r.op = "confirm" /\ r.order.status = "PAID" /\ r.payment.status = "CAPTURED"
        BY <1>1, <2>1 DEF Paired, Fulfilling
    <2>3. \/ Finish(w)
          \/ q.op = r.op /\ SameOrder(q, r) /\ q.payment = r.payment
        BY <1>1, <1>6, FulfillShape
    <2>4. QED
        BY <1>2, <2>2, <2>3, PairedLate DEF SameOrder
<1>7. CASE CreateIntent(w) \/ CancelLoaded(w) \/ \E full \in BOOLEAN : RefundLoaded(w, full)
    <2>1. \/ Finish(w)
          \/ /\ q.op = r.op /\ q.pc = "commit"
             /\ \/ /\ q.op = "create" /\ q.order.status = "PAYMENT_INITIATED"
                   /\ q.payment = NewPayment
                \/ q.op = "cancel"
                \/ /\ q.op = "refund" /\ q.order.status = "REFUNDED"
                   /\ q.payment.status \in {"REFUNDED", "PARTIALLY_REFUNDED"}
        BY <1>1, <1>7, ReadyShape
    <2>2. r.op # "cancel"
        BY <1>1 DEF Paired
    <2>3. QED
        BY <1>2, <2>1, <2>2 DEF Paired, Fulfilling, Match, NewPayment
<1>8. CASE Commit(w) \/ Fail(w)
    BY <1>2, <1>8 DEF Commit, Fail, RedisRaises, DatabaseRaises, CommitRaises, Crash
<1>9. QED
    BY <1>3, <1>4, <1>5, <1>6, <1>7, <1>8 DEF Serve

LEMMA MatchNext ==
    ASSUME "cancel" \notin Requests
    PROVE  MatchInv /\ [Next]_vars => MatchInv'
<1> SUFFICES ASSUME MatchInv, [Next]_vars PROVE MatchInv'
    OBVIOUS
<1>1. TypeInv /\ TypeInv'
    BY TypeNext DEF MatchInv
<1>2. ASSUME NEW w \in Worker, Arrive(w) \/ Serve(w) \/ Fail(w) PROVE MatchInv'
    <2>1. \A v \in Worker : Paired(req'[v])
        BY <1>1, <1>2, OwnRequest, WorkerPaired DEF MatchInv
    <2>2. \A o \in Order : Match(orders'[o].status, payments'[o].status)
        <3>1. CASE Commit(w)
            <4> DEFINE r == req[w]
            <4>1. r.o \in Order /\ r.pc = "commit" /\ Paired(r)
                BY <1>1, <3>1, Serving DEF Commit, MatchInv
            <4>2. /\ orders' = [orders EXCEPT ![r.o] = r.order]
                  /\ payments' = [payments EXCEPT ![r.o] = r.payment]
                BY <3>1, <4>1 DEF Commit, Paired, WritesPayment
            <4>3. orders \in [Order -> OrderRow] /\ payments \in [Order -> PaymentRow]
                BY <1>1 DEF TypeInv, TypeOK
            <4>4. QED
                BY <4>1, <4>2, <4>3 DEF MatchInv, Paired
        <3>2. CASE ~Commit(w)
            <4>1. UNCHANGED <<orders, payments>>
                BY <1>2, <3>2, OnlyCommitStores
            <4>2. QED
                BY <4>1 DEF MatchInv
        <3>3. QED
            BY <3>1, <3>2
    <2>3. QED
        BY <1>1, <2>1, <2>2 DEF MatchInv
<1>3. ASSUME NEW o \in Order, AuthorizePayment(o) PROVE MatchInv'
    <2> DEFINE row == Authorize(payments[o])
    <2>1. payments \in [Order -> PaymentRow]
        BY <1>1 DEF TypeInv, TypeOK
    <2>2. row.status = "AUTHORIZED" /\ payments[o].status = "CREATED"
        BY <1>3, <2>1, MovePaymentStatus DEF Authorize, AuthorizePayment, CanAuthorize
    <2>3. UNCHANGED <<orders, req>> /\ payments' = [payments EXCEPT ![o] = row]
        BY <1>3 DEF AuthorizePayment
    <2> HIDE DEF row
    <2>4. QED
        BY <1>1, <2>1, <2>2, <2>3 DEF MatchInv, Match
<1>4. ASSUME (\E s \in Seat : ExpireHold(s)) \/ UNCHANGED vars PROVE MatchInv'
    BY <1>1, <1>4 DEF MatchInv, ExpireHold, vars, database
<1>5. QED
    BY <1>2, <1>3, <1>4 DEF Next

\* As long as nobody cancels, concurrent confirmations and refunds leave an
\* order and its payment that match, whoever stores last: each of them stores
\* both rows (handlers.py:154-155, 195-200).
THEOREM UncancelledOrdersMatch ==
    ASSUME "cancel" \notin Requests
    PROVE  Spec => []PaymentMatchesOrder
<1>1. Init => MatchInv
    BY MatchInit
<1>2. MatchInv /\ [Next]_vars => MatchInv'
    BY MatchNext
<1>3. MatchInv => PaymentMatchesOrder
    BY MatchImplies
<1>4. QED
    BY <1>1, <1>2, <1>3, PTL DEF Spec

-----------------------------------------------------------------------------
(* Requests for different orders implement the machines of atomic requests *)

\* No two workers serve the same order at a time.
OneRequestPerOrder ==
    \A v, w \in Worker : v # w /\ req[v] # Idle /\ req[w] # Idle => req[v].o # req[w].o

SoleWorker == \A v, w \in Worker : v = w

(* What a request has read is still what the database stores under its     *)
(* order, up to an authorization of the payment, and what it is about to   *)
(* store is the next state of both machines.                               *)
Current(r, order, payment) ==
    /\ r.op = "create" =>
          /\ ~Stored(order)
          /\ r.pc = "commit" =>
                r.order.status = "PAYMENT_INITIATED" /\ r.payment = NewPayment
    /\ r.op \in {"confirm", "refund"} /\ r.pc \in {"load_payment", "key", "provider"} =>
          r.order = order
    /\ /\ r.op = "confirm" /\ r.pc \in {"key", "provider"}
       /\ r.payment.status = "AUTHORIZED"
       => payment.status = "AUTHORIZED"
    /\ Fulfilling(r) =>
          /\ order.status = "PAYMENT_INITIATED" /\ payment.status = "AUTHORIZED"
          /\ r.order.status = "PAID" /\ r.payment.status = "CAPTURED"
    /\ r.op = "cancel" /\ r.pc \in Release => r.order = order
    /\ r.op = "cancel" /\ r.pc = "commit" =>
          order.status = "PAYMENT_INITIATED" /\ r.order.status = "CANCELLED"
    /\ r.op = "refund" /\ r.pc = "commit" =>
          /\ order.status \in {"PAID", "FULFILLED"} /\ payment.status = "CAPTURED"
          /\ r.order.status = "REFUNDED"
          /\ r.payment.status \in {"REFUNDED", "PARTIALLY_REFUNDED"}

LifeInv ==
    /\ TypeInv
    /\ \A o \in Order :
          /\ orders[o].status \notin {"PENDING", "SEATS_RESERVED"}
          /\ o \notin issued => ~Stored(orders[o])
    /\ \A w \in Worker :
          /\ req[w] # Idle => Current(req[w], orders[req[w].o], payments[req[w].o])
          /\ req[w].op = "create" => req[w].o \in issued

LEMMA LifeInit == Init => LifeInv
<1> SUFFICES ASSUME Init PROVE LifeInv
    OBVIOUS
<1>1. \A w \in Worker : req[w] = Idle
    BY DEF Init
<1>2. Idle.op # "create"
    BY DEF Idle
<1>3. \A o \in Order : orders[o].status = "ABSENT"
    BY DEF Init, NoOrderRow
<1>4. QED
    BY <1>1, <1>2, <1>3, TypeInit DEF LifeInv, Stored

\* What the request of w is after a step that stores nothing.
LEMMA StillCurrent ==
    ASSUME LifeInv, NEW w \in Worker, Arrive(w) \/ Serve(w) \/ Fail(w), ~Commit(w)
    PROVE  /\ req'[w] # Idle => Current(req'[w], orders[req'[w].o], payments[req'[w].o])
           /\ req'[w].op = "create" => req'[w].o \in issued'
<1> DEFINE r == req[w]
           q == req'[w]
           order == orders[r.o]
           payment == payments[r.o]
<1>0. TypeInv /\ Idle.op # "create"
    BY DEF LifeInv, Idle
<1>1. CASE Finish(w)
    BY <1>0, <1>1, NextRequest
<1>2. CASE Arrive(w)
    <2>1. CASE q.op = "create" /\ q.pc = "hold" /\ q.o \in Order \ issued
               /\ issued' = issued \union {q.o}
        BY <2>1 DEF Current, LifeInv, Fulfilling
    <2>2. CASE q.op \in {"confirm", "refund"} /\ q.pc = "load_payment"
               /\ q.order = orders[q.o]
        BY <2>2 DEF Current, Fulfilling, AfterFlush
    <2>3. CASE q.op = "cancel" /\ q.pc = "release" /\ q.order = orders[q.o]
        BY <2>3 DEF Current, Fulfilling
    <2>4. QED
        BY <1>0, <1>2, <2>1, <2>2, <2>3, ArriveShape
<1>3. CASE Serve(w)
    <2>1. /\ Current(r, order, payment) /\ r \in Active
          /\ r.op = "create" => r.o \in issued
          /\ r.o \in Order /\ order.status \notin {"PENDING", "SEATS_RESERVED"}
        <3>1. r.op # "none" \/ r.pc # "idle"
            BY <1>3 DEF Serve, AcquireHold, UndoHold, CreateIntent, LoadPayment,
               CheckKey, ConfirmIntent, LoadPlan, CreateOffer, SetOffer, AcceptOffer,
               SetAccept, GetHold, DeleteHold, RaiseDeclined, FinishFulfillment,
               CancelLoaded, RefundLoaded, Commit, AllReleased, AtStep
        <3>2. r # Idle
            BY <3>1 DEF Idle
        <3>3. QED
            BY <1>0, <3>1, <3>2, Serving DEF LifeInv
    <2> HIDE DEF order, payment
    <2>2. CASE AcquireHold(w) \/ UndoHold(w)
        <3>1. r.op = "create" /\ r.pc \in {"hold", "undo"} /\ issued' = issued
            BY <1>0, <2>2, HoldsShape DEF AcquireHold, UndoHold, AtStep
        <3>2. Finish(w) \/ (q.op = r.op /\ q.pc \in Before /\ SameOrder(q, r))
            BY <1>0, <2>2, <3>1, HoldsShape DEF Release
        <3>3. QED
            BY <1>1, <2>1, <3>1, <3>2 DEF Current, Fulfilling, SameOrder, Before, order, payment
    <2>3. CASE LoadPayment(w) \/ CheckKey(w)
        <3>1. r.op = "confirm" /\ r.pc \in {"load_payment", "key"} /\ r.order = order
            BY <1>0, <2>1, <2>3, AskShape DEF Current
        <3>2. CASE q.op = "confirm" /\ SameOrder(q, r)
                   /\ q.pc = "key" /\ q.payment = payment
            BY <3>1, <3>2 DEF Current, Fulfilling, AfterFlush, SameOrder, order, payment
        <3>3. CASE q.op = "confirm" /\ SameOrder(q, r)
                   /\ r.pc = "key" /\ q.pc = "provider" /\ q.payment = r.payment
            BY <2>1, <3>1, <3>3 DEF Current, Fulfilling, AfterFlush, SameOrder, order, payment
        <3>4. QED
            BY <1>0, <1>1, <2>3, <3>2, <3>3, AskShape DEF payment
    <2>4. CASE GetHold(w) \/ DeleteHold(w) \/ RaiseDeclined(w)
        <3>1. r.pc \in Release
            BY <2>4 DEF GetHold, DeleteHold, RaiseDeclined, AllReleased, AtStep, Release
        <3>2. \/ Finish(w)
              \/ /\ q.op = r.op /\ SameOrder(q, r) /\ q.payment = r.payment
                 /\ q.pc \in Release
            BY <1>0, <2>4, <3>1, HoldsShape DEF Before, Release
        <3>3. r.op \in {"confirm", "decline", "cancel"}
            BY <2>1, <3>1 DEF Active, StepsOf, Release, AfterFlush
        <3>4. QED
            BY <1>1, <2>1, <3>1, <3>2, <3>3
               DEF Current, Fulfilling, AfterFlush, SameOrder, Release, order, payment
    <2>5. CASE \E p \in Order : ConfirmIntent(w, p)
        <3>1. r.op = "confirm" /\ r.pc = "provider" /\ r.order = order
            BY <1>0, <2>1, <2>5, ConfirmIntentShape DEF Current
        <3>2. CASE q.op = "decline" /\ q.pc = "release"
            BY <3>2 DEF Current, Fulfilling
        <3>3. CASE /\ q.op = "confirm" /\ q.pc = "plan" /\ q.o = r.o
                   /\ q.order.status = "PAID" /\ q.payment.status = "CAPTURED"
                   /\ CanConfirmPayment(r.order) /\ CanCapture(r.payment)
            <4>1. order.status = "PAYMENT_INITIATED" /\ payment.status = "AUTHORIZED"
                BY <2>1, <3>1, <3>3 DEF Current, CanConfirmPayment, CanCapture
            <4>2. QED
                BY <3>3, <4>1 DEF Current, order, payment
        <3>4. QED
            BY <1>0, <1>1, <2>5, <3>2, <3>3, ConfirmIntentShape
    <2>6. CASE \/ LoadPlan(w) \/ CreateOffer(w) \/ SetOffer(w)
               \/ AcceptOffer(w) \/ SetAccept(w) \/ FinishFulfillment(w)
        <3>1. Fulfilling(r) /\ r.op = "confirm"
            BY <1>0, <2>6, FulfillShape DEF Fulfilling
        <3>2. \/ Finish(w)
              \/ /\ q.op = r.op /\ SameOrder(q, r) /\ q.payment = r.payment
                 /\ q.pc \in AfterFlush
            BY <1>0, <2>6, FulfillShape
        <3>3. QED
            BY <1>1, <2>1, <3>1, <3>2
               DEF Current, AfterFlush, SameOrder, order, payment
    <2>7. CASE CreateIntent(w) \/ CancelLoaded(w)
               \/ \E full \in BOOLEAN : RefundLoaded(w, full)
        <3>1. CASE /\ q.op = "create" /\ r.op = "create" /\ q.pc = "commit" /\ q.o = r.o
                   /\ q.order.status = "PAYMENT_INITIATED" /\ q.payment = NewPayment
                   /\ issued' = issued
            BY <2>1, <3>1 DEF Current, Fulfilling, order
        <3>2. CASE /\ q.op = "cancel" /\ r.op = "cancel" /\ r.pc = "release"
                   /\ CanCancel(r.order) /\ q.pc = "commit" /\ q.o = r.o
                   /\ q.order.status = "CANCELLED"
            <4>1. order.status = "PAYMENT_INITIATED"
                BY <2>1, <3>2 DEF Current, Release, CanCancel
            <4>2. QED
                BY <3>2, <4>1 DEF Current, Fulfilling, Release, order
        <3>3. CASE /\ q.op = "refund" /\ r.op = "refund" /\ r.pc = "load_payment"
                   /\ CanRefundOrder(r.order) /\ CanRefundPayment(payment)
                   /\ q.pc = "commit" /\ q.o = r.o /\ q.order.status = "REFUNDED"
                   /\ q.payment.status \in {"REFUNDED", "PARTIALLY_REFUNDED"}
            <4>1. order.status \in {"PAID", "FULFILLED"} /\ payment.status = "CAPTURED"
                BY <2>1, <3>3 DEF Current, CanRefundOrder, CanRefundPayment
            <4>2. QED
                BY <3>3, <4>1 DEF Current, Fulfilling, order, payment
        <3>4. QED
            BY <1>0, <1>1, <2>7, <3>1, <3>2, <3>3, ReadyShape DEF payment
    <2>8. QED
        BY <1>3, <2>2, <2>3, <2>4, <2>5, <2>6, <2>7 DEF Serve
<1>4. CASE Fail(w)
    BY <1>1, <1>4 DEF Fail, RedisRaises, DatabaseRaises, CommitRaises, Crash
<1>5. QED
    BY <1>2, <1>3, <1>4

\* An authorization by the provider overtakes no request that relies on the
\* payment it has read.
LEMMA AuthorizedCurrent ==
    ASSUME NEW r, NEW order, NEW payment, NEW authorized, Current(r, order, payment),
           payment.status = "CREATED", authorized.status = "AUTHORIZED"
    PROVE  Current(r, order, authorized)
BY DEF Current

\* What is stored when a worker commits.
LEMMA StoredNext ==
    ASSUME LifeInv, NEW w \in Worker, Commit(w)
    PROVE  \E o \in Order :
              LET r == req[w] IN
              /\ o = r.o /\ Current(r, orders[o], payments[o]) /\ o \in issued
              /\ r.op \in {"create", "confirm", "cancel", "refund"} /\ r.pc = "commit"
              /\ r.order \in OrderRow /\ r.payment \in PaymentRow
              /\ orders' = [orders EXCEPT ![o] = r.order]
              /\ payments' = IF r.op = "cancel" THEN payments
                             ELSE [payments EXCEPT ![o] = r.payment]
<1> DEFINE r == req[w]
<1>1. TypeInv /\ r.pc = "commit"
    BY DEF LifeInv, Commit
<1>2. r \in Active /\ r.o \in Order /\ r.order \in OrderRow /\ r.payment \in PaymentRow
    BY <1>1, Serving
<1>3. PICK o \in Order : o = r.o
    BY <1>2
<1>4. r # Idle
    BY <1>1 DEF Idle
<1>5. Current(r, orders[o], payments[o]) /\ (r.op = "create" => o \in issued)
    BY <1>3, <1>4 DEF LifeInv
<1>6. r.op \in {"create", "confirm", "cancel", "refund"}
    BY <1>1, <1>2 DEF Active, StepsOf
<1>7. r.op # "create" => Stored(orders[o])
    BY <1>1, <1>5, <1>6 DEF Current, Fulfilling, AfterFlush, Stored
<1>8. o \in issued
    BY <1>5, <1>7 DEF LifeInv
<1>9. /\ orders' = [orders EXCEPT ![o] = r.order]
      /\ payments' = IF r.op = "cancel" THEN payments
                     ELSE [payments EXCEPT ![o] = r.payment]
    BY <1>3 DEF Commit, WritesPayment
<1>10. QED
    BY <1>1, <1>2, <1>3, <1>5, <1>6, <1>8, <1>9

LEMMA AtWorkOnOrder ==
    ASSUME TypeInv, NEW v \in Worker, req[v] # Idle
    PROVE  req[v].o \in Order
<1>1. req[v].op # "none"
    BY DEF TypeInv, Active
<1>2. QED
    BY <1>1, Serving

\* What a worker stores is under an order that no other worker serves.
LEMMA OthersCurrent ==
    ASSUME LifeInv, OneRequestPerOrder, NEW w \in Worker, NEW v \in Worker, v # w,
           Commit(w), req[v] # Idle
    PROVE  Current(req[v], orders'[req[v].o], payments'[req[v].o])
<1>1. PICK o \in Order :
         /\ o = req[w].o /\ req[w].pc = "commit"
         /\ orders' = [orders EXCEPT ![o] = req[w].order]
         /\ payments' = IF req[w].op = "cancel" THEN payments
                        ELSE [payments EXCEPT ![o] = req[w].payment]
    BY StoredNext
<1>2. req[w] # Idle
    BY <1>1 DEF Idle
<1>3. req[v].o # o
    BY <1>1, <1>2 DEF OneRequestPerOrder
<1>4. orders \in [Order -> OrderRow] /\ payments \in [Order -> PaymentRow]
    BY DEF LifeInv, TypeInv, TypeOK
<1>5. req[v].o \in Order
    <2>1. TypeInv
        BY DEF LifeInv
    <2>2. QED
        BY <2>1, AtWorkOnOrder
<1>6. /\ orders'[req[v].o] = orders[req[v].o]
      /\ payments'[req[v].o] = payments[req[v].o]
    BY <1>1, <1>3, <1>4, <1>5
<1>7. QED
    BY <1>6 DEF LifeInv

LEMMA LifeNext == LifeInv /\ OneRequestPerOrder /\ [Next]_vars => LifeInv'
<1> SUFFICES ASSUME LifeInv, OneRequestPerOrder, [Next]_vars PROVE LifeInv'
    OBVIOUS
<1>1. TypeInv /\ TypeInv'
    BY TypeNext DEF LifeInv
<1>2. ASSUME NEW w \in Worker, Arrive(w) \/ Serve(w) \/ Fail(w) PROVE LifeInv'
    <2>1. CASE Commit(w)
        <3>1. PICK o \in Order :
                 /\ Current(req[w], orders[o], payments[o]) /\ o \in issued
                 /\ req[w].op \in {"create", "confirm", "cancel", "refund"}
                 /\ req[w].pc = "commit"
                 /\ orders' = [orders EXCEPT ![o] = req[w].order]
            BY <2>1, StoredNext
        <3>2. req[w].order.status \notin {"PENDING", "SEATS_RESERVED"}
            BY <3>1 DEF Current, Fulfilling, AfterFlush
        <3>3. orders \in [Order -> OrderRow]
            BY <1>1 DEF TypeInv, TypeOK
        <3>4. /\ issued' = issued /\ req'[w] = Idle
              /\ \A v \in Worker \ {w} : req'[v] = req[v]
            BY <1>1, <1>2, <2>1, NextRequest, OwnRequest DEF Commit, history
        <3>5. Idle.op # "create"
            BY DEF Idle
        <3>6. \A p \in Order : /\ orders'[p].status \notin {"PENDING", "SEATS_RESERVED"}
                               /\ p \notin issued' => ~Stored(orders'[p])
            BY <3>1, <3>2, <3>3, <3>4 DEF LifeInv
        <3>7. ASSUME NEW v \in Worker, req'[v] # Idle
              PROVE  Current(req'[v], orders'[req'[v].o], payments'[req'[v].o])
            BY <2>1, <3>4, <3>7, OthersCurrent
        <3>8. \A v \in Worker : req'[v].op = "create" => req'[v].o \in issued'
            BY <3>4, <3>5 DEF LifeInv
        <3>9. QED
            BY <1>1, <3>6, <3>7, <3>8 DEF LifeInv, Stored
    <2>2. CASE ~Commit(w)
        <3>1. orders' = orders /\ payments' = payments
            BY <1>2, <2>2, OnlyCommitStores
        <3>2. issued \subseteq issued'
            BY <1>2, IssuedGrows
        <3>3. \A v \in Worker \ {w} : req'[v] = req[v]
            BY <1>1, <1>2, OwnRequest
        <3>4. /\ req'[w] # Idle => Current(req'[w], orders[req'[w].o], payments[req'[w].o])
              /\ req'[w].op = "create" => req'[w].o \in issued'
            BY <1>2, <2>2, StillCurrent
        <3>5. \A p \in Order : /\ orders'[p].status \notin {"PENDING", "SEATS_RESERVED"}
                               /\ p \notin issued' => ~Stored(orders'[p])
            BY <3>1, <3>2 DEF LifeInv
        <3>6. ASSUME NEW v \in Worker
              PROVE  /\ req'[v] # Idle =>
                           Current(req'[v], orders'[req'[v].o], payments'[req'[v].o])
                     /\ req'[v].op = "create" => req'[v].o \in issued'
            BY <3>1, <3>2, <3>3, <3>4 DEF LifeInv
        <3>7. QED
            BY <1>1, <3>5, <3>6 DEF LifeInv, Stored
    <2>3. QED
        BY <2>1, <2>2
<1>3. ASSUME NEW o \in Order, AuthorizePayment(o) PROVE LifeInv'
    <2> DEFINE row == Authorize(payments[o])
    <2>1. payments \in [Order -> PaymentRow]
        BY <1>1 DEF TypeInv, TypeOK
    <2>2. row.status = "AUTHORIZED" /\ payments[o].status = "CREATED"
        BY <1>3, <2>1, MovePaymentStatus DEF Authorize, AuthorizePayment, CanAuthorize
    <2>3. UNCHANGED <<orders, req, issued>> /\ payments' = [payments EXCEPT ![o] = row]
        BY <1>3 DEF AuthorizePayment, history
    <2> HIDE DEF row
    <2>4. ASSUME NEW w \in Worker, req[w] # Idle
          PROVE  Current(req[w], orders[req[w].o], payments'[req[w].o])
        <3>1. Current(req[w], orders[req[w].o], payments[req[w].o])
            BY <2>4 DEF LifeInv
        <3>2. CASE req[w].o = o
            <4>1. payments'[req[w].o] = row
                BY <2>1, <2>3, <3>2
            <4>2. Current(req[w], orders[req[w].o], row)
                BY <2>2, <3>1, <3>2, AuthorizedCurrent
            <4>3. QED
                BY <4>1, <4>2
        <3>3. CASE req[w].o # o
            <4>1. payments'[req[w].o] = payments[req[w].o]
                BY <2>1, <2>3, <3>3, <2>4, <1>1, Serving DEF Idle
            <4>2. QED
                BY <3>1, <4>1
        <3>4. QED
            BY <3>2, <3>3
    <2>5. QED
        BY <1>1, <2>3, <2>4 DEF LifeInv, Stored
<1>4. ASSUME (\E s \in Seat : ExpireHold(s)) \/ UNCHANGED vars PROVE LifeInv'
    <2>1. UNCHANGED <<orders, payments, req, issued>>
        BY <1>4 DEF ExpireHold, vars, database, history
    <2>2. QED
        BY <1>1, <2>1 DEF LifeInv, Stored
<1>5. QED
    BY <1>2, <1>3, <1>4 DEF Next

-----------------------------------------------------------------------------
(* Every step is a step of the two state machines, or none                 *)

\* Storing a row of the order table, or of the payment table, changes the
\* status of one order, or of one payment.
LEMMA OrderStatusStored ==
    ASSUME NEW rows \in [Order -> OrderRow], NEW x \in Order, NEW row \in OrderRow
    PROVE  [o \in Order |-> [rows EXCEPT ![x] = row][o].status]
              = [[o \in Order |-> rows[o].status] EXCEPT ![x] = row.status]
OBVIOUS

LEMMA PaymentStatusStored ==
    ASSUME NEW rows \in [Order -> PaymentRow], NEW x \in Order, NEW row \in PaymentRow
    PROVE  [o \in Order |-> [rows EXCEPT ![x] = row][o].status]
              = [[o \in Order |-> rows[o].status] EXCEPT ![x] = row.status]
OBVIOUS

OrderStatuses == [o \in Order |-> orders[o].status]
PaymentStatuses == [o \in Order |-> payments[o].status]

LEMMA CommitSimulates ==
    ASSUME LifeInv, NEW w \in Worker, Commit(w)
    PROVE  Lifecycle!Next
<1> DEFINE r == req[w]
<1>1. PICK o \in Order :
         /\ Current(r, orders[o], payments[o])
         /\ r.op \in {"create", "confirm", "cancel", "refund"} /\ r.pc = "commit"
         /\ r.order \in OrderRow /\ r.payment \in PaymentRow
         /\ orders' = [orders EXCEPT ![o] = r.order]
         /\ payments' = IF r.op = "cancel" THEN payments
                        ELSE [payments EXCEPT ![o] = r.payment]
    BY StoredNext
<1>2. orders \in [Order -> OrderRow] /\ payments \in [Order -> PaymentRow]
    BY DEF LifeInv, TypeInv, TypeOK
<1>3. OrderStatuses' = [OrderStatuses EXCEPT ![o] = r.order.status]
    BY <1>1, <1>2, OrderStatusStored DEF OrderStatuses
<1>4. PaymentStatuses' = IF r.op = "cancel" THEN PaymentStatuses
                         ELSE [PaymentStatuses EXCEPT ![o] = r.payment.status]
    BY <1>1, <1>2, PaymentStatusStored DEF PaymentStatuses
<1>5. OrderStatuses[o] = orders[o].status /\ PaymentStatuses[o] = payments[o].status
    BY DEF OrderStatuses, PaymentStatuses
<1>6. CASE r.op = "create"
    <2>1. /\ OrderStatuses[o] = "ABSENT" /\ r.order.status = "PAYMENT_INITIATED"
          /\ r.payment.status = "CREATED"
        BY <1>1, <1>5, <1>6 DEF Current, Stored, NewPayment
    <2>2. Lifecycle!Place(o)
        BY <1>3, <1>4, <1>6, <2>1 DEF Lifecycle!Place, OrderStatuses, PaymentStatuses
    <2>3. QED
        BY <2>2 DEF Lifecycle!Next
<1>7. CASE r.op = "confirm"
    <2>1. /\ OrderStatuses[o] = "PAYMENT_INITIATED" /\ PaymentStatuses[o] = "AUTHORIZED"
          /\ r.order.status = "PAID" /\ r.payment.status = "CAPTURED"
        BY <1>1, <1>5, <1>7 DEF Current, Fulfilling, AfterFlush
    <2>2. Lifecycle!Pay(o)
        BY <1>3, <1>4, <1>7, <2>1 DEF Lifecycle!Pay, OrderStatuses, PaymentStatuses
    <2>3. QED
        BY <2>2 DEF Lifecycle!Next
<1>8. CASE r.op = "cancel"
    <2>1. OrderStatuses[o] = "PAYMENT_INITIATED" /\ r.order.status = "CANCELLED"
        BY <1>1, <1>5, <1>8 DEF Current
    <2>2. Lifecycle!CancelOrder(o)
        BY <1>3, <1>4, <1>8, <2>1 DEF Lifecycle!CancelOrder, OrderStatuses, PaymentStatuses
    <2>3. QED
        BY <2>2 DEF Lifecycle!Next
<1>9. CASE r.op = "refund"
    <2>1. /\ OrderStatuses[o] \in {"PAID", "FULFILLED"} /\ PaymentStatuses[o] = "CAPTURED"
          /\ r.order.status = "REFUNDED"
          /\ r.payment.status \in {"REFUNDED", "PARTIALLY_REFUNDED"}
        BY <1>1, <1>5, <1>9 DEF Current
    <2>2. Lifecycle!Refund(o)
        BY <1>3, <1>4, <1>9, <2>1 DEF Lifecycle!Refund, OrderStatuses, PaymentStatuses
    <2>3. QED
        BY <2>2 DEF Lifecycle!Next
<1>10. QED
    BY <1>1, <1>6, <1>7, <1>8, <1>9

LEMMA AuthorizationSimulates ==
    ASSUME LifeInv, NEW o \in Order, AuthorizePayment(o)
    PROVE  Lifecycle!Next
<1> DEFINE row == Authorize(payments[o])
<1>1. payments \in [Order -> PaymentRow] /\ payments[o] \in PaymentRow
    BY DEF LifeInv, TypeInv, TypeOK
<1>2. row \in PaymentRow /\ row.status = "AUTHORIZED" /\ payments[o].status = "CREATED"
    BY <1>1, MovePaymentStatus, MovePaymentType
       DEF Authorize, AuthorizePayment, CanAuthorize, PaymentStatus
<1>3. orders' = orders /\ payments' = [payments EXCEPT ![o] = row]
    BY DEF AuthorizePayment
<1> HIDE DEF row
<1>4. PaymentStatuses' = [PaymentStatuses EXCEPT ![o] = "AUTHORIZED"]
    BY <1>1, <1>2, <1>3, PaymentStatusStored DEF PaymentStatuses
<1>5. Lifecycle!AuthorizePayment(o)
    BY <1>2, <1>3, <1>4 DEF Lifecycle!AuthorizePayment, PaymentStatuses
<1>6. QED
    BY <1>5 DEF Lifecycle!Next

\* However calls fail, whenever holds expire and wherever workers are killed,
\* as long as no two of them serve the same order they change orders and
\* payments only as the state machines in models.py allow, each request in
\* one atomic step: what a handler stores is the next state of what it has
\* read (unit_of_work.py:53-60, handlers.py).  The steps between the reads
\* and the commit are stuttering, and steps for other orders may come between.
THEOREM SeparateRequestsFollowLifecycle ==
    Spec /\ []OneRequestPerOrder => ImplementsLifecycle
<1>1. Init => Lifecycle!Init
    BY DEF Init, Lifecycle!Init, NoOrderRow, NoPaymentRow
<1>2. LifeInv /\ [Next]_vars => [Lifecycle!Next]_(Lifecycle!lifecycleVars)
    <2> SUFFICES ASSUME LifeInv, [Next]_vars
                 PROVE  Lifecycle!Next \/ UNCHANGED Lifecycle!lifecycleVars
        OBVIOUS
    <2>1. ASSUME orders' = orders, payments' = payments
          PROVE  UNCHANGED Lifecycle!lifecycleVars
        BY <2>1 DEF Lifecycle!lifecycleVars
    <2>2. ASSUME NEW w \in Worker, Arrive(w) \/ Serve(w) \/ Fail(w)
          PROVE  Lifecycle!Next \/ UNCHANGED Lifecycle!lifecycleVars
        BY <2>1, <2>2, CommitSimulates, OnlyCommitStores
    <2>3. ASSUME (\E s \in Seat : ExpireHold(s)) \/ UNCHANGED vars
          PROVE  UNCHANGED Lifecycle!lifecycleVars
        BY <2>1, <2>3 DEF ExpireHold, vars, database
    <2>4. QED
        BY <2>2, <2>3, AuthorizationSimulates DEF Next
<1>3. Init => LifeInv
    BY LifeInit
<1>4. LifeInv /\ OneRequestPerOrder /\ [Next]_vars => LifeInv'
    BY LifeNext
<1>5. QED
    BY <1>1, <1>2, <1>3, <1>4, PTL DEF Spec, ImplementsLifecycle, Lifecycle!Spec

\* One worker alone is such a case: it serves one request after the other.
COROLLARY SoleWorkerFollowsLifecycle ==
    ASSUME SoleWorker
    PROVE  Spec => ImplementsLifecycle
<1>1. OneRequestPerOrder
    BY DEF SoleWorker, OneRequestPerOrder
<1>2. QED
    BY <1>1, SeparateRequestsFollowLifecycle, PTL

Machines == INSTANCE OrderLifecycleProofs WITH
    orderStatus   <- [o \in Order |-> orders[o].status],
    paymentStatus <- [o \in Order |-> payments[o].status]

\* What is proved of the state machines holds of the program: while no two
\* requests work on the same order, it and its payment match, cancellations
\* included, because PaymentMatchesOrder is an invariant of what they implement.
THEOREM SeparateRequestsMatch ==
    Spec /\ []OneRequestPerOrder => []PaymentMatchesOrder
<1>1. Spec /\ []OneRequestPerOrder => Lifecycle!Spec
    BY SeparateRequestsFollowLifecycle DEF ImplementsLifecycle
<1>2. Machines!Spec => []Machines!PaymentMatchesOrder
    BY Machines!LifecycleConsistent
<1>3. Lifecycle!Init <=> Machines!Init
    BY DEF Lifecycle!Init, Machines!Init
<1>4. [Lifecycle!Next]_(Lifecycle!lifecycleVars) <=> [Machines!Next]_(Machines!lifecycleVars)
    BY DEF Lifecycle!Next, Machines!Next, Lifecycle!lifecycleVars, Machines!lifecycleVars,
       Lifecycle!Place, Lifecycle!AuthorizePayment, Lifecycle!Pay, Lifecycle!Fulfill, Lifecycle!CancelOrder, Lifecycle!Refund,
       Machines!Place, Machines!AuthorizePayment, Machines!Pay, Machines!Fulfill, Machines!CancelOrder, Machines!Refund
<1>5. Machines!PaymentMatchesOrder <=> PaymentMatchesOrder
    BY DEF PaymentMatchesOrder, Lifecycle!PaymentMatchesOrder, Machines!PaymentMatchesOrder
<1>6. QED
    BY <1>1, <1>2, <1>3, <1>4, <1>5, PTL DEF Lifecycle!Spec, Machines!Spec

-----------------------------------------------------------------------------
(* One Ticketmaster order for an order                                     *)

(* Two confirmations of one order may both get past the provider; the      *)
(* locks of the rows they flush when the plan is read admit one at a time. *)
LockInv ==
    /\ TypeInv
    /\ \A o \in Order, v, w \in Worker : Flushed(v, o) /\ Flushed(w, o) => v = w

\* Only reading the plan takes the locks.
LEMMA OnlyLoadPlanFlushes ==
    ASSUME TypeInv, NEW w \in Worker, Arrive(w) \/ Serve(w) \/ Fail(w),
           ~LoadPlan(w), NEW o \in Order, Flushed(w, o)'
    PROVE  Flushed(w, o)
<1> DEFINE r == req[w]
           q == req'[w]
<1>1. q.op = "confirm" /\ q.pc \in AfterFlush /\ q.o = o
    BY DEF Flushed
<1>2. ~Finish(w)
    BY <1>1, NextRequest DEF Idle
<1>3. Serve(w) /\ ~Commit(w)
    BY <1>1, <1>2, ArriveShape DEF AfterFlush, Fail, RedisRaises, DatabaseRaises,
       CommitRaises, Crash, Commit
<1>4. CASE \/ AcquireHold(w) \/ UndoHold(w) \/ GetHold(w) \/ DeleteHold(w)
           \/ LoadPayment(w) \/ CheckKey(w) \/ RaiseDeclined(w)
    <2>1. /\ q.op = r.op /\ SameOrder(q, r)
          /\ \/ r.pc \in Before /\ q.pc \in Before
             \/ r.pc \in Release /\ q.pc \in Release
        BY <1>2, <1>4, HoldsShape
    <2>2. r.pc \in Release
        BY <1>1, <2>1 DEF AfterFlush, Before
    <2>3. QED
        BY <1>1, <2>1, <2>2 DEF Flushed, AfterFlush, Release, SameOrder
<1>5. CASE \E p \in Order : ConfirmIntent(w, p)
    BY <1>1, <1>2, <1>5, ConfirmIntentShape DEF AfterFlush
<1>6. CASE CreateOffer(w) \/ SetOffer(w) \/ AcceptOffer(w) \/ SetAccept(w)
              \/ FinishFulfillment(w)
    <2>1. q.op = r.op /\ SameOrder(q, r)
        BY <1>2, <1>6, FulfillShape
    <2>2. r.op = "confirm" /\ r.pc \in AfterFlush
        BY <1>6 DEF CreateOffer, SetOffer, AcceptOffer, SetAccept, FinishFulfillment,
           AllReleased, AtStep, AfterFlush
    <2>3. QED
        BY <1>1, <2>1, <2>2 DEF Flushed, SameOrder
<1>7. CASE CreateIntent(w) \/ CancelLoaded(w) \/ \E full \in BOOLEAN : RefundLoaded(w, full)
    BY <1>1, <1>2, <1>7, ReadyShape
<1>8. QED
    BY <1>3, <1>4, <1>5, <1>6, <1>7 DEF Serve

LEMMA LockInit == Init => LockInv
<1> SUFFICES ASSUME Init PROVE LockInv
    OBVIOUS
<1>1. \A w \in Worker, o \in Order : ~Flushed(w, o)
    BY DEF Init, Flushed, Idle
<1>2. QED
    BY <1>1, TypeInit DEF LockInv

LEMMA LockNext == LockInv /\ [Next]_vars => LockInv'
<1> SUFFICES ASSUME LockInv, [Next]_vars PROVE LockInv'
    OBVIOUS
<1>1. TypeInv /\ TypeInv'
    BY TypeNext DEF LockInv
<1>2. ASSUME NEW w \in Worker, Arrive(w) \/ Serve(w) \/ Fail(w) PROVE LockInv'
    <2>1. \A v \in Worker \ {w} : req'[v] = req[v]
        BY <1>1, <1>2, OwnRequest
    <2>2. \A v \in Worker \ {w}, o \in Order : Flushed(v, o)' <=> Flushed(v, o)
        BY <2>1 DEF Flushed
    <2>3. ASSUME NEW o \in Order, NEW v \in Worker \ {w}, Flushed(v, o), Flushed(w, o)'
          PROVE  FALSE
        <3>1. CASE LoadPlan(w)
            <4>1. req'[w].o = req[w].o /\ RowFree(w, req[w].o)
                BY <1>1, <3>1, FulfillShape DEF LoadPlan, SameOrder, Finish, Goto,
                   NextRequest, AtStep, Flushed
            <4>2. QED
                BY <2>3, <4>1 DEF RowFree, Flushed
        <3>2. CASE ~LoadPlan(w)
            BY <1>1, <1>2, <2>3, <3>2, OnlyLoadPlanFlushes DEF LockInv
        <3>3. QED
            BY <3>1, <3>2
    <2>4. QED
        BY <1>1, <2>2, <2>3 DEF LockInv
<1>3. ASSUME \/ \E s \in Seat : ExpireHold(s)
             \/ \E o \in Order : AuthorizePayment(o)
             \/ UNCHANGED vars
      PROVE  LockInv'
    <2>1. UNCHANGED req
        BY <1>3 DEF ExpireHold, AuthorizePayment, vars
    <2>2. QED
        BY <1>1, <2>1 DEF LockInv, Flushed
<1>4. QED
    BY <1>2, <1>3 DEF Next

(* An order made at Ticketmaster is remembered by tm:offer, or its         *)
(* confirmation is about to store that key and keeps every other one away. *)
Ordering(w, o) == AtStep(w, "confirm", "offer_set") /\ req[w].o = o

OnceInv ==
    /\ LockInv
    /\ \A o \in Order :
          /\ tmOrders[o] <= 1
          /\ tmOrders[o] > 0 => o \in offers \/ \E w \in Worker : Ordering(w, o)

\* Any other step makes no Ticketmaster order and leaves none behind.
LEMMA OnceKept ==
    ASSUME OnceInv, LockInv', NEW w \in Worker, tmOrders' = tmOrders,
           offers \subseteq offers', \A v \in Worker \ {w} : req'[v] = req[v],
           \A o \in Order : Ordering(w, o) => Ordering(w, o)' \/ o \in offers'
    PROVE  OnceInv'
<1>1. \A v \in Worker, o \in Order : Ordering(v, o) => Ordering(v, o)' \/ o \in offers'
    BY DEF Ordering, AtStep
<1>2. QED
    BY <1>1 DEF OnceInv

LEMMA CreateOfferOnce ==
    ASSUME OnceInv, LockInv', NEW w \in Worker, CreateOffer(w),
           \A v \in Worker \ {w} : req'[v] = req[v]
    PROVE  OnceInv'
<1> DEFINE r == req[w]
           moved == [r EXCEPT !.pc = "offer_set"]
<1>1. /\ TypeInv /\ r \in Request /\ r.o \in Order
      /\ r.op = "confirm" /\ r.pc = "offer" /\ offers' = offers
      /\ tmOrders \in [Order -> 0..MaxCalls]
    BY Serving DEF OnceInv, LockInv, TypeInv, TypeOK, CreateOffer, AtStep, redis
<1>2. PICK o \in Order : o = r.o
    BY <1>1
<1>3. \A p \in Order : ~Ordering(w, p)
    BY <1>1 DEF Ordering, AtStep
<1>4. CASE tmOrders' = tmOrders
    BY <1>1, <1>3, <1>4, OnceKept
<1>5. CASE /\ o \notin offers /\ req'[w] = moved
           /\ tmOrders' = [tmOrders EXCEPT ![o] = CountCall(tmOrders[o])]
    <2>1. moved.op = "confirm" /\ moved.pc = "offer_set" /\ moved.o = r.o
        BY <1>1 DEF Request
    <2>2. tmOrders[o] = 0
        <3>1. Flushed(w, o)
            BY <1>1, <1>2 DEF Flushed, AfterFlush
        <3>2. \A v \in Worker : Ordering(v, o) => Flushed(v, o)
            BY DEF Ordering, AtStep, Flushed, AfterFlush
        <3>3. \A v \in Worker : ~Ordering(v, o)
            BY <1>3, <3>1, <3>2 DEF OnceInv, LockInv
        <3>4. ~(tmOrders[o] > 0)
            BY <1>5, <3>3 DEF OnceInv
        <3>5. QED
            BY <1>1, <3>4
    <2>3. CountCall(0) = 1
        BY BoundAssumption DEF CountCall
    <2>4. \A p \in Order : tmOrders'[p] = IF p = o THEN 1 ELSE tmOrders[p]
        BY <1>1, <1>5, <2>2, <2>3
    <2>5. \A p \in Order : Ordering(w, p)' <=> p = o
        BY <1>2, <1>5, <2>1 DEF Ordering, AtStep
    <2>6. \A v \in Worker \ {w}, p \in Order : Ordering(v, p) => Ordering(v, p)'
        BY DEF Ordering, AtStep
    <2>7. ASSUME NEW p \in Order
          PROVE  /\ tmOrders'[p] <= 1
                 /\ tmOrders'[p] > 0 => p \in offers' \/ \E v \in Worker : Ordering(v, p)'
        <3>1. CASE p = o
            BY <2>4, <2>5, <3>1
        <3>2. CASE p # o
            BY <1>1, <1>3, <2>4, <2>6, <3>2 DEF OnceInv
        <3>3. QED
            BY <3>1, <3>2
    <2>8. QED
        BY <2>7 DEF OnceInv
<1>6. QED
    BY <1>1, <1>2, <1>4, <1>5, Rewritten DEF CreateOffer, Goto, OfferCached

LEMMA OnceNext ==
    ASSUME "redis" \notin MayRaise, ~Crashes
    PROVE  OnceInv /\ [Next]_vars => OnceInv'
<1> SUFFICES ASSUME OnceInv, [Next]_vars PROVE OnceInv'
    OBVIOUS
<1>1. TypeInv /\ LockInv'
    BY LockNext DEF OnceInv, LockInv
<1>2. ASSUME NEW w \in Worker, Arrive(w) \/ Serve(w) \/ Fail(w) PROVE OnceInv'
    <2>1. \A v \in Worker \ {w} : req'[v] = req[v]
        BY <1>1, <1>2, OwnRequest
    <2>2. CASE CreateOffer(w)
        BY <1>1, <2>1, <2>2, CreateOfferOnce
    <2>3. CASE SetOffer(w)
        <3>1. tmOrders' = tmOrders /\ offers' = offers \union {req[w].o}
            BY <2>3 DEF SetOffer, history
        <3>2. \A o \in Order : Ordering(w, o) => o \in offers'
            BY <3>1 DEF Ordering
        <3>3. QED
            BY <1>1, <2>1, <3>1, <3>2, OnceKept
    <2>4. CASE ~CreateOffer(w) /\ ~SetOffer(w)
        <3>1. UNCHANGED <<tmOrders, offers>> /\ req[w].pc # "offer_set"
            <4>1. CASE Arrive(w)
                BY <1>1, <4>1, ArriveShape DEF Idle
            <4>2. CASE Fail(w)
                BY <4>2 DEF Fail, RedisRaises, DatabaseRaises, CommitRaises, Crash,
                   redis, history
            <4>3. CASE Serve(w)
                BY <2>4, <4>3 DEF Serve, AcquireHold, UndoHold, CreateIntent,
                   LoadPayment, CheckKey, ConfirmIntent, LoadPlan, AcceptOffer,
                   SetAccept, GetHold, DeleteHold, RaiseDeclined, FinishFulfillment,
                   CancelLoaded, RefundLoaded, Commit, AllReleased, AtStep, redis,
                   history
            <4>4. QED
                BY <1>2, <4>1, <4>2, <4>3
        <3>2. \A o \in Order : ~Ordering(w, o)
            BY <3>1 DEF Ordering, AtStep
        <3>3. QED
            BY <1>1, <2>1, <3>1, <3>2, OnceKept
    <2>5. QED
        BY <2>2, <2>3, <2>4
<1>3. ASSUME \/ \E s \in Seat : ExpireHold(s)
             \/ \E o \in Order : AuthorizePayment(o)
             \/ UNCHANGED vars
      PROVE  OnceInv'
    <2>1. UNCHANGED <<req, tmOrders, offers>>
        BY <1>3 DEF ExpireHold, AuthorizePayment, vars, redis, history
    <2>2. QED
        BY <1>1, <2>1 DEF OnceInv, Ordering, AtStep
<1>4. QED
    BY <1>2, <1>3 DEF Next

\* As long as Redis does not fail and no worker is killed, an order is ordered
\* at Ticketmaster at most once, however many workers confirm it at the same
\* time and with whichever intents: the check and the set of tm:offer are two
\* steps (ticketmaster.py:340-362), and the locks of the rows flushed before
\* them are what keeps another confirmation out of the gap.
THEOREM OneTicketmasterOrder ==
    ASSUME "redis" \notin MayRaise, ~Crashes
    PROVE  Spec => []TmOrderOnce
<1>1. Init => OnceInv
    BY LockInit DEF OnceInv, Init
<1>2. OnceInv /\ [Next]_vars => OnceInv'
    BY OnceNext
<1>3. OnceInv => TmOrderOnce
    BY DEF OnceInv, TmOrderOnce
<1>4. QED
    BY <1>1, <1>2, <1>3, PTL DEF Spec
=============================================================================
