------------------------- MODULE OrderServiceProofs -------------------------
(***************************************************************************)
(* Proofs about OrderService, for every set of workers, orders, seats and  *)
(* keys, every bound and every choice of failures.                         *)
(***************************************************************************)
EXTENDS OrderProperties, SequenceTheorems, TLAPS

USE OrderAssumption, KeyAssumption, BoundAssumption, SwitchAssumption

-----------------------------------------------------------------------------
(* Lemmas about the operators *)

\* The seats of a request are a sequence of seats.
LEMMA SeatListsAreSequences == ASSUME NEW seats \in SeatLists
                               PROVE  seats \in Seq(Seat)
<1>1. PICK n \in 0..MaxQuantity : seats \in [1..n -> Seat]
    BY DEF SeatLists
<1>2. n \in Nat
    BY <1>1
<1>3. QED
    BY <1>1, <1>2

\* A counter stays within its bound.
LEMMA CountUpType == ASSUME NEW n \in 0..MaxCopies
                     PROVE  CountUp(n) \in 0..MaxCopies /\ CountUp(n) > 0
BY DEF CountUp

LEMMA CountCallType == ASSUME NEW n \in 0..MaxCalls
                       PROVE  CountCall(n) \in 0..MaxCalls /\ CountCall(n) > 0
BY DEF CountCall

\* Moving an aggregate to a status of its enum keeps it a row.
LEMMA MoveOrderType == ASSUME NEW order \in OrderRow, NEW status \in OrderStatus
                       PROVE  MoveOrder(order, status) \in OrderRow
<1> DEFINE next == order.version + 1
<1>1. next \in Nat
    BY DEF OrderRow
<1> HIDE DEF next
<1>2. [order EXCEPT !.status = status, !.version = next] \in OrderRow
    BY <1>1 DEF OrderRow
<1>3. MoveOrder(order, status)
         = [order EXCEPT !.status = status, !.version = next]
    BY DEF next, MoveOrder
<1>4. QED
    BY <1>2, <1>3

LEMMA MovePaymentType == ASSUME NEW payment \in PaymentRow, NEW status \in PaymentStatus
                         PROVE  MovePayment(payment, status) \in PaymentRow
<1> DEFINE next == payment.version + 1
<1>1. next \in Nat
    BY DEF PaymentRow
<1> HIDE DEF next
<1>2. [payment EXCEPT !.status = status, !.version = next] \in PaymentRow
    BY <1>1 DEF PaymentRow
<1>3. MovePayment(payment, status)
         = [payment EXCEPT !.status = status, !.version = next]
    BY DEF next, MovePayment
<1>4. QED
    BY <1>2, <1>3

LEMMA IdleType == Idle \in Request
BY DEF Idle, Request, OrderRow, PaymentRow, NoOrderRow, NoPaymentRow, Steps

LEMMA CollectedType ==
    ASSUME TypeOK, NEW w \in Worker
    PROVE  Collected(w) \in [Event -> 0..MaxCopies]
BY CountUpType DEF TypeOK, Collected
-----------------------------------------------------------------------------
(* TypeOK is inductive *)

(* TypeOK alone is not inductive: a step that writes a row, a key or a     *)
(* hold needs the request to name an order, and until the provider is      *)
(* asked a confirmation carries a key.                                     *)

StepsOf(op) ==
    CASE op = "create"  -> {"hold", "undo", "commit"}
      [] op = "confirm" -> {"load_payment", "key", "provider", "plan"}
                              \union AfterFlush
      [] op = "decline" -> {"release", "release_del"}
      [] op = "cancel"  -> {"release", "release_del", "commit"}
      [] op = "refund"  -> {"load_payment", "commit"}
      [] OTHER          -> {}

CarriesKey(r) == r.op = "confirm" /\ r.pc \in {"load_payment", "key", "provider"}

Active == {r \in Request : /\ r.op # "none"
                           /\ r.pc \in StepsOf(r.op)
                           /\ r.o \in Order
                           /\ CarriesKey(r) => r.key \in Key}

TypeInv == TypeOK /\ req \in [Worker -> Active \union {Idle}]

\* A worker that is not idle serves a well-formed request.
LEMMA Serving ==
    ASSUME TypeInv, NEW w \in Worker, req[w].pc # "idle" \/ req[w].op # "none"
    PROVE  /\ req[w] \in Active
           /\ req[w].o \in Order
           /\ req[w].seats \in Seq(Seat)
           /\ req[w].i \in Nat \ {0}
           /\ req[w].order \in OrderRow
           /\ req[w].payment \in PaymentRow
<1>1. req[w] # Idle
    BY DEF Idle
<1>2. QED
    BY <1>1 DEF TypeInv, Active, Request

\* Ending a request, and moving it on, keep the workers' requests well-formed.
LEMMA FinishType ==
    ASSUME TypeInv, NEW w \in Worker, Finish(w)
    PROVE  /\ req' \in [Worker -> Active \union {Idle}]
           /\ req' \in [Worker -> Request]
BY IdleType DEF TypeInv, TypeOK, Finish

LEMMA MoveOnType ==
    ASSUME TypeInv, NEW w \in Worker, NEW r \in Active,
           req' = [req EXCEPT ![w] = r]
    PROVE  /\ req' \in [Worker -> Active \union {Idle}]
           /\ req' \in [Worker -> Request]
BY DEF TypeInv, TypeOK, Active

\* The next seat.
LEMMA AdvanceType ==
    ASSUME NEW r \in Active
    PROVE  [r EXCEPT !.i = r.i + 1] \in Active
<1> DEFINE next == r.i + 1
<1>1. next \in Nat \ {0}
    BY DEF Active, Request
<1> HIDE DEF next
<1>2. [r EXCEPT !.i = next] \in Active
    BY <1>1 DEF Active, Request, CarriesKey
<1>3. QED
    BY <1>2 DEF next

LEMMA TypeInit == Init => TypeInv
<1> SUFFICES ASSUME Init PROVE TypeInv
    OBVIOUS
<1>1. req \in [Worker -> Request] /\ req \in [Worker -> Active \union {Idle}]
    BY IdleType DEF Init
<1>2. orders \in [Order -> OrderRow] /\ payments \in [Order -> PaymentRow]
    BY DEF Init, OrderRow, PaymentRow, NoOrderRow, NoPaymentRow
<1>3. /\ outbox \in [Event -> 0..MaxCopies]
      /\ events \in [Worker -> [Event -> 0..MaxCopies]]
      /\ confirmed \in [Order -> [Key -> 0..MaxCalls]]
      /\ tmOrders \in [Order -> 0..MaxCalls]
    BY DEF Init
<1>4. QED
    BY <1>1, <1>2, <1>3 DEF Init, TypeInv, TypeOK

(* Each kind of step moves a well-formed request on to another.            *)

LEMMA GotoType ==
    ASSUME TypeInv, NEW w \in Worker, req[w] \in Active, NEW pc \in Steps,
           pc \in StepsOf(req[w].op),
           ~CarriesKey([req[w] EXCEPT !.pc = pc]) \/ CarriesKey(req[w]),
           Goto(w, pc)
    PROVE  /\ req' \in [Worker -> Active \union {Idle}]
           /\ req' \in [Worker -> Request]
<1>1. [req[w] EXCEPT !.pc = pc] \in Active
    BY DEF Active, Request, CarriesKey
<1>2. QED
    BY <1>1, MoveOnType DEF Goto

LEMMA NextSeatType ==
    ASSUME TypeInv, NEW w \in Worker, req[w] \in Active, NextSeat(w)
    PROVE  /\ req' \in [Worker -> Active \union {Idle}]
           /\ req' \in [Worker -> Request]
BY AdvanceType, MoveOnType DEF NextSeat

\* A request of the same handler on the same order, with other contents.
LEMMA MoveSeatsType ==
    ASSUME NEW r \in Active, NEW pc \in Steps, pc \in StepsOf(r.op),
           ~(r.op = "confirm" /\ pc \in {"load_payment", "key", "provider"}),
           NEW i \in Nat \ {0}, NEW seats \in Seq(Seat)
    PROVE  /\ [r EXCEPT !.pc = pc, !.i = i] \in Active
           /\ [r EXCEPT !.pc = pc, !.i = i, !.seats = seats] \in Active
BY DEF Active, Request, CarriesKey

LEMMA RewriteType ==
    ASSUME NEW r \in Active, NEW pc \in Steps, pc \in StepsOf(r.op),
           ~(r.op = "confirm" /\ pc \in {"load_payment", "key", "provider"}),
           NEW i \in Nat \ {0}, 
           NEW order \in OrderRow, NEW payment \in PaymentRow
    PROVE  /\ [r EXCEPT !.pc = pc, !.i = i, !.order = order] \in Active
           /\ [r EXCEPT !.pc = pc, !.order = order, !.payment = payment] \in Active
           /\ [r EXCEPT !.pc = pc, !.i = i, !.order = order,
                        !.payment = payment] \in Active
           /\ [r EXCEPT !.pc = pc, !.key = NoKey, !.order = order,
                        !.payment = payment] \in Active
BY DEF Active, Request, CarriesKey

LEMMA CreateOrderType ==
    ASSUME TypeInv, NEW w \in Worker, NEW o \in Order, NEW seats \in SeatLists,
           HandleCreateOrder(w, o, seats)
    PROVE  TypeInv'
<1> DEFINE r == [Idle EXCEPT !.op = "create", !.pc = "hold", !.o = o,
                             !.seats = seats, !.order = NewOrder]
<1>1. NewOrder \in OrderRow
    BY DEF NewOrder, OrderRow, OrderStatus
<1>2. r \in Active
    BY <1>1, IdleType, SeatListsAreSequences
       DEF Active, Request, CarriesKey, StepsOf, Idle, Steps
<1>3. req' = [req EXCEPT ![w] = r]
    BY DEF HandleCreateOrder
<1>4. req' \in [Worker -> Active \union {Idle}] /\ req' \in [Worker -> Request]
    BY <1>2, <1>3, MoveOnType
<1>5. QED
    BY <1>4 DEF HandleCreateOrder, TypeInv, TypeOK, database, redis, memory

LEMMA AcquireHoldType ==
    ASSUME TypeInv, NEW w \in Worker, AcquireHold(w)
    PROVE  TypeInv'
<1> DEFINE r == req[w]
           acquired == SubSeq(r.seats, 1, r.i - 1)
           undo == [r EXCEPT !.pc = "undo", !.i = 1, !.seats = acquired]
<1>1. /\ r \in Active
      /\ r.o \in Order /\ r.seats \in Seq(Seat) /\ r.i \in 1..Len(r.seats)
      /\ r.op = "create"
    BY Serving DEF AcquireHold, AtStep
<1>2. r.seats[r.i] \in Seat
    BY <1>1
<1>3. CASE HoldFree(r.seats[r.i])
    <2>1. holds' \in [Seat -> Order \union {NoOrder}]
        BY <1>1, <1>2, <1>3 DEF AcquireHold, TypeInv, TypeOK
    <2>2. req' \in [Worker -> Active \union {Idle}] /\ req' \in [Worker -> Request]
        BY <1>1, <1>3, NextSeatType DEF AcquireHold
    <2>3. QED
        BY <2>1, <2>2 DEF AcquireHold, TypeInv, TypeOK, database, memory, history
<1>4. CASE ~HoldFree(r.seats[r.i])
    <2>1. acquired \in Seq(Seat)
        BY <1>1
    <2>2. req' = [req EXCEPT ![w] = undo]
        BY <1>4 DEF AcquireHold
    <2> HIDE DEF acquired
    <2>3. undo \in Active
        <3>1. "undo" \in Steps /\ "undo" \in StepsOf(r.op) /\ 1 \in Nat \ {0}
            BY <1>1 DEF StepsOf, Steps
        <3>2. QED
            BY <1>1, <2>1, <3>1, MoveSeatsType
    <2>4. req' \in [Worker -> Active \union {Idle}] /\ req' \in [Worker -> Request]
        BY <2>2, <2>3, MoveOnType
    <2>5. QED
        BY <1>4, <2>4 DEF AcquireHold, TypeInv, TypeOK, database, memory, history
<1>5. QED
    BY <1>3, <1>4

LEMMA UndoHoldType ==
    ASSUME TypeInv, NEW w \in Worker, UndoHold(w)
    PROVE  TypeInv'
<1> DEFINE r == req[w]
<1>1. r \in Active /\ r.seats \in Seq(Seat) /\ r.i \in Nat \ {0}
    BY Serving DEF UndoHold, AtStep
<1>2. CASE r.i <= Len(r.seats)
    <2>1. r.seats[r.i] \in Seat
        BY <1>1, <1>2
    <2>2. holds' \in [Seat -> Order \union {NoOrder}]
        BY <1>2, <2>1 DEF UndoHold, TypeInv, TypeOK
    <2>3. req' \in [Worker -> Active \union {Idle}] /\ req' \in [Worker -> Request]
        BY <1>1, <1>2, NextSeatType DEF UndoHold
    <2>4. QED
        BY <2>2, <2>3 DEF UndoHold, TypeInv, TypeOK, database, memory, history
<1>3. CASE ~(r.i <= Len(r.seats))
    BY <1>3, FinishType DEF UndoHold, TypeInv, TypeOK, database, memory, history
<1>4. QED
    BY <1>2, <1>3

LEMMA CreateIntentType ==
    ASSUME TypeInv, NEW w \in Worker, CreateIntent(w)
    PROVE  TypeInv'
<1> DEFINE r == req[w]
           order == IF r.seats = <<>> THEN r.order ELSE ReserveSeats(r.order, r.seats)
           initiated == InitiatePayment(order)
           next == [r EXCEPT !.pc = "commit", !.i = 1, !.order = initiated,
                             !.payment = NewPayment]
<1>1. /\ r \in Active /\ r.op = "create" /\ r.o \in Order
      /\ r.seats \in Seq(Seat) /\ r.order \in OrderRow
    BY Serving DEF CreateIntent, AtStep
<1>2. intents' \in [Worker -> SUBSET Order]
    BY <1>1 DEF CreateIntent, TypeInv, TypeOK
<1>3. CASE CanInitiatePayment(order)
    <2>1. MoveOrder(r.order, "SEATS_RESERVED") \in OrderRow
        BY <1>1, MoveOrderType DEF OrderStatus
    <2>2. order \in OrderRow
        BY <1>1, <2>1 DEF ReserveSeats, OrderRow
    <2>3. req' = [req EXCEPT ![w] = next]
        BY <1>3 DEF CreateIntent
    <2> HIDE DEF order
    <2>4. initiated \in OrderRow
        BY <2>2, MoveOrderType DEF InitiatePayment, OrderStatus
    <2>5. NewPayment \in PaymentRow
        BY DEF NewPayment, PaymentRow, PaymentStatus
    <2> HIDE DEF initiated
    <2>6. next \in Active
        <3>1. "commit" \in Steps /\ "commit" \in StepsOf(r.op) /\ 1 \in Nat \ {0}
            BY <1>1 DEF StepsOf, Steps
        <3>2. QED
            BY <1>1, <2>4, <2>5, <3>1, RewriteType
    <2>7. req' \in [Worker -> Active \union {Idle}] /\ req' \in [Worker -> Request]
        BY <2>3, <2>6, MoveOnType
    <2>8. QED
        BY <1>2, <2>7 DEF CreateIntent, TypeInv, TypeOK, database, redis, history
<1>4. CASE ~CanInitiatePayment(order)
    <2>1. Finish(w)
        BY <1>4 DEF CreateIntent
    <2>2. QED
        BY <1>2, <2>1, FinishType
           DEF CreateIntent, TypeInv, TypeOK, database, redis, history
<1>5. QED
    BY <1>3, <1>4

-----------------------------------------------------------------------------
(* handle_confirm_payment, handle_cancel_order and handle_refund_order     *)

LEMMA LoadOrderType ==
    ASSUME TypeInv, NEW w \in Worker, NEW o \in Order, NEW op, NEW pc, NEW k,
           \/ op = "confirm" /\ pc = "load_payment" /\ k \in Key
           \/ op = "cancel" /\ pc = "release" /\ k = NoKey
           \/ op = "refund" /\ pc = "load_payment" /\ k = NoKey,
           LoadOrder(w, o, op, pc, k)
    PROVE  /\ req' \in [Worker -> Active \union {Idle}]
           /\ req' \in [Worker -> Request]
<1> DEFINE row == orders[o]
           r == [Idle EXCEPT !.op = op, !.pc = pc, !.o = o, !.key = k,
                             !.order = row, !.seats = row.seats]
<1>1. row \in OrderRow /\ row.seats \in Seq(Seat)
    BY DEF TypeInv, TypeOK, OrderRow
<1>2. req' = [req EXCEPT ![w] = r]
    BY DEF LoadOrder
<1> HIDE DEF row
<1>3. r \in Active
    BY <1>1, IdleType DEF Active, Request, CarriesKey, StepsOf, Idle, Steps
<1>4. QED
    BY <1>2, <1>3, MoveOnType

LEMMA HandleOthersType ==
    ASSUME TypeInv, NEW w \in Worker, NEW o \in Order,
           \/ \E k \in Key : HandleConfirmPayment(w, o, k)
           \/ HandleCancelOrder(w, o)
           \/ HandleRefundOrder(w, o)
    PROVE  TypeInv'
<1>1. req' \in [Worker -> Active \union {Idle}] /\ req' \in [Worker -> Request]
    BY LoadOrderType DEF HandleConfirmPayment, HandleCancelOrder, HandleRefundOrder
<1>2. UNCHANGED <<database, redis, memory, history>>
    BY DEF HandleConfirmPayment, HandleCancelOrder, HandleRefundOrder
<1>3. QED
    BY <1>1, <1>2 DEF TypeInv, TypeOK, database, redis, memory, history

LEMMA LoadPaymentType ==
    ASSUME TypeInv, NEW w \in Worker, LoadPayment(w)
    PROVE  TypeInv'
<1> DEFINE r == req[w]
           row == payments[r.o]
           next == [r EXCEPT !.pc = "key", !.payment = row]
<1>1. r \in Active /\ r.o \in Order /\ r.op = "confirm" /\ r.pc = "load_payment"
    BY Serving DEF LoadPayment, AtStep
<1>2. CASE Stored(row)
    <2>1. row \in PaymentRow
        BY <1>1 DEF TypeInv, TypeOK
    <2>2. req' = [req EXCEPT ![w] = next]
        BY <1>2 DEF LoadPayment
    <2> HIDE DEF row
    <2>3. next \in Active
        BY <1>1, <2>1 DEF Active, Request, CarriesKey, StepsOf, Steps
    <2>4. QED
        BY <2>2, <2>3, MoveOnType
           DEF LoadPayment, TypeInv, TypeOK, database, redis, memory, history
<1>3. CASE ~Stored(row)
    BY <1>3, FinishType
       DEF LoadPayment, TypeInv, TypeOK, database, redis, memory, history
<1>4. QED
    BY <1>2, <1>3

LEMMA CheckKeyType ==
    ASSUME TypeInv, NEW w \in Worker, CheckKey(w)
    PROVE  TypeInv'
<1> DEFINE r == req[w]
<1>1. /\ r \in Active /\ r.o \in Order /\ r.key \in Key
      /\ r.op = "confirm" /\ CarriesKey(r)
    BY Serving DEF CheckKey, AtStep, CarriesKey, Active
<1>2. confirmKeys' \subseteq Order \X Key
    BY <1>1 DEF CheckKey, TypeInv, TypeOK
<1>3. CASE Goto(w, "provider")
    <2>1. "provider" \in Steps /\ "provider" \in StepsOf(r.op)
        BY <1>1 DEF StepsOf, Steps
    <2>2. QED
        BY <1>1, <1>2, <1>3, <2>1, GotoType
           DEF CheckKey, TypeInv, TypeOK, database, memory, history
<1>4. CASE Finish(w)
    BY <1>2, <1>4, FinishType
       DEF CheckKey, TypeInv, TypeOK, database, memory, history
<1>5. QED
    BY <1>3, <1>4 DEF CheckKey

LEMMA ConfirmIntentType ==
    ASSUME TypeInv, NEW w \in Worker, NEW p \in Order, ConfirmIntent(w, p)
    PROVE  TypeInv'
<1> DEFINE r == req[w]
           paid == ConfirmPayment(r.order)
           captured == Capture(r.payment)
           declined == [r EXCEPT !.op = "decline", !.pc = "release", !.key = NoKey]
           accepted == [r EXCEPT !.pc = "plan", !.key = NoKey, !.order = paid,
                                 !.payment = captured]
<1>1. /\ r \in Active /\ r.o \in Order /\ r.key \in Key /\ r.op = "confirm"
      /\ r.order \in OrderRow /\ r.payment \in PaymentRow
    BY Serving DEF ConfirmIntent, AtStep, CarriesKey, Active
<1>2. covered' \subseteq Order
    BY <1>1 DEF ConfirmIntent, TypeInv, TypeOK
<1>3. confirmed' \in [Order -> [Key -> 0..MaxCalls]]
    <2> DEFINE count == CountCall(confirmed[r.o][r.key])
    <2>1. confirmed \in [Order -> [Key -> 0..MaxCalls]]
        BY DEF TypeInv, TypeOK
    <2>2. count \in 0..MaxCalls
        BY <1>1, <2>1, CountCallType
    <2>3. \/ confirmed' = confirmed
          \/ confirmed' = [confirmed EXCEPT ![r.o][r.key] = count]
        BY DEF ConfirmIntent
    <2> HIDE DEF count
    <2>4. QED
        BY <1>1, <2>1, <2>2, <2>3
<1>4. req' \in [Worker -> Active \union {Idle}] /\ req' \in [Worker -> Request]
    <2>1. declined \in Active
        BY <1>1 DEF Active, Request, CarriesKey, StepsOf, Steps
    <2>2. accepted \in Active
        <3>1. paid \in OrderRow /\ captured \in PaymentRow
            BY <1>1, MoveOrderType, MovePaymentType
               DEF ConfirmPayment, Capture, OrderStatus, PaymentStatus
        <3> HIDE DEF paid, captured
        <3>2. "plan" \in Steps /\ "plan" \in StepsOf(r.op) /\ 1 \in Nat \ {0}
            BY <1>1 DEF StepsOf, Steps
        <3>3. QED
            BY <1>1, <3>1, <3>2, RewriteType
    <2>3. \/ Finish(w)
          \/ req' = [req EXCEPT ![w] = declined]
          \/ req' = [req EXCEPT ![w] = accepted]
        BY DEF ConfirmIntent
    <2> HIDE DEF declined, accepted
    <2>4. QED
        BY <2>1, <2>2, <2>3, FinishType, MoveOnType
<1>5. UNCHANGED <<database, redis, memory, issued, tmOrders>>
    BY DEF ConfirmIntent
<1>6. QED
    BY <1>2, <1>3, <1>4, <1>5 DEF TypeInv, TypeOK, database, redis, memory

LEMMA FulfillType ==
    ASSUME TypeInv, NEW w \in Worker,
           \/ LoadPlan(w) \/ CreateOffer(w) \/ SetOffer(w)
           \/ AcceptOffer(w) \/ SetAccept(w)
    PROVE  TypeInv'
<1> DEFINE r == req[w]
           later == {"offer", "offer_set", "accept", "accept_set", "release"}
<1>1. r \in Active /\ r.o \in Order /\ r.op = "confirm"
    BY Serving DEF LoadPlan, CreateOffer, SetOffer, AcceptOffer, SetAccept, AtStep
<1>2. \E pc \in later : Goto(w, pc)
    BY DEF LoadPlan, CreateOffer, SetOffer, AcceptOffer, SetAccept
<1>3. \A pc \in later : /\ pc \in Steps /\ pc \in StepsOf(r.op)
                        /\ ~CarriesKey([r EXCEPT !.pc = pc])
    BY <1>1 DEF StepsOf, Steps, AfterFlush, CarriesKey, Active, Request
<1>4. req' \in [Worker -> Active \union {Idle}] /\ req' \in [Worker -> Request]
    BY <1>1, <1>2, <1>3, GotoType
<1>5. /\ offers' \subseteq Order /\ accepts' \subseteq Order
      /\ tmOrders' \in [Order -> 0..MaxCalls]
    <2>1. /\ offers \subseteq Order /\ accepts \subseteq Order
          /\ tmOrders \in [Order -> 0..MaxCalls]
        BY DEF TypeInv, TypeOK
    <2>2. offers' \subseteq Order /\ accepts' \subseteq Order
        BY <1>1, <2>1 DEF LoadPlan, CreateOffer, SetOffer, AcceptOffer, SetAccept, redis
    <2> DEFINE count == CountCall(tmOrders[r.o])
    <2>3. count \in 0..MaxCalls
        BY <1>1, <2>1, CountCallType
    <2>4. tmOrders' = tmOrders \/ tmOrders' = [tmOrders EXCEPT ![r.o] = count]
        BY DEF LoadPlan, CreateOffer, SetOffer, AcceptOffer, SetAccept, history
    <2> HIDE DEF count
    <2>5. QED
        BY <1>1, <2>1, <2>2, <2>3, <2>4
<1>6. UNCHANGED <<database, holds, confirmKeys, memory, issued, confirmed, covered>>
    BY DEF LoadPlan, CreateOffer, SetOffer, AcceptOffer, SetAccept, redis, history
<1>7. QED
    BY <1>4, <1>5, <1>6 DEF TypeInv, TypeOK, database, memory

-----------------------------------------------------------------------------
(* Releasing holds *)

\* A request that is releasing holds may go on to any of these steps.
LEMMA ReleasingSteps ==
    ASSUME NEW r \in Active, r.pc \in {"release", "release_del"}
    PROVE  /\ {"release", "release_del"} \subseteq Steps \intersect StepsOf(r.op)
           /\ ~CarriesKey([r EXCEPT !.pc = "release_del"])
           /\ "commit" \in Steps
           /\ r.op \in {"confirm", "cancel"} => "commit" \in StepsOf(r.op)
BY DEF Active, Request, StepsOf, Steps, AfterFlush, CarriesKey

LEMMA GetHoldType ==
    ASSUME TypeInv, NEW w \in Worker, GetHold(w)
    PROVE  TypeInv'
<1>1. req[w] \in Active /\ req[w].pc = "release"
    BY Serving DEF GetHold
<1>2. Goto(w, "release_del") \/ NextSeat(w)
    BY DEF GetHold
<1>3. req' \in [Worker -> Active \union {Idle}] /\ req' \in [Worker -> Request]
    BY <1>1, <1>2, ReleasingSteps, GotoType, NextSeatType
<1>4. UNCHANGED <<database, redis, memory, history>>
    BY DEF GetHold
<1>5. QED
    BY <1>3, <1>4 DEF TypeInv, TypeOK, database, redis, memory, history

LEMMA DeleteHoldType ==
    ASSUME TypeInv, NEW w \in Worker, DeleteHold(w)
    PROVE  TypeInv'
<1> DEFINE r == req[w]
           next == r.i + 1
<1>1. /\ r \in Active /\ r.pc = "release_del" /\ r.i \in Nat \ {0}
    BY Serving DEF DeleteHold
<1>2. holds' \in [Seat -> Order \union {NoOrder}]
    <2>1. holds \in [Seat -> Order \union {NoOrder}]
        BY DEF TypeInv, TypeOK
    <2>2. holds' = [holds EXCEPT ![r.seats[r.i]] = NoOrder]
        BY DEF DeleteHold
    <2>3. QED
        BY <2>1, <2>2
<1>3. req' \in [Worker -> Active \union {Idle}] /\ req' \in [Worker -> Request]
    <2>1. req' = [req EXCEPT ![w] = [r EXCEPT !.pc = "release", !.i = next]]
        BY DEF DeleteHold
    <2>2. next \in Nat \ {0}
        BY <1>1
    <2>3. ~(r.op = "confirm" /\ "release" \in {"load_payment", "key", "provider"})
        OBVIOUS
    <2> HIDE DEF next
    <2>4. [r EXCEPT !.pc = "release", !.i = next] \in Active
        BY <1>1, <2>2, <2>3, ReleasingSteps
           DEF Active, Request, CarriesKey
    <2>5. QED
        BY <2>1, <2>4, MoveOnType
<1>4. UNCHANGED <<database, confirmKeys, offers, accepts, memory, history>>
    BY DEF DeleteHold
<1>5. QED
    BY <1>2, <1>3, <1>4 DEF TypeInv, TypeOK, database, memory, history

\* Leaving the release loop: an exception, or on to the commit.
LEMMA ReleasedType ==
    ASSUME TypeInv, NEW w \in Worker,
           RaiseDeclined(w) \/ FinishFulfillment(w) \/ CancelLoaded(w)
    PROVE  TypeInv'
<1> DEFINE r == req[w]
           cancelled == Cancel(r.order)
           fulfilled == [r EXCEPT !.pc = "commit", !.i = 1]
           undone == [r EXCEPT !.pc = "commit", !.i = 1, !.order = cancelled]
<1>1. UNCHANGED <<database, redis, memory, history>>
    BY DEF RaiseDeclined, FinishFulfillment, CancelLoaded
<1>2. /\ r \in Active /\ r.pc = "release" /\ r.order \in OrderRow
      /\ r.payment \in PaymentRow
    BY Serving DEF RaiseDeclined, FinishFulfillment, CancelLoaded, AllReleased, AtStep
<1>3. \/ Finish(w)
      \/ r.op = "confirm" /\ req' = [req EXCEPT ![w] = fulfilled]
      \/ r.op = "cancel" /\ req' = [req EXCEPT ![w] = undone]
    BY DEF RaiseDeclined, FinishFulfillment, CancelLoaded, AllReleased, AtStep
<1>4. cancelled \in OrderRow
    BY <1>2, MoveOrderType DEF Cancel, OrderStatus
<1>5. "commit" \in Steps /\ 1 \in Nat \ {0}
    BY DEF Steps
<1>6. r.op = "confirm" => fulfilled \in Active
    <2>1. r.op = "confirm" => "commit" \in StepsOf(r.op)
        BY <1>2, ReleasingSteps
    <2>2. QED
        BY <1>2, <1>5, <2>1, EmptySeq, MoveSeatsType
<1> HIDE DEF cancelled
<1>7. r.op = "cancel" => undone \in Active
    BY <1>2, <1>4, <1>5, ReleasingSteps, RewriteType
<1> HIDE DEF fulfilled, undone
<1>8. req' \in [Worker -> Active \union {Idle}] /\ req' \in [Worker -> Request]
    BY <1>3, <1>6, <1>7, FinishType, MoveOnType
<1>9. QED
    BY <1>1, <1>8 DEF TypeInv, TypeOK, database, redis, memory, history

LEMMA RefundLoadedType ==
    ASSUME TypeInv, NEW w \in Worker, NEW full \in BOOLEAN, RefundLoaded(w, full)
    PROVE  TypeInv'
<1> DEFINE r == req[w]
           order == RefundOrder(r.order)
           payment == RefundPayment(payments[r.o], full)
           next == [r EXCEPT !.pc = "commit", !.order = order, !.payment = payment]
<1>1. /\ r \in Active /\ r.op = "refund" /\ r.o \in Order /\ r.order \in OrderRow
    BY Serving DEF RefundLoaded, AtStep
<1>2. order \in OrderRow /\ payment \in PaymentRow
    <2>1. payments[r.o] \in PaymentRow
        BY <1>1 DEF TypeInv, TypeOK
    <2>2. QED
        BY <1>1, <2>1, MoveOrderType, MovePaymentType
           DEF RefundOrder, RefundPayment, OrderStatus, PaymentStatus
<1>3. Finish(w) \/ req' = [req EXCEPT ![w] = next]
    BY DEF RefundLoaded
<1> HIDE DEF order, payment
<1>4. next \in Active
    <2>1. "commit" \in Steps /\ "commit" \in StepsOf(r.op) /\ 1 \in Nat \ {0}
        BY <1>1 DEF StepsOf, Steps
    <2>2. QED
        BY <1>1, <1>2, <2>1, RewriteType
<1> HIDE DEF next
<1>5. req' \in [Worker -> Active \union {Idle}] /\ req' \in [Worker -> Request]
    BY <1>3, <1>4, FinishType, MoveOnType
<1>6. UNCHANGED <<database, redis, memory, history>>
    BY DEF RefundLoaded
<1>7. QED
    BY <1>5, <1>6 DEF TypeInv, TypeOK, database, redis, memory, history

-----------------------------------------------------------------------------
(* The end of the transaction, and the environment                         *)

LEMMA CommitType ==
    ASSUME TypeInv, NEW w \in Worker, Commit(w)
    PROVE  TypeInv'
<1> DEFINE r == req[w]
<1>1. /\ r.o \in Order /\ r.order \in OrderRow /\ r.payment \in PaymentRow
    BY Serving DEF Commit
<1>2. orders' \in [Order -> OrderRow] /\ payments' \in [Order -> PaymentRow]
    BY <1>1 DEF Commit, TypeInv, TypeOK
<1>3. Collected(w) \in [Event -> 0..MaxCopies]
    BY CollectedType DEF TypeInv
<1>4. outbox' \in [Event -> 0..MaxCopies]
    <2>1. \A e \in Event : outbox[e] \in 0..MaxCopies /\ Collected(w)[e] \in 0..MaxCopies
        BY <1>3 DEF TypeInv, TypeOK
    <2>2. \A e \in Event : (IF outbox[e] + Collected(w)[e] <= MaxCopies
                            THEN outbox[e] + Collected(w)[e] ELSE MaxCopies)
                          \in 0..MaxCopies
        BY <2>1
    <2>3. QED
        BY <2>2 DEF Commit, WriteOutboxEvents
<1>5. events' \in [Worker -> [Event -> 0..MaxCopies]]
    BY <1>3 DEF Commit, TypeInv, TypeOK
<1>6. req' \in [Worker -> Active \union {Idle}] /\ req' \in [Worker -> Request]
    BY FinishType DEF Commit
<1>7. UNCHANGED <<redis, intents, history>>
    BY DEF Commit
<1>8. QED
    BY <1>2, <1>4, <1>5, <1>6, <1>7 DEF TypeInv, TypeOK, redis, history

LEMMA FailureType ==
    ASSUME TypeInv, NEW w \in Worker, Fail(w)
    PROVE  TypeInv'
<1>1. Finish(w) /\ UNCHANGED <<database, redis, history>>
    BY DEF Fail, CommitRaises, RedisRaises, DatabaseRaises, Crash
<1>2. req' \in [Worker -> Active \union {Idle}] /\ req' \in [Worker -> Request]
    BY <1>1, FinishType
<1>3. intents' \in [Worker -> SUBSET Order]
    <2>1. intents' = intents \/ intents' = [intents EXCEPT ![w] = {}]
        BY DEF Fail, CommitRaises, RedisRaises, DatabaseRaises, Crash, memory
    <2>2. QED
        BY <2>1 DEF TypeInv, TypeOK
<1>4. events' \in [Worker -> [Event -> 0..MaxCopies]]
    <2>1. \/ events' = events
          \/ events' = [events EXCEPT ![w] = Collected(w)]
          \/ events' = [events EXCEPT ![w] = [e \in Event |-> 0]]
        BY DEF Fail, CommitRaises, RedisRaises, DatabaseRaises, Crash, memory
    <2>2. /\ Collected(w) \in [Event -> 0..MaxCopies]
          /\ [e \in Event |-> 0] \in [Event -> 0..MaxCopies]
        BY CollectedType DEF TypeInv
    <2>3. QED
        BY <2>1, <2>2 DEF TypeInv, TypeOK
<1>5. QED
    BY <1>1, <1>2, <1>3, <1>4 DEF TypeInv, TypeOK, database, redis, history

LEMMA ExpireHoldType ==
    ASSUME TypeInv, NEW s \in Seat, ExpireHold(s)
    PROVE  TypeInv'
BY DEF ExpireHold, TypeInv, TypeOK, database, memory, history

LEMMA AuthorizePaymentType ==
    ASSUME TypeInv, NEW o \in Order, AuthorizePayment(o)
    PROVE  TypeInv'
<1> DEFINE authorized == Authorize(payments[o])
<1>1. authorized \in PaymentRow
    BY MovePaymentType DEF Authorize, PaymentStatus, TypeInv, TypeOK
<1>2. payments' = [payments EXCEPT ![o] = authorized]
    BY DEF AuthorizePayment, TypeInv, TypeOK
<1> HIDE DEF authorized
<1>3. payments' \in [Order -> PaymentRow]
    BY <1>1, <1>2 DEF TypeInv, TypeOK
<1>4. QED
    BY <1>3 DEF AuthorizePayment, TypeInv, TypeOK, redis, memory, history

LEMMA TypeNext == TypeInv /\ [Next]_vars => TypeInv'
<1> SUFFICES ASSUME TypeInv, [Next]_vars PROVE TypeInv'
    OBVIOUS
<1>1. ASSUME NEW w \in Worker, Arrive(w) PROVE TypeInv'
    BY <1>1, CreateOrderType, HandleOthersType DEF Arrive
<1>2. ASSUME NEW w \in Worker, Serve(w) PROVE TypeInv'
    BY <1>2, AcquireHoldType, UndoHoldType, CreateIntentType, LoadPaymentType,
       CheckKeyType, ConfirmIntentType, FulfillType, GetHoldType, DeleteHoldType,
       ReleasedType, RefundLoadedType, CommitType
       DEF Serve
<1>3. ASSUME NEW w \in Worker, Fail(w) PROVE TypeInv'
    BY <1>3, FailureType
<1>4. ASSUME NEW s \in Seat, ExpireHold(s) PROVE TypeInv'
    BY <1>4, ExpireHoldType
<1>5. ASSUME NEW o \in Order, AuthorizePayment(o) PROVE TypeInv'
    BY <1>5, AuthorizePaymentType
<1>6. CASE UNCHANGED vars
    BY <1>6 DEF vars, TypeInv, TypeOK, database, redis, memory, history
<1>7. QED
    BY <1>1, <1>2, <1>3, <1>4, <1>5, <1>6 DEF Next

LEMMA TypeInvariant == Spec => []TypeInv
<1>1. QED
    BY TypeInit, TypeNext, PTL DEF Spec

\* Every reachable state is well typed: statuses come from the enums of
\* models.py and the counters stay within their bounds.
THEOREM TypeCorrect == Spec => []TypeOK
<1>1. TypeInv => TypeOK
    BY DEF TypeInv
<1>2. QED
    BY <1>1, TypeInvariant, PTL
=============================================================================
