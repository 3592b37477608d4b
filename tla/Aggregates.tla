----------------------------- MODULE Aggregates -----------------------------
(***************************************************************************)
(* The order and payment aggregates of domain/models.py as values: the     *)
(* state machine of each is a guard (Can...), true when the method does    *)
(* not raise, and the value the method leaves behind.  Money is left out:  *)
(* whether a total exceeds what the provider accepts is a property of the  *)
(* order (OverLimit in OrderService), and a refund is full or partial.     *)
(***************************************************************************)
EXTENDS Naturals, Sequences

OrderStatus ==
    {"PENDING", "SEATS_RESERVED", "PAYMENT_INITIATED", "PAID", "FULFILLED",
     "CANCELLED", "REFUNDED"}

PaymentStatus ==
    {"CREATED", "AUTHORIZED", "CAPTURED", "FAILED", "REFUNDED",
     "PARTIALLY_REFUNDED"}

\* The value a query returns when there is no row: None in the code.
NoOrderRow   == [status |-> "ABSENT", version |-> 0, seats |-> <<>>]
NoPaymentRow == [status |-> "ABSENT", version |-> 0]

Stored(row) == row.status # "ABSENT"

-----------------------------------------------------------------------------
(* Order *)

NewOrder == [status |-> "PENDING", version |-> 1, seats |-> <<>>]

MoveOrder(order, status) ==
    [order EXCEPT !.status = status, !.version = @ + 1]

\* The other check, of the number of seats, holds wherever this is called: the
\* handler passes as many seats as it has put into the order's quantity.
CanReserveSeats(order) == order.status = "PENDING"
ReserveSeats(order, seats) ==
    [MoveOrder(order, "SEATS_RESERVED") EXCEPT !.seats = seats]

CanInitiatePayment(order) == order.status = "SEATS_RESERVED"
InitiatePayment(order) == MoveOrder(order, "PAYMENT_INITIATED")

CanConfirmPayment(order) == order.status = "PAYMENT_INITIATED"
ConfirmPayment(order) == MoveOrder(order, "PAID")

CanCancelPaid(order) == order.status \notin {"CANCELLED", "REFUNDED"} \* mutant
CanCancel(order) ==
    order.status \in {"PENDING", "SEATS_RESERVED", "PAYMENT_INITIATED"}
Cancel(order) == MoveOrder(order, "CANCELLED")

CanRefundOrder(order) == order.status \in {"PAID", "FULFILLED"}
RefundOrder(order) == MoveOrder(order, "REFUNDED")

-----------------------------------------------------------------------------
(* Payment *)

NewPayment == [status |-> "CREATED", version |-> 1]

MovePayment(payment, status) ==
    [payment EXCEPT !.status = status, !.version = @ + 1]

CanAuthorize(payment) == payment.status = "CREATED"
Authorize(payment) == MovePayment(payment, "AUTHORIZED")

CanCapture(payment) == payment.status = "AUTHORIZED"
Capture(payment) == MovePayment(payment, "CAPTURED")

CanFail(payment) == payment.status \in {"CREATED", "AUTHORIZED"}

CanRefundPayment(payment) == payment.status = "CAPTURED"
RefundPaymentMisnamed(payment, full) ==          \* mutant: not a PaymentStatus
    MovePayment(payment, IF full THEN "REFUNDED" ELSE "PARTIAL")
RefundPayment(payment, full) ==
    MovePayment(payment, IF full THEN "REFUNDED" ELSE "PARTIALLY_REFUNDED")
=============================================================================
