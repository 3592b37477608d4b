--------------------------- MODULE OrderLifecycle ---------------------------
(***************************************************************************)
(* What the two state machines of domain/models.py promise together: the   *)
(* life of an order and of its payment, every request being one atomic     *)
(* step.  OrderService, where a request is many steps, is checked against  *)
(* this specification.                                                     *)
(***************************************************************************)
EXTENDS Aggregates

CONSTANT Order

VARIABLES
    orderStatus,    \* status of each order, "ABSENT" before it is placed
    paymentStatus   \* status of the payment of each order

lifecycleVars == <<orderStatus, paymentStatus>>

LifecycleTypeOK ==
    /\ orderStatus \in [Order -> OrderStatus \union {"ABSENT"}]
    /\ paymentStatus \in [Order -> PaymentStatus \union {"ABSENT"}]

Init ==
    /\ orderStatus = [o \in Order |-> "ABSENT"]
    /\ paymentStatus = [o \in Order |-> "ABSENT"]

\* create: seats reserved, payment created and initiated, both rows stored.
Place(o) ==
    /\ orderStatus[o] = "ABSENT"
    /\ orderStatus' = [orderStatus EXCEPT ![o] = "PAYMENT_INITIATED"]
    /\ paymentStatus' = [paymentStatus EXCEPT ![o] = "CREATED"]

\* The payment provider authorizes the amount.
AuthorizePayment(o) ==
    /\ paymentStatus[o] = "CREATED"
    /\ paymentStatus' = [paymentStatus EXCEPT ![o] = "AUTHORIZED"]
    /\ UNCHANGED orderStatus

\* Capturing the payment and confirming the order are one step.
Pay(o) ==
    /\ orderStatus[o] = "PAYMENT_INITIATED"
    /\ paymentStatus[o] = "AUTHORIZED"
    /\ orderStatus' = [orderStatus EXCEPT ![o] = "PAID"]
    /\ paymentStatus' = [paymentStatus EXCEPT ![o] = "CAPTURED"]

Fulfill(o) ==
    /\ orderStatus[o] = "PAID"
    /\ orderStatus' = [orderStatus EXCEPT ![o] = "FULFILLED"]
    /\ UNCHANGED paymentStatus

CancelOrder(o) ==
    /\ orderStatus[o] = "PAYMENT_INITIATED"
    /\ orderStatus' = [orderStatus EXCEPT ![o] = "CANCELLED"]
    /\ UNCHANGED paymentStatus

Refund(o) ==
    /\ orderStatus[o] \in {"PAID", "FULFILLED"}
    /\ paymentStatus[o] = "CAPTURED"
    /\ orderStatus' = [orderStatus EXCEPT ![o] = "REFUNDED"]
    /\ \E status \in {"REFUNDED", "PARTIALLY_REFUNDED"} :
          paymentStatus' = [paymentStatus EXCEPT ![o] = status]

Next ==
    \E o \in Order :
        \/ Place(o)
        \/ AuthorizePayment(o)
        \/ Pay(o)
        \/ Fulfill(o)
        \/ CancelOrder(o)
        \/ Refund(o)

Spec == Init /\ [][Next]_lifecycleVars

-----------------------------------------------------------------------------
(* The order and its payment tell the same story: money is held exactly    *)
(* for the orders that are paid or fulfilled (models.py:98-109 against     *)
(* models.py:175-180), given back exactly for the refunded ones            *)
(* (models.py:122-126 against models.py:188-195), and an order that is     *)
(* cancelled has not been charged.                                         *)
PaymentMatchesOrder ==
    \A o \in Order :
        /\ (orderStatus[o] = "ABSENT") <=> (paymentStatus[o] = "ABSENT")
        /\ orderStatus[o] \in {"PAID", "FULFILLED"}
              <=> paymentStatus[o] = "CAPTURED"
        /\ orderStatus[o] = "REFUNDED"
              <=> paymentStatus[o] \in {"REFUNDED", "PARTIALLY_REFUNDED"}
=============================================================================
