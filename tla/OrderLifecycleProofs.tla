------------------------ MODULE OrderLifecycleProofs ------------------------
(* Proofs about OrderLifecycle, for every set of orders.                   *)
EXTENDS OrderLifecycle, TLAPS

Inv == LifecycleTypeOK /\ PaymentMatchesOrder

LEMMA InitEstablishes == Init => Inv
BY DEF Init, Inv, LifecycleTypeOK, PaymentMatchesOrder

LEMMA NextPreserves == Inv /\ [Next]_lifecycleVars => Inv'
<1> SUFFICES ASSUME Inv, [Next]_lifecycleVars
             PROVE  Inv'
    OBVIOUS
<1> USE DEF Inv, LifecycleTypeOK, PaymentMatchesOrder, OrderStatus, PaymentStatus
<1>1. ASSUME NEW o \in Order, Place(o)
      PROVE  Inv'
    BY <1>1 DEF Place
<1>2. ASSUME NEW o \in Order, AuthorizePayment(o)
      PROVE  Inv'
    BY <1>2 DEF AuthorizePayment
<1>3. ASSUME NEW o \in Order, Pay(o)
      PROVE  Inv'
    BY <1>3 DEF Pay
<1>4. ASSUME NEW o \in Order, Fulfill(o)
      PROVE  Inv'
    BY <1>4 DEF Fulfill
<1>5. ASSUME NEW o \in Order, CancelOrder(o)
      PROVE  Inv'
    BY <1>5 DEF CancelOrder
<1>6. ASSUME NEW o \in Order, Refund(o)
      PROVE  Inv'
    BY <1>6 DEF Refund
<1>7. CASE UNCHANGED lifecycleVars
    BY <1>7 DEF lifecycleVars
<1>8. QED
    BY <1>1, <1>2, <1>3, <1>4, <1>5, <1>6, <1>7 DEF Next

\* An order and its payment tell the same story in every reachable state: the
\* guards of Order and Payment in models.py suffice, whatever the order in
\* which requests arrive, as long as each is atomic.
THEOREM LifecycleConsistent == Spec => []PaymentMatchesOrder
<1>1. Inv => PaymentMatchesOrder
    BY DEF Inv
<1>2. QED
    BY InitEstablishes, NextPreserves, <1>1, PTL DEF Spec
=============================================================================
