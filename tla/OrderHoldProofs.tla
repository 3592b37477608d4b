-------------------------- MODULE OrderHoldProofs ---------------------------
(***************************************************************************)
(* Who holds a seat and who gives it back: the properties of the holds in  *)
(* Redis, which no transaction protects.                                   *)
(***************************************************************************)
EXTENDS OrderSafetyProofs

USE OrderAssumption, KeyAssumption, BoundAssumption, SwitchAssumption

-----------------------------------------------------------------------------
(* The two DELs of the code                                                *)

\* The hold that the next DEL of a request gives back is its own, or is gone.
Entitled(w) ==
    LET r == req[w] IN
    r.pc = "release_del" \/ (AtStep(w, "create", "undo") /\ r.i <= Len(r.seats)) =>
        holds[r.seats[r.i]] \in {NoOrder, r.o}

\* Only the undo of a create and the release of an order give holds back.
LEMMA OnlyTwoDels ==
    ASSUME NEW w \in Worker, Arrive(w) \/ Serve(w) \/ Fail(w),
           ~AcquireHold(w), ~UndoHold(w), ~DeleteHold(w)
    PROVE  holds' = holds
BY DEF Arrive, Serve, Fail, HandleCreateOrder, HandleConfirmPayment,
   HandleCancelOrder, HandleRefundOrder, CreateIntent, LoadPayment, CheckKey,
   ConfirmIntent, LoadPlan, CreateOffer, SetOffer, AcceptOffer, SetAccept, GetHold,
   RaiseDeclined, FinishFulfillment, CancelLoaded, RefundLoaded, Commit, RedisRaises,
   DatabaseRaises, CommitRaises, Crash, redis

LEMMA EntitledGivesBackOwn ==
    ASSUME TypeInv, \A w \in Worker : Entitled(w), [Next]_vars
    PROVE  GivesBackOwn
<1>1. ASSUME NEW w \in Worker, NEW s \in Seat, req'[w] # req[w], holds'[s] = NoOrder
      PROVE  holds[s] \in {NoOrder, req[w].o}
    <2> DEFINE r == req[w]
               k == r.seats[r.i]
    <2>1. Arrive(w) \/ Serve(w) \/ Fail(w)
        <3>1. ASSUME NEW v \in Worker, Arrive(v) \/ Serve(v) \/ Fail(v) PROVE v = w
            BY <1>1, <3>1, OwnRequest
        <3>2. ~UNCHANGED vars /\ ~\E o \in Order : AuthorizePayment(o)
            BY <1>1 DEF vars, AuthorizePayment
        <3>3. ~\E t \in Seat : ExpireHold(t)
            BY <1>1 DEF ExpireHold
        <3>4. QED
            BY <3>1, <3>2, <3>3 DEF Next
    <2>2. holds \in [Seat -> Order \union {NoOrder}]
        BY DEF TypeInv, TypeOK
    <2>3. CASE holds' = [holds EXCEPT ![k] = NoOrder] /\ (DeleteHold(w) \/ UndoHold(w))
        <3>1. CASE s = k
            <4>1. \/ r.pc = "release_del"
                  \/ AtStep(w, "create", "undo") /\ r.i <= Len(r.seats)
                  \/ holds' = holds
                BY <2>3 DEF DeleteHold, UndoHold
            <4>2. QED
                BY <1>1, <3>1, <4>1 DEF Entitled
        <3>2. CASE s # k
            BY <1>1, <2>2, <2>3, <3>2
        <3>3. QED
            BY <3>1, <3>2
    <2>4. CASE AcquireHold(w) /\ holds' = [holds EXCEPT ![k] = r.o]
        <3>1. r.o \in Order
            BY <2>4, Serving DEF AcquireHold, AtStep
        <3>2. r.o # NoOrder
            BY <3>1
        <3>3. QED
            BY <1>1, <2>2, <2>4, <3>2
    <2>5. CASE holds' = holds
        BY <1>1, <2>5
    <2>6. QED
        BY <2>1, <2>3, <2>4, <2>5, OnlyTwoDels DEF DeleteHold, UndoHold, AcquireHold
<1>2. QED
    BY <1>1 DEF GivesBackOwn

-----------------------------------------------------------------------------
(* One worker alone gives back only its own holds                          *)

\* Nobody else holds the seats of the list from one place to another.
Clear(seats, from, to, o) ==
    \A n \in from..to : holds[seats[n]] \in {NoOrder, o}

(* The holds of a request may expire under it; while there is no other     *)
(* worker, nobody takes them.                                              *)
Unrivalled(r) ==
    /\ r.op = "create" /\ r.pc = "hold" =>
          r.i - 1 <= Len(r.seats) /\ Clear(r.seats, 1, r.i - 1, r.o)
    /\ r.op = "create" /\ r.pc = "undo" => Clear(r.seats, r.i, Len(r.seats), r.o)
    /\ r.pc = "release_del" => holds[r.seats[r.i]] \in {NoOrder, r.o}

ClearInv == TypeInv /\ \A w \in Worker : Unrivalled(req[w])

LEMMA IdleUnrivalled == Unrivalled(Idle) /\ Unrivalled(Idle)'
BY DEF Unrivalled, Idle

LEMMA ClearEntitles == ASSUME ClearInv PROVE \A w \in Worker : Entitled(w)
<1> SUFFICES ASSUME NEW w \in Worker PROVE Entitled(w)
    OBVIOUS
<1> DEFINE r == req[w]
<1>1. Unrivalled(r) /\ TypeInv
    BY DEF ClearInv
<1>2. CASE AtStep(w, "create", "undo") /\ r.i <= Len(r.seats)
    <2>1. r.i \in Nat /\ r.seats \in Seq(Seat)
        BY <1>1, <1>2, Serving DEF AtStep
    <2>2. r.i \in r.i..Len(r.seats)
        BY <1>2, <2>1
    <2>3. QED
        BY <1>1, <1>2, <2>2 DEF Unrivalled, Clear, AtStep, Entitled
<1>3. QED
    BY <1>1, <1>2 DEF Unrivalled, Entitled

\* A hold taken, one given back.
LEMMA OneMoreClear ==
    ASSUME NEW seats \in Seq(Seat), NEW k \in 1..Len(seats), NEW o \in Order,
           holds \in [Seat -> Order \union {NoOrder}], Clear(seats, 1, k - 1, o),
           holds' = [holds EXCEPT ![seats[k]] = o]
    PROVE  Clear(seats, 1, k, o)'
<1>1. seats[k] \in Seat /\ \A n \in 1..(k - 1) : seats[n] \in Seat
    OBVIOUS
<1>2. \A n \in 1..(k - 1) : holds'[seats[n]] \in {NoOrder, o}
    BY <1>1 DEF Clear
<1>3. holds'[seats[k]] = o
    BY <1>1
<1>4. \A n \in 1..k : n = k \/ n \in 1..(k - 1)
    OBVIOUS
<1>5. QED
    BY <1>2, <1>3, <1>4 DEF Clear

LEMMA OneClearLess ==
    ASSUME NEW seats \in Seq(Seat), NEW k \in 1..Len(seats), NEW o \in Order,
           holds \in [Seat -> Order \union {NoOrder}], Clear(seats, k, Len(seats), o),
           holds' = [holds EXCEPT ![seats[k]] = NoOrder]
    PROVE  Clear(seats, k + 1, Len(seats), o)'
<1>1. \A n \in (k + 1)..Len(seats) : n \in k..Len(seats) /\ seats[n] \in Seat
    OBVIOUS
<1>2. QED
    BY <1>1 DEF Clear

\* The seats acquired before the one that is taken.
LEMMA AcquiredSeats ==
    ASSUME NEW seats \in Seq(Seat), NEW k \in 1..Len(seats)
    PROVE  /\ SubSeq(seats, 1, k - 1) \in Seq(Seat)
           /\ Len(SubSeq(seats, 1, k - 1)) = k - 1
           /\ \A n \in 1..(k - 1) : SubSeq(seats, 1, k - 1)[n] = seats[n]
<1>1. \A n \in 1..(k - 1) : seats[n] \in Seat
    OBVIOUS
<1>2. k - 1 \in Nat /\ (k - 1) - 1 + 1 = k - 1
    OBVIOUS
<1>3. \A n \in 1..(k - 1) : 1 + n - 1 = n
    OBVIOUS
<1>4. QED
    BY <1>1, <1>2, <1>3, SubSeqProperties

LEMMA AcquireClear ==
    ASSUME ClearInv, NEW w \in Worker, AcquireHold(w)
    PROVE  Unrivalled(req[w])'
<1> DEFINE r == req[w]
           q == req'[w]
           inc == r.i + 1
           acquired == SubSeq(r.seats, 1, r.i - 1)
<1>1. /\ TypeInv /\ r.op = "create" /\ r.pc = "hold" /\ r.i <= Len(r.seats)
      /\ holds \in [Seat -> Order \union {NoOrder}]
    BY DEF ClearInv, TypeInv, TypeOK, AcquireHold, AtStep
<1>2. /\ r \in Request /\ r.o \in Order /\ r.seats \in Seq(Seat)
      /\ r.i \in 1..Len(r.seats)
    BY <1>1, Serving DEF Active
<1>3. PICK o \in Order, seats \in Seq(Seat), k \in Nat \ {0} :
         o = r.o /\ seats = r.seats /\ k = r.i
    BY <1>2
<1>4. Clear(seats, 1, k - 1, o) /\ k \in 1..Len(seats)
    BY <1>1, <1>2, <1>3 DEF ClearInv, Unrivalled
<1>5. CASE /\ holds' = [holds EXCEPT ![seats[k]] = o]
           /\ q = [r EXCEPT !.i = inc]
    <2>1. Clear(seats, 1, k, o)'
        BY <1>1, <1>4, <1>5, OneMoreClear
    <2> HIDE DEF inc
    <2>2. q.op = "create" /\ q.pc = "hold" /\ q.o = o /\ q.seats = seats /\ q.i = inc
        BY <1>1, <1>2, <1>3, <1>5 DEF Request
    <2>3. q.i - 1 = k /\ k <= Len(seats)
        BY <1>3, <1>4, <2>2 DEF inc
    <2>4. QED
        BY <2>1, <2>2, <2>3 DEF Unrivalled
<1>6. CASE q = [r EXCEPT !.pc = "undo", !.i = 1, !.seats = acquired] /\ holds' = holds
    <2>1. /\ SubSeq(seats, 1, k - 1) \in Seq(Seat)
          /\ Len(SubSeq(seats, 1, k - 1)) = k - 1
          /\ \A n \in 1..(k - 1) : SubSeq(seats, 1, k - 1)[n] = seats[n]
        BY <1>4, AcquiredSeats
    <2>2. PICK mine \in Seq(Seat) : /\ mine = acquired /\ Len(mine) = k - 1
                                    /\ \A n \in 1..(k - 1) : mine[n] = seats[n]
        BY <1>3, <2>1
    <2>3. Clear(mine, 1, Len(mine), o)'
        BY <1>4, <1>6, <2>2 DEF Clear
    <2> HIDE DEF acquired
    <2>4. q.op = "create" /\ q.pc = "undo" /\ q.o = o /\ q.i = 1 /\ q.seats = mine
        BY <1>1, <1>2, <1>3, <1>6, <2>2 DEF Request
    <2>5. QED
        BY <2>3, <2>4 DEF Unrivalled
<1>7. QED
    BY <1>1, <1>3, <1>5, <1>6, Rewritten DEF AcquireHold, HoldFree, NextSeat

LEMMA UndoClear ==
    ASSUME ClearInv, NEW w \in Worker, UndoHold(w)
    PROVE  Unrivalled(req[w])'
<1> DEFINE r == req[w]
           q == req'[w]
           inc == r.i + 1
<1>1. /\ TypeInv /\ r.op = "create" /\ r.pc = "undo"
      /\ holds \in [Seat -> Order \union {NoOrder}]
    BY DEF ClearInv, TypeInv, TypeOK, UndoHold, AtStep
<1>2. /\ r \in Request /\ r.o \in Order /\ r.seats \in Seq(Seat) /\ r.i \in Nat \ {0}
    BY <1>1, Serving DEF Active
<1>3. PICK o \in Order, seats \in Seq(Seat), k \in Nat \ {0} :
         o = r.o /\ seats = r.seats /\ k = r.i
    BY <1>2
<1>4. Clear(seats, k, Len(seats), o)
    BY <1>1, <1>3 DEF ClearInv, Unrivalled
<1>5. CASE /\ k <= Len(seats) /\ holds' = [holds EXCEPT ![seats[k]] = NoOrder]
           /\ q = [r EXCEPT !.i = inc]
    <2>1. k \in 1..Len(seats) /\ inc = k + 1
        BY <1>3, <1>5
    <2>2. Clear(seats, k + 1, Len(seats), o)'
        BY <1>1, <1>4, <1>5, <2>1, OneClearLess
    <2> HIDE DEF inc
    <2>3. q.op = "create" /\ q.pc = "undo" /\ q.o = o /\ q.seats = seats /\ q.i = inc
        BY <1>1, <1>2, <1>3, <1>5 DEF Request
    <2>4. QED
        BY <2>1, <2>2, <2>3 DEF Unrivalled
<1>6. CASE Finish(w)
    <2>1. q = Idle
        BY <1>1, <1>6, NextRequest
    <2>2. QED
        BY <2>1, IdleUnrivalled DEF Unrivalled
<1>7. QED
    BY <1>1, <1>3, <1>5, <1>6, Rewritten DEF UndoHold, NextSeat

LEMMA ReleaseClear ==
    ASSUME ClearInv, NEW w \in Worker, GetHold(w) \/ DeleteHold(w)
    PROVE  Unrivalled(req[w])'
<1> DEFINE r == req[w]
           q == req'[w]
           inc == r.i + 1
<1>1. TypeInv /\ r \in Request /\ r.pc \in Release
    BY DEF ClearInv, TypeInv, TypeOK, GetHold, DeleteHold, Release
<1>2. \/ /\ q = [r EXCEPT !.pc = "release_del"] /\ holds' = holds
         /\ holds[r.seats[r.i]] = r.o
      \/ q = [r EXCEPT !.i = inc] /\ r.pc = "release"
      \/ q = [r EXCEPT !.pc = "release", !.i = inc]
    BY <1>1, Rewritten DEF GetHold, DeleteHold, OwnsHold, Goto, NextSeat, redis
<1> HIDE DEF inc
<1>3. \/ /\ q.pc = "release_del" /\ q.seats = r.seats /\ q.i = r.i /\ q.o = r.o
         /\ holds'[r.seats[r.i]] = r.o
      \/ q.pc = "release"
    BY <1>1, <1>2 DEF Request
<1>4. QED
    BY <1>3 DEF Unrivalled

LEMMA ClearNext ==
    ASSUME SoleWorker
    PROVE  ClearInv /\ [Next]_vars => ClearInv'
<1> SUFFICES ASSUME ClearInv, [Next]_vars PROVE ClearInv'
    OBVIOUS
<1>1. TypeInv /\ TypeInv'
    BY TypeNext DEF ClearInv
<1>2. ASSUME NEW w \in Worker, Arrive(w) \/ Serve(w) \/ Fail(w) PROVE ClearInv'
    <2> DEFINE r == req[w]
               q == req'[w]
    <2>1. SUFFICES Unrivalled(req[w])'
        BY <1>1 DEF ClearInv, SoleWorker
    <2>2. CASE Arrive(w)
        <3>1. \/ q.pc = "hold" /\ q.i = 1
              \/ q.pc \in {"load_payment", "release"}
            BY <1>1, <2>2, ArriveShape
        <3>2. CASE q.pc = "hold" /\ q.i = 1
            <4>1. q \in Request
                BY <1>1 DEF TypeInv, TypeOK
            <4>2. 0 <= Len(q.seats)
                BY <4>1 DEF Request
            <4>3. QED
                BY <3>2, <4>2 DEF Unrivalled, Clear
        <3>3. QED
            BY <3>1, <3>2 DEF Unrivalled
    <2>3. CASE q = Idle
        BY <2>3, IdleUnrivalled DEF Unrivalled
    <2>4. CASE q.pc \notin {"hold", "undo", "release_del"}
        BY <2>4 DEF Unrivalled
    <2>5. CASE LoadPayment(w) \/ CheckKey(w) \/ RaiseDeclined(w)
        <3>1. Finish(w) \/ q.pc \in {"key", "provider"}
            BY <1>1, <2>5, AskShape DEF RaiseDeclined
        <3>2. QED
            BY <1>1, <2>3, <2>4, <3>1, NextRequest
    <2>6. CASE \/ LoadPlan(w) \/ CreateOffer(w) \/ SetOffer(w)
               \/ AcceptOffer(w) \/ SetAccept(w) \/ FinishFulfillment(w)
        BY <1>1, <2>3, <2>4, <2>6, FulfillShape, NextRequest DEF AfterFlush
    <2>7. CASE \/ CreateIntent(w) \/ CancelLoaded(w)
               \/ \E p \in Order : ConfirmIntent(w, p)
               \/ \E full \in BOOLEAN : RefundLoaded(w, full)
        BY <1>1, <2>3, <2>4, <2>7, ReadyShape, ConfirmIntentShape, NextRequest
    <2>8. CASE Commit(w) \/ Fail(w)
        BY <1>1, <2>3, <2>8, NextRequest
           DEF Commit, Fail, RedisRaises, DatabaseRaises, CommitRaises, Crash
    <2>9. QED
        BY <1>2, <2>2, <2>5, <2>6, <2>7, <2>8, AcquireClear, UndoClear, ReleaseClear DEF Serve
<1>3. ASSUME NEW s \in Seat, ExpireHold(s) PROVE ClearInv'
    <2>1. UNCHANGED req /\ \A t : holds'[t] \in {holds[t], NoOrder}
        BY <1>1, <1>3 DEF ExpireHold, TypeInv, TypeOK
    <2>2. QED
        BY <1>1, <2>1 DEF ClearInv, Unrivalled, Clear
<1>4. ASSUME (\E o \in Order : AuthorizePayment(o)) \/ UNCHANGED vars PROVE ClearInv'
    <2>1. UNCHANGED <<req, holds>>
        BY <1>4 DEF AuthorizePayment, vars, redis
    <2>2. QED
        BY <1>1, <2>1 DEF ClearInv, Unrivalled, Clear
<1>5. QED
    BY <1>2, <1>3, <1>4 DEF Next

\* While requests do not run concurrently, each gives back only the holds of
\* its own order, whenever they expire and whatever fails: between the GET and
\* the DEL of a release (seat_holds.py:44-46) the hold may be gone, and it is
\* nobody else's.
THEOREM SoleWorkerReleasesOwn ==
    ASSUME SoleWorker
    PROVE  Spec => OnlyOwnerReleases
<1>1. Init => ClearInv
    <2>1. ASSUME Init PROVE \A w \in Worker : Unrivalled(req[w])
        BY <2>1, IdleUnrivalled DEF Init
    <2>2. QED
        BY <2>1, TypeInit DEF ClearInv
<1>2. ClearInv /\ [Next]_vars => ClearInv'
    BY ClearNext
<1>3. ClearInv /\ [Next]_vars => GivesBackOwn
    BY ClearEntitles, EntitledGivesBackOwn DEF ClearInv
<1>4. QED
    BY <1>1, <1>2, <1>3, PTL DEF Spec, OnlyOwnerReleases

-----------------------------------------------------------------------------
(* Several workers give back only their own holds                          *)

Creator(w, o) == req[w].op = "create" /\ req[w].o = o

\* The order holds the seats of the list from one place to another, and each
\* is there once.
Holding(seats, from, to, o) ==
    \A n \in from..to :
        /\ holds[seats[n]] = o
        /\ \A m \in from..to : seats[m] = seats[n] => m = n

\* What a request knows of the holds it has taken and those it gives back.
Careful(r) ==
    /\ r.op \notin {"cancel", "decline"}
    /\ r.op = "create" /\ r.pc = "hold" =>
          /\ r.order.status = "PENDING"
          /\ r.i - 1 <= Len(r.seats)
          /\ Holding(r.seats, 1, r.i - 1, r.o)
    /\ r.op = "create" /\ r.pc = "undo" => Holding(r.seats, r.i, Len(r.seats), r.o)
    /\ r.op = "create" /\ r.pc = "commit" =>
          /\ r.order.status = "PAYMENT_INITIATED"
          /\ \A n \in DOMAIN r.order.seats : holds[r.order.seats[n]] = r.o
    /\ r.op # "create" /\ (Fulfilling(r) \/ r.pc = "commit") =>
          r.order.status \in {"PAID", "REFUNDED"}
    /\ r.pc = "release_del" =>
          /\ r.op = "confirm"
          /\ r.i <= Len(r.seats) /\ holds[r.seats[r.i]] = r.o

\* A request that is not a creation has read its order.
Loaded(r) == r.op \notin {"none", "create"} => Stored(orders[r.o])

(* A hold is given back by the request that took it, while its order is    *)
(* not stored and nobody else can have read it, or by the one confirmation *)
(* that has flushed the order's row.                                       *)
OwnInv ==
    /\ LockInv
    /\ \A o \in Order : Stored(orders[o]) => o \in issued
    /\ \A w \in Worker, o \in Order : Creator(w, o) =>
          /\ o \in issued /\ ~Stored(orders[o])
          /\ \A v \in Worker : Creator(v, o) => v = w
    /\ \A w \in Worker : Careful(req[w]) /\ Loaded(req[w])

\* Nobody cancels, no payment is declined - those two release an order's seats
\* without a lock - and a hold does not expire under a request for its order.
Orderly ==
    /\ "cancel" \notin Requests /\ OverLimit = {}
    /\ HoldExpiry # "any_time"

LEMMA OwnInit == Init => OwnInv
<1> SUFFICES ASSUME Init PROVE OwnInv
    OBVIOUS
<1>1. \A w \in Worker : req[w] = Idle
    BY DEF Init
<1>2. \A o \in Order : ~Stored(orders[o])
    BY DEF Init, Stored, NoOrderRow
<1>3. Careful(Idle) /\ Idle.op = "none"
    BY DEF Careful, Idle, Fulfilling
<1>4. \A w \in Worker : Careful(req[w]) /\ Loaded(req[w]) /\ req[w].op # "create"
    BY <1>1, <1>3 DEF Loaded
<1>5. QED
    BY <1>2, <1>4, LockInit DEF OwnInv, Creator

\* A step of w takes no hold from another order than its own.
Gives(w) == AtStep(w, "create", "undo") \/ req[w].pc = "release_del"

TakesNothing(w) ==
    \A s \in Seat : \/ holds'[s] = holds[s] \/ holds[s] = NoOrder
                    \/ holds[s] = req[w].o /\ Gives(w)

\* Another worker does not count on holds that w may give back.
LEMMA OthersHoldOn ==
    ASSUME OwnInv, NEW w \in Worker, TakesNothing(w), NEW v \in Worker \ {w},
           NEW p \in Order, req[v].o = p, req[v].op = "create" \/ req[v].pc = "release_del"
    PROVE  \A s \in Seat : holds[s] = p => holds'[s] = p
<1>1. p # NoOrder
    OBVIOUS
<1>2. TypeInv /\ Careful(req[v]) /\ Careful(req[w]) /\ Loaded(req[v]) /\ Loaded(req[w])
    BY DEF OwnInv, LockInv
<1>3. CASE AtStep(w, "create", "undo") /\ req[w].o = p
    <2>1. Creator(w, p)
        BY <1>3 DEF AtStep, Creator
    <2>2. ~Creator(v, p) /\ ~Stored(orders[p])
        BY <2>1 DEF OwnInv
    <2>3. QED
        BY <1>2, <2>2 DEF Creator, Careful, Loaded
<1>4. CASE req[w].pc = "release_del" /\ req[w].o = p
    <2>1. Flushed(w, p) /\ Stored(orders[p])
        BY <1>2, <1>4 DEF Careful, Loaded, Flushed, AfterFlush
    <2>2. ~Creator(v, p)
        BY <2>1 DEF OwnInv
    <2>3. Flushed(v, p)
        BY <1>2, <2>2 DEF Creator, Careful, Flushed, AfterFlush
    <2>4. QED
        BY <2>1, <2>3 DEF OwnInv, LockInv
<1>5. QED
    BY <1>1, <1>3, <1>4 DEF TakesNothing, Gives

\* What a list of seats, or a request, says of the holds is still true when
\* the seats of its order are still held.
LEMMA StillHolding ==
    ASSUME NEW p \in Order, \A s \in Seat : holds[s] = p => holds'[s] = p,
           NEW seats \in Seq(Seat), NEW from \in Nat \ {0}, NEW to \in Int,
           to <= Len(seats), Holding(seats, from, to, p)
    PROVE  Holding(seats, from, to, p)'
<1>1. \A n \in from..to : seats[n] \in Seat
    OBVIOUS
<1>2. QED
    BY <1>1 DEF Holding

LEMMA StillCareful ==
    ASSUME OwnInv, NEW w \in Worker, TakesNothing(w), NEW v \in Worker \ {w},
           req'[v] = req[v]
    PROVE  Careful(req[v])'
<1> DEFINE r == req[v]
<1>1. Careful(r) /\ TypeInv
    BY DEF OwnInv, LockInv
<1>2. CASE r.op = "create" \/ r.pc = "release_del"
    <2>1. /\ r.o \in Order /\ r.seats \in Seq(Seat) /\ r.i \in Nat \ {0}
          /\ r.order.seats \in Seq(Seat)
        <3>1. r.op # "none" \/ r.pc # "idle"
            BY <1>2
        <3>2. QED
            BY <1>1, <3>1, Serving DEF OrderRow
    <2>2. PICK p \in Order : p = r.o
        BY <2>1
    <2>3. \A s \in Seat : holds[s] = p => holds'[s] = p
        BY <1>2, <2>2, OthersHoldOn
    <2>4. r.op = "create" /\ r.pc = "hold" => Holding(r.seats, 1, r.i - 1, p)'
        BY <1>1, <2>1, <2>2, <2>3, StillHolding DEF Careful
    <2>5. r.op = "create" /\ r.pc = "undo" => Holding(r.seats, r.i, Len(r.seats), p)'
        BY <1>1, <2>1, <2>2, <2>3, StillHolding DEF Careful
    <2>6. r.op = "create" /\ r.pc = "commit" =>
             \A n \in DOMAIN r.order.seats : holds'[r.order.seats[n]] = p
        BY <1>1, <2>1, <2>2, <2>3 DEF Careful
    <2>7. r.pc = "release_del" => r.i <= Len(r.seats) /\ holds'[r.seats[r.i]] = p
        BY <1>1, <2>1, <2>2, <2>3 DEF Careful
    <2>8. QED
        BY <1>1, <2>2, <2>4, <2>5, <2>6, <2>7 DEF Careful, Holding, Fulfilling
<1>3. CASE r.op # "create" /\ r.pc # "release_del"
    BY <1>1, <1>3 DEF Careful, Fulfilling
<1>4. QED
    BY <1>2, <1>3

\* What a step that does not commit owes.
Tidy(w) ==
    /\ orders' = orders /\ issued \subseteq issued'
    /\ TakesNothing(w)
    /\ \A o \in Order :
          Creator(w, o)' => Creator(w, o) \/ (o \notin issued /\ o \in issued')
    /\ Careful(req[w])' /\ Loaded(req[w])'

LEMMA OwnStep ==
    ASSUME OwnInv, LockInv', NEW w \in Worker, Tidy(w),
           \A v \in Worker \ {w} : req'[v] = req[v]
    PROVE  OwnInv'
<1>1. \A v \in Worker \ {w}, o \in Order : Creator(v, o)' <=> Creator(v, o)
    BY DEF Creator
<1>2. ASSUME NEW v \in Worker PROVE Careful(req[v])' /\ Loaded(req[v])'
    <2>1. CASE v = w
        BY <2>1 DEF Tidy
    <2>2. CASE v # w
        BY <2>2, StillCareful DEF Tidy, OwnInv, Loaded
    <2>3. QED
        BY <2>1, <2>2
<1>3. ASSUME NEW v \in Worker, NEW o \in Order, Creator(v, o)'
      PROVE  /\ o \in issued' /\ ~Stored(orders'[o])
             /\ \A u \in Worker : Creator(u, o)' => u = v
    <2>1. CASE v = w
        <3>1. Creator(w, o) \/ (o \notin issued /\ o \in issued')
            BY <1>3, <2>1 DEF Tidy
        <3>2. /\ o \in issued' /\ ~Stored(orders[o])
              /\ \A u \in Worker : Creator(u, o) => u = w
            BY <3>1 DEF OwnInv, Tidy
        <3>3. QED
            BY <1>1, <2>1, <3>2 DEF Tidy
    <2>2. CASE v # w
        <3>1. /\ Creator(v, o) /\ o \in issued /\ ~Stored(orders[o]) /\ ~Creator(w, o)
              /\ \A u \in Worker : Creator(u, o) => u = v
            BY <1>1, <1>3, <2>2 DEF OwnInv
        <3>2. ~Creator(w, o)'
            BY <3>1 DEF Tidy
        <3>3. QED
            BY <1>1, <3>1, <3>2 DEF Tidy
    <2>3. QED
        BY <2>1, <2>2
<1>4. \A o \in Order : Stored(orders'[o]) => o \in issued'
    BY DEF OwnInv, Tidy
<1>5. QED
    BY <1>2, <1>3, <1>4 DEF OwnInv

\* A step that moves no hold and creates no order.
LEMMA QuietlyTidy ==
    ASSUME OwnInv, NEW w \in Worker, UNCHANGED <<orders, issued, holds>>,
           req'[w].op # "create", Careful(req[w])', Loaded(req[w])'
    PROVE  Tidy(w)
BY DEF Tidy, TakesNothing, Creator

\* A request that goes on has read its order before.
LEMMA StillLoaded ==
    ASSUME OwnInv, NEW w \in Worker, orders' = orders,
           req[w].op \notin {"none", "create"}, req'[w].o = req[w].o
    PROVE  Loaded(req[w])'
BY DEF OwnInv, Loaded

\* A request that ends, in whatever way.
LEMMA FinishTidy ==
    ASSUME OwnInv, NEW w \in Worker, Finish(w), UNCHANGED <<orders, issued, holds>>
    PROVE  Tidy(w)
<1>1. req'[w] = Idle
    BY NextRequest DEF OwnInv, LockInv
<1>2. Careful(req[w])' /\ Loaded(req[w])' /\ req'[w].op # "create"
    BY <1>1 DEF Careful, Loaded, Idle, Fulfilling
<1>3. QED
    BY <1>2, QuietlyTidy

LEMMA FailTidy ==
    ASSUME OwnInv, NEW w \in Worker, Fail(w)
    PROVE  Tidy(w)
<1>1. Finish(w) /\ UNCHANGED <<orders, issued, holds>>
    BY DEF Fail, RedisRaises, DatabaseRaises, CommitRaises, Crash, database, redis,
       history
<1>2. QED
    BY <1>1, FinishTidy

LEMMA ArriveTidy ==
    ASSUME Orderly, OwnInv, NEW w \in Worker, Arrive(w)
    PROVE  Tidy(w)
<1> DEFINE q == req'[w]
<1>0. TypeInv /\ holds' = holds
    BY DEF OwnInv, LockInv, Arrive, HandleCreateOrder, HandleConfirmPayment,
       HandleCancelOrder, HandleRefundOrder, redis
<1>1. UNCHANGED <<orders, holds>> /\ req[w].op = "none"
    BY <1>0, ArriveShape DEF Idle
<1>2. CASE /\ q.op = "create" /\ q.pc = "hold" /\ q.order = NewOrder /\ q.i = 1
           /\ q.o \in Order \ issued /\ issued' = issued \union {q.o}
    <2>1. Careful(req[w])'
        <3>1. q.seats \in Seq(Seat) /\ 0 <= Len(q.seats)
            <4>1. TypeInv'
                BY <1>0, TypeNext DEF Next
            <4>2. q \in Request
                BY <4>1 DEF TypeInv, TypeOK
            <4>3. q.seats \in Seq(Seat)
                BY <4>2 DEF Request
            <4>4. QED
                BY <4>3
        <3>2. q.order.status = "PENDING"
            BY <1>2 DEF NewOrder
        <3>3. QED
            BY <1>2, <3>1, <3>2 DEF Careful, Holding
    <2>2. \A o \in Order : Creator(w, o)' => o \notin issued /\ o \in issued'
        BY <1>2 DEF Creator
    <2>3. QED
        BY <1>1, <1>2, <2>1, <2>2 DEF Tidy, TakesNothing, Loaded
<1>3. CASE /\ q.op \in {"confirm", "refund"} /\ q.pc = "load_payment" /\ issued' = issued
           /\ q.order = orders[q.o] /\ Stored(q.order)
    <2>1. Careful(req[w])' /\ Loaded(req[w])'
        BY <1>1, <1>3 DEF Careful, Fulfilling, AfterFlush, Loaded
    <2>2. QED
        BY <1>1, <1>3, <2>1, QuietlyTidy
<1>4. QED
    BY <1>0, <1>2, <1>3, ArriveShape DEF Orderly

\* Before the provider is asked.
LEMMA AskTidy ==
    ASSUME OwnInv, NEW w \in Worker, LoadPayment(w) \/ CheckKey(w) \/ RaiseDeclined(w)
    PROVE  Tidy(w)
<1> DEFINE r == req[w]
           q == req'[w]
<1>1. /\ TypeInv /\ UNCHANGED <<orders, issued, holds>>
      /\ \/ r.op = "confirm" /\ r.pc \in {"load_payment", "key"}
         \/ r.op = "decline" /\ Finish(w)
    BY DEF OwnInv, LockInv, LoadPayment, CheckKey, RaiseDeclined, AllReleased, AtStep,
       database, redis, history
<1>2. CASE Finish(w)
    BY <1>1, <1>2, FinishTidy
<1>3. CASE q.op = "confirm" /\ q.pc \in Before /\ q.o = r.o /\ r.op = "confirm"
    <2>1. Careful(req[w])' /\ Loaded(req[w])'
        BY <1>1, <1>3, StillLoaded DEF Careful, Fulfilling, AfterFlush, Before
    <2>2. QED
        BY <1>1, <1>3, <2>1, QuietlyTidy
<1>4. \/ Finish(w)
      \/ q.op = r.op /\ r.pc \in Before /\ q.pc \in Before /\ q.o = r.o
      \/ r.pc \in Release
    BY <1>1, HoldsShape DEF SameOrder
<1>5. QED
    BY <1>1, <1>2, <1>3, <1>4 DEF Release

LEMMA ConfirmIntentTidy ==
    ASSUME Orderly, OwnInv, NEW w \in Worker, NEW p \in Order, ConfirmIntent(w, p)
    PROVE  Tidy(w)
<1> DEFINE r == req[w]
           q == req'[w]
<1>1. TypeInv /\ UNCHANGED <<orders, issued, holds>> /\ r.op = "confirm"
    BY DEF OwnInv, LockInv, ConfirmIntent, AtStep, database, redis
<1>2. CASE Finish(w)
    BY <1>1, <1>2, FinishTidy
<1>3. CASE q.op = "confirm" /\ q.pc = "plan" /\ q.o = r.o /\ q.order.status = "PAID"
    <2>1. Careful(req[w])' /\ Loaded(req[w])'
        BY <1>1, <1>3, StillLoaded DEF Careful, Fulfilling
    <2>2. QED
        BY <1>1, <1>3, <2>1, QuietlyTidy
<1>4. ~Declined(p)
    BY DEF Declined, Orderly
<1>5. QED
    BY <1>1, <1>2, <1>3, <1>4, ConfirmIntentShape

LEMMA FulfillTidy ==
    ASSUME OwnInv, NEW w \in Worker,
           \/ LoadPlan(w) \/ CreateOffer(w) \/ SetOffer(w)
           \/ AcceptOffer(w) \/ SetAccept(w) \/ FinishFulfillment(w)
    PROVE  Tidy(w)
<1> DEFINE r == req[w]
           q == req'[w]
<1>1. TypeInv /\ UNCHANGED holds
    BY DEF OwnInv, LockInv, LoadPlan, CreateOffer, SetOffer, AcceptOffer, SetAccept,
       FinishFulfillment, redis
<1>2. UNCHANGED <<orders, issued>> /\ Fulfilling(r) /\ r.op = "confirm"
    BY <1>1, FulfillShape DEF Fulfilling
<1>3. CASE Finish(w)
    BY <1>1, <1>2, <1>3, FinishTidy
<1>4. CASE q.op = "confirm" /\ SameOrder(q, r) /\ q.pc \in AfterFlush \ {"release_del"}
    <2>1. Careful(req[w])'
        <3>1. r.order.status \in {"PAID", "REFUNDED"}
            BY <1>2 DEF OwnInv, Careful
        <3>2. QED
            BY <1>4, <3>1 DEF Careful, SameOrder
    <2>2. Loaded(req[w])'
        BY <1>2, <1>4, StillLoaded DEF SameOrder
    <2>3. QED
        BY <1>1, <1>2, <1>4, <2>1, <2>2, QuietlyTidy
<1>5. QED
    BY <1>1, <1>2, <1>3, <1>4, FulfillShape

\* The GET names the order of the request, or the hold is passed over.
LEMMA GetHoldTidy ==
    ASSUME OwnInv, NEW w \in Worker, GetHold(w)
    PROVE  Tidy(w)
<1> DEFINE r == req[w]
           q == req'[w]
           inc == r.i + 1
<1>1. /\ TypeInv /\ UNCHANGED <<orders, issued, holds>>
      /\ r.pc = "release" /\ r.i <= Len(r.seats)
    BY DEF OwnInv, LockInv, GetHold, database, redis, history
<1>2. r \in Active /\ r \in Request /\ r.o \in Order
    BY <1>1, Serving DEF Active
<1>3. \/ q = [r EXCEPT !.pc = "release_del"] /\ holds[r.seats[r.i]] = r.o
      \/ q = [r EXCEPT !.i = inc]
    BY <1>1, Rewritten DEF GetHold, OwnsHold, Goto, NextSeat
<1> HIDE DEF inc
<1>4. /\ q.op = r.op /\ q.o = r.o /\ q.order = r.order /\ q.seats = r.seats
      /\ \/ q.pc = "release_del" /\ q.i = r.i /\ holds[r.seats[r.i]] = r.o
         \/ q.pc = "release"
    BY <1>1, <1>2, <1>3 DEF Request
<1>5. r.op = "confirm" /\ Careful(r)
    BY <1>1, <1>2 DEF Active, StepsOf, OwnInv, Careful
<1>6. Careful(req[w])'
    BY <1>1, <1>4, <1>5 DEF Careful, Fulfilling, AfterFlush
<1>7. QED
    BY <1>1, <1>4, <1>5, <1>6, StillLoaded, QuietlyTidy

LEMMA DeleteHoldTidy ==
    ASSUME OwnInv, NEW w \in Worker, DeleteHold(w)
    PROVE  Tidy(w)
<1> DEFINE r == req[w]
           q == req'[w]
           inc == r.i + 1
<1>1. /\ TypeInv /\ UNCHANGED <<orders, issued>>
      /\ r.pc = "release_del" /\ holds \in [Seat -> Order \union {NoOrder}]
      /\ holds' = [holds EXCEPT ![r.seats[r.i]] = NoOrder]
    BY DEF OwnInv, LockInv, TypeInv, TypeOK, DeleteHold, database, history
<1>2. r \in Active /\ r \in Request /\ r.o \in Order
    BY <1>1, Serving DEF Active
<1>3. q = [r EXCEPT !.pc = "release", !.i = inc]
    BY <1>1, Rewritten DEF DeleteHold
<1> HIDE DEF inc
<1>4. q.op = r.op /\ q.o = r.o /\ q.order = r.order /\ q.pc = "release"
    BY <1>2, <1>3 DEF Request
<1>5. r.op = "confirm" /\ Careful(r) /\ holds[r.seats[r.i]] = r.o
    BY <1>1 DEF OwnInv, Careful
<1>6. Careful(req[w])'
    BY <1>1, <1>4, <1>5 DEF Careful, Fulfilling, AfterFlush
<1>7. TakesNothing(w)
    BY <1>1, <1>5 DEF TakesNothing, Gives
<1>8. \A p \in Order : ~Creator(w, p)'
    BY <1>4, <1>5 DEF Creator
<1>9. QED
    BY <1>1, <1>4, <1>5, <1>6, <1>7, <1>8, StillLoaded DEF Tidy

LEMMA RefundTidy ==
    ASSUME OwnInv, NEW w \in Worker, \E full \in BOOLEAN : RefundLoaded(w, full)
    PROVE  Tidy(w)
<1> DEFINE r == req[w]
           q == req'[w]
<1>1. /\ TypeInv /\ UNCHANGED <<orders, issued, holds>>
      /\ r.op = "refund" /\ r.pc = "load_payment"
    BY DEF OwnInv, LockInv, RefundLoaded, AtStep, database, redis, history
<1>2. CASE Finish(w)
    BY <1>1, <1>2, FinishTidy
<1>3. CASE /\ q.op = "refund" /\ q.pc = "commit" /\ q.o = r.o
           /\ q.order.status = "REFUNDED"
    <2>1. Careful(req[w])' /\ Loaded(req[w])'
        BY <1>1, <1>3, StillLoaded DEF Careful, Fulfilling
    <2>2. QED
        BY <1>1, <1>3, <2>1, QuietlyTidy
<1>4. QED
    BY <1>1, <1>2, <1>3, ReadyShape

\* What Tidy asks of a step that takes or gives back a hold of a new order.
LEMMA CreatorTidy ==
    ASSUME OwnInv, NEW w \in Worker, UNCHANGED <<orders, issued>>,
           req[w].op = "create", req'[w].op = "create", req'[w].o = req[w].o,
           TakesNothing(w), Careful(req[w])'
    PROVE  Tidy(w)
BY DEF Tidy, Creator, Loaded

\* A seat that is free is none of those taken before it.
LEMMA OneMoreHold ==
    ASSUME NEW seats \in Seq(Seat), NEW k \in 1..Len(seats), NEW o \in Order,
           holds \in [Seat -> Order \union {NoOrder}], Holding(seats, 1, k - 1, o),
           holds[seats[k]] = NoOrder, holds' = [holds EXCEPT ![seats[k]] = o]
    PROVE  Holding(seats, 1, k, o)'
<1>1. seats[k] \in Seat /\ \A n \in 1..(k - 1) : seats[n] \in Seat
    OBVIOUS
<1>2. \A n \in 1..(k - 1) : holds[seats[n]] = o
    BY DEF Holding
<1>3. \A n, m \in 1..(k - 1) : seats[m] = seats[n] => m = n
    BY DEF Holding
<1>4. \A n \in 1..(k - 1) : seats[n] # seats[k]
    BY <1>2
<1>5. holds'[seats[k]] = o /\ \A n \in 1..(k - 1) : holds'[seats[n]] = o
    BY <1>1, <1>2
<1>6. \A n \in 1..k : n = k \/ n \in 1..(k - 1)
    OBVIOUS
<1>7. \A n \in 1..k : holds'[seats[n]] = o
    BY <1>5, <1>6
<1>8. \A n, m \in 1..k : seats[m] = seats[n] => m = n
    BY <1>3, <1>4, <1>6
<1>9. QED
    BY <1>7, <1>8 DEF Holding

\* Each seat is given back once.
LEMMA OneHoldLess ==
    ASSUME NEW seats \in Seq(Seat), NEW k \in 1..Len(seats), NEW o \in Order,
           holds \in [Seat -> Order \union {NoOrder}], Holding(seats, k, Len(seats), o),
           holds' = [holds EXCEPT ![seats[k]] = NoOrder]
    PROVE  Holding(seats, k + 1, Len(seats), o)'
<1> DEFINE Rest == (k + 1)..Len(seats)
<1>1. Rest \subseteq k..Len(seats) /\ k \in k..Len(seats) /\ k \notin Rest
    OBVIOUS
<1>2. \A n \in k..Len(seats) : seats[n] \in Seat
    OBVIOUS
<1>3. \A n \in k..Len(seats) : holds[seats[n]] = o
    BY DEF Holding
<1>4. \A n, m \in k..Len(seats) : seats[m] = seats[n] => m = n
    BY DEF Holding
<1> HIDE DEF Rest
<1>5. \A n \in Rest : seats[n] # seats[k]
    BY <1>1, <1>4
<1>6. \A n \in Rest : holds'[seats[n]] = o
    BY <1>1, <1>2, <1>3, <1>5
<1>7. \A n, m \in Rest : seats[m] = seats[n] => m = n
    BY <1>1, <1>4
<1>8. QED
    BY <1>6, <1>7 DEF Holding, Rest

LEMMA AcquireHoldTidy ==
    ASSUME OwnInv, NEW w \in Worker, AcquireHold(w)
    PROVE  Tidy(w)
<1> DEFINE r == req[w]
           q == req'[w]
           inc == r.i + 1
           acquired == SubSeq(r.seats, 1, r.i - 1)
<1>1. /\ TypeInv /\ UNCHANGED <<orders, issued>>
      /\ r.op = "create" /\ r.pc = "hold" /\ r.i <= Len(r.seats)
      /\ holds \in [Seat -> Order \union {NoOrder}]
    BY DEF OwnInv, LockInv, TypeInv, TypeOK, AcquireHold, AtStep, database, history
<1>2. /\ r \in Request /\ r.o \in Order /\ r.seats \in Seq(Seat)
      /\ r.i \in 1..Len(r.seats)
    BY <1>1, Serving DEF Active
<1>3. PICK o \in Order, seats \in Seq(Seat), k \in Nat \ {0} :
         o = r.o /\ seats = r.seats /\ k = r.i
    BY <1>2
<1>4. r.order.status = "PENDING" /\ Holding(seats, 1, k - 1, o) /\ k \in 1..Len(seats)
    BY <1>1, <1>2, <1>3 DEF OwnInv, Careful
<1>5. CASE /\ holds[seats[k]] = NoOrder /\ holds' = [holds EXCEPT ![seats[k]] = o]
           /\ q = [r EXCEPT !.i = inc]
    <2>1. Holding(seats, 1, k, o)'
        BY <1>1, <1>4, <1>5, OneMoreHold
    <2> HIDE DEF inc
    <2>2. /\ q.op = "create" /\ q.pc = "hold" /\ q.o = o /\ q.seats = seats
          /\ q.order = r.order /\ q.i = inc
        BY <1>1, <1>2, <1>3, <1>5 DEF Request
    <2>3. q.i - 1 = k /\ k <= Len(seats)
        BY <1>3, <1>4, <2>2 DEF inc
    <2>4. Careful(req[w])'
        BY <1>4, <2>1, <2>2, <2>3 DEF Careful
    <2>5. TakesNothing(w)
        BY <1>1, <1>5 DEF TakesNothing
    <2>6. QED
        BY <1>1, <1>3, <2>2, <2>4, <2>5, CreatorTidy
<1>6. CASE q = [r EXCEPT !.pc = "undo", !.i = 1, !.seats = acquired] /\ holds' = holds
    <2>1. PICK mine \in Seq(Seat) : /\ mine = acquired /\ Len(mine) = k - 1
                                    /\ \A n \in 1..(k - 1) : mine[n] = seats[n]
        <3>1. /\ SubSeq(seats, 1, k - 1) \in Seq(Seat)
              /\ Len(SubSeq(seats, 1, k - 1)) = k - 1
              /\ \A n \in 1..(k - 1) : SubSeq(seats, 1, k - 1)[n] = seats[n]
            BY <1>4, AcquiredSeats
        <3>2. acquired = SubSeq(seats, 1, k - 1)
            BY <1>3
        <3> HIDE DEF acquired
        <3>3. QED
            BY <3>1, <3>2
    <2> HIDE DEF acquired
    <2>2. Holding(mine, 1, Len(mine), o)'
        <3>1. \A n \in 1..(k - 1) :
                 /\ holds[seats[n]] = o
                 /\ \A m \in 1..(k - 1) : seats[m] = seats[n] => m = n
            BY <1>4 DEF Holding
        <3>2. \A n \in 1..(k - 1) :
                 /\ holds'[mine[n]] = o
                 /\ \A m \in 1..(k - 1) : mine[m] = mine[n] => m = n
            BY <1>6, <2>1, <3>1
        <3>3. QED
            BY <2>1, <3>2 DEF Holding
    <2>3. q.op = "create" /\ q.pc = "undo" /\ q.o = o /\ q.i = 1 /\ q.seats = mine
        BY <1>1, <1>2, <1>3, <1>6, <2>1 DEF Request
    <2>4. Careful(req[w])'
        BY <2>2, <2>3 DEF Careful
    <2>5. TakesNothing(w)
        BY <1>6 DEF TakesNothing
    <2>6. QED
        BY <1>1, <1>3, <2>3, <2>4, <2>5, CreatorTidy
<1>7. QED
    BY <1>1, <1>3, <1>5, <1>6, Rewritten DEF AcquireHold, HoldFree, NextSeat

LEMMA UndoHoldTidy ==
    ASSUME OwnInv, NEW w \in Worker, UndoHold(w)
    PROVE  Tidy(w)
<1> DEFINE r == req[w]
           q == req'[w]
           inc == r.i + 1
<1>1. /\ TypeInv /\ UNCHANGED <<orders, issued>>
      /\ r.op = "create" /\ r.pc = "undo"
      /\ holds \in [Seat -> Order \union {NoOrder}]
    BY DEF OwnInv, LockInv, TypeInv, TypeOK, UndoHold, AtStep, database, history
<1>2. /\ r \in Request /\ r.o \in Order /\ r.seats \in Seq(Seat) /\ r.i \in Nat \ {0}
    BY <1>1, Serving DEF Active
<1>3. PICK o \in Order, seats \in Seq(Seat), k \in Nat \ {0} :
         o = r.o /\ seats = r.seats /\ k = r.i
    BY <1>2
<1>4. Holding(seats, k, Len(seats), o)
    BY <1>1, <1>3 DEF OwnInv, Careful
<1>5. CASE /\ k <= Len(seats) /\ holds' = [holds EXCEPT ![seats[k]] = NoOrder]
           /\ q = [r EXCEPT !.i = inc]
    <2>1. k \in 1..Len(seats) /\ k \in k..Len(seats)
        BY <1>5
    <2>2. Holding(seats, k + 1, Len(seats), o)'
        BY <1>1, <1>4, <1>5, <2>1, OneHoldLess
    <2>3. seats[k] \in Seat /\ holds[seats[k]] = o
        BY <1>4, <2>1 DEF Holding
    <2>4. inc = k + 1
        BY <1>3
    <2> HIDE DEF inc
    <2>5. /\ q.op = "create" /\ q.pc = "undo" /\ q.o = o /\ q.seats = seats
          /\ q.i = inc
        BY <1>1, <1>2, <1>3, <1>5 DEF Request
    <2>6. Careful(req[w])'
        BY <2>2, <2>4, <2>5 DEF Careful
    <2>7. TakesNothing(w)
        BY <1>1, <1>3, <1>5, <2>3 DEF TakesNothing, Gives, AtStep
    <2>8. QED
        BY <1>1, <1>3, <2>5, <2>6, <2>7, CreatorTidy
<1>6. CASE Finish(w) /\ holds' = holds
    BY <1>1, <1>6, FinishTidy
<1>7. QED
    BY <1>1, <1>3, <1>5, <1>6, Rewritten DEF UndoHold, NextSeat

\* The seats of the order that is stored are those the request holds.
LEMMA InitiatedSeats ==
    ASSUME NEW order \in OrderRow, NEW seats \in Seq(Seat)
    PROVE  /\ InitiatePayment(ReserveSeats(order, seats)).seats = seats
           /\ InitiatePayment(ReserveSeats(order, seats)).status = "PAYMENT_INITIATED"
<1> DEFINE moved == MoveOrder(order, "SEATS_RESERVED")
           reserved == [moved EXCEPT !.seats = seats]
<1>1. moved \in OrderRow
    BY MoveOrderType DEF OrderStatus
<1> HIDE DEF moved
<1>2. reserved \in OrderRow /\ reserved.seats = seats
    BY <1>1 DEF OrderRow
<1>3. ReserveSeats(order, seats) = reserved
    BY DEF ReserveSeats, moved
<1> HIDE DEF reserved
<1> DEFINE next == reserved.version + 1
<1> HIDE DEF next
<1> DEFINE initiated == [reserved EXCEPT !.status = "PAYMENT_INITIATED", !.version = next]
<1>4. initiated.seats = seats /\ initiated.status = "PAYMENT_INITIATED"
    BY <1>2 DEF OrderRow
<1>5. MoveOrder(reserved, "PAYMENT_INITIATED") = initiated
    BY DEF MoveOrder, next
<1>6. QED
    BY <1>3, <1>4, <1>5 DEF InitiatePayment

LEMMA CreateIntentTidy ==
    ASSUME OwnInv, NEW w \in Worker, CreateIntent(w)
    PROVE  Tidy(w)
<1> DEFINE r == req[w]
           q == req'[w]
           initiated == InitiatePayment(ReserveSeats(r.order, r.seats))
           created == [r EXCEPT !.pc = "commit", !.i = 1, !.order = initiated,
                                !.payment = NewPayment]
<1>1. /\ TypeInv /\ UNCHANGED <<orders, issued, holds>>
      /\ r.op = "create" /\ r.pc = "hold" /\ r.i > Len(r.seats)
    BY DEF OwnInv, LockInv, CreateIntent, AtStep, database, redis, history
<1>2. /\ r \in Request /\ r.o \in Order /\ r.seats \in Seq(Seat) /\ r.i \in Nat \ {0}
      /\ r.order \in OrderRow
    BY <1>1, Serving DEF Active
<1>3. /\ r.order.status = "PENDING" /\ r.i - 1 = Len(r.seats)
      /\ Holding(r.seats, 1, Len(r.seats), r.o)
    <2>1. /\ r.order.status = "PENDING" /\ r.i - 1 <= Len(r.seats)
          /\ Holding(r.seats, 1, r.i - 1, r.o)
        BY <1>1 DEF OwnInv, Careful
    <2>2. r.i - 1 = Len(r.seats)
        BY <1>1, <1>2, <2>1
    <2>3. QED
        BY <2>1, <2>2
<1>4. TakesNothing(w)
    BY <1>1 DEF TakesNothing
<1>5. CASE Finish(w)
    BY <1>1, <1>5, FinishTidy
<1>6. CASE q = created /\ r.seats # <<>>
    <2>1. initiated.seats = r.seats /\ initiated.status = "PAYMENT_INITIATED"
        BY <1>2, InitiatedSeats
    <2> HIDE DEF initiated
    <2>2. q.op = "create" /\ q.pc = "commit" /\ q.o = r.o /\ q.order = initiated
        BY <1>1, <1>2, <1>6 DEF Request
    <2>3. \A n \in DOMAIN r.seats : holds'[r.seats[n]] = r.o
        <3>1. \A n \in 1..Len(r.seats) : holds[r.seats[n]] = r.o
            BY <1>3 DEF Holding
        <3>2. DOMAIN r.seats = 1..Len(r.seats)
            BY <1>2
        <3>3. QED
            BY <1>1, <3>1, <3>2
    <2>4. q.order.seats = r.seats /\ q.order.status = "PAYMENT_INITIATED"
        BY <2>1, <2>2
    <2>5. \A n \in DOMAIN q.order.seats : holds'[q.order.seats[n]] = q.o
        BY <2>2, <2>3, <2>4
    <2>6. Careful(req[w])'
        BY <2>2, <2>4, <2>5 DEF Careful, Fulfilling
    <2>7. QED
        BY <1>1, <1>4, <2>2, <2>6, CreatorTidy
<1>7. Finish(w) \/ (q = created /\ r.seats # <<>>)
    <2>1. CASE r.seats = <<>>
        BY <1>3, <2>1 DEF CreateIntent, CanInitiatePayment
    <2>2. CASE r.seats # <<>>
        BY <1>1, <2>2, Rewritten DEF CreateIntent
    <2>3. QED
        BY <2>1, <2>2
<1>8. QED
    BY <1>5, <1>6, <1>7

\* The end of a request stores its order; only a new one waits for its payment.
LEMMA CommitOwn ==
    ASSUME OwnInv, LockInv', NEW w \in Worker, Commit(w),
           \A v \in Worker \ {w} : req'[v] = req[v]
    PROVE  OwnInv'
<1> DEFINE r == req[w]
           row == r.order
<1>1. /\ TypeInv /\ UNCHANGED <<issued, holds>>
      /\ r.pc = "commit" /\ orders' = [orders EXCEPT ![r.o] = row]
      /\ orders \in [Order -> OrderRow] /\ req'[w] = Idle
    BY NextRequest DEF OwnInv, LockInv, TypeInv, TypeOK, Commit, redis, history
<1>2. PICK o \in Order : o = r.o
    BY <1>1, Serving
<1>3. Stored(row) /\ o \in issued
    BY <1>1, <1>2, Serving DEF OwnInv, Careful, Loaded, Creator, Stored, Active, StepsOf
<1>4. \A p \in Order : orders'[p] = IF p = o THEN row ELSE orders[p]
    BY <1>1, <1>2
<1> HIDE DEF row
<1>5. \A p \in Order : Stored(orders[p]) => Stored(orders'[p])
    BY <1>3, <1>4
<1>6. \A v \in Worker, p \in Order : Creator(v, p)' => v # w /\ Creator(v, p)
    BY <1>1 DEF Creator, Idle
<1>7. ASSUME NEW v \in Worker PROVE Careful(req[v])' /\ Loaded(req[v])'
    <2>1. CASE v = w
        BY <1>1, <2>1 DEF Careful, Loaded, Idle, Fulfilling
    <2>2. CASE v # w
        <3>1. Careful(req[v])'
            BY <1>1, <2>2 DEF OwnInv, Careful, Holding, Fulfilling
        <3>2. ASSUME req[v].op \notin {"none", "create"} PROVE Stored(orders'[req[v].o])
            <4>1. req[v].o \in Order
                BY <1>1, <3>2, Serving
            <4>2. QED
                BY <1>5, <3>2, <4>1 DEF OwnInv, Loaded
        <3>3. QED
            BY <2>2, <3>1, <3>2 DEF Loaded
    <2>3. QED
        BY <2>1, <2>2
<1>8. ASSUME NEW v \in Worker, NEW p \in Order, Creator(v, p)'
      PROVE  /\ p \in issued' /\ ~Stored(orders'[p])
             /\ \A u \in Worker : Creator(u, p)' => u = v
    <2>1. /\ v # w /\ p \in issued /\ ~Stored(orders[p])
          /\ \A u \in Worker : Creator(u, p) => u = v
        BY <1>6, <1>8 DEF OwnInv
    <2>2. p # o
        <3>1. r.op = "create" => Creator(w, o)
            BY <1>2 DEF Creator
        <3>2. r.op # "create" => Stored(orders[o])
            BY <1>1, <1>2, Serving DEF OwnInv, Loaded, Active
        <3>3. QED
            BY <2>1, <3>1, <3>2
    <2>3. QED
        BY <1>1, <1>4, <1>6, <2>1, <2>2
<1>9. \A p \in Order : Stored(orders'[p]) => p \in issued'
    BY <1>1, <1>3, <1>4 DEF OwnInv
<1>10. QED
    BY <1>7, <1>8, <1>9 DEF OwnInv

\* A hold that expires is none of those a request counts on.
LEMMA ExpireOwn ==
    ASSUME Orderly, OwnInv, LockInv', NEW s \in Seat, ExpireHold(s)
    PROVE  OwnInv'
<1>1. /\ UNCHANGED <<orders, issued, req>>
      /\ holds \in [Seat -> Order \union {NoOrder}]
      /\ holds' = [holds EXCEPT ![s] = NoOrder]
      /\ \A w \in Worker : req[w].o # holds[s]
    BY DEF Orderly, ExpireHold, OwnInv, LockInv, TypeInv, TypeOK, database, history
<1>2. \A w \in Worker, t \in Seat : holds[t] = req[w].o => holds'[t] = req[w].o
    BY <1>1
<1>3. ASSUME NEW w \in Worker PROVE Careful(req[w])'
    <2> DEFINE r == req[w]
    <2>1. Careful(r) /\ TypeInv
        BY DEF OwnInv, LockInv
    <2>2. CASE r.op = "create" \/ r.pc = "release_del"
        <3>1. /\ r.o \in Order /\ r.seats \in Seq(Seat) /\ r.i \in Nat \ {0}
              /\ r.order.seats \in Seq(Seat)
            <4>1. r.op # "none" \/ r.pc # "idle"
                BY <2>2
            <4>2. QED
                BY <2>1, <4>1, Serving DEF OrderRow
        <3>2. PICK p \in Order : p = r.o
            BY <3>1
        <3>3. \A t \in Seat : holds[t] = p => holds'[t] = p
            BY <1>2, <3>2
        <3>4. r.op = "create" /\ r.pc = "hold" => Holding(r.seats, 1, r.i - 1, p)'
            BY <2>1, <3>1, <3>2, <3>3, StillHolding, <1>1 DEF Careful
        <3>5. r.op = "create" /\ r.pc = "undo" => Holding(r.seats, r.i, Len(r.seats), p)'
            BY <2>1, <3>1, <3>2, <3>3, StillHolding, <1>1 DEF Careful
        <3>6. r.op = "create" /\ r.pc = "commit" =>
                 \A n \in DOMAIN r.order.seats : holds'[r.order.seats[n]] = p
            BY <2>1, <3>1, <3>2, <3>3 DEF Careful
        <3>7. r.pc = "release_del" => r.i <= Len(r.seats) /\ holds'[r.seats[r.i]] = p
            BY <2>1, <3>1, <3>2, <3>3 DEF Careful
        <3>8. QED
            BY <1>1, <2>1, <3>2, <3>4, <3>5, <3>6, <3>7 DEF Careful, Holding, Fulfilling
    <2>3. CASE r.op # "create" /\ r.pc # "release_del"
        BY <1>1, <2>1, <2>3 DEF Careful, Fulfilling
    <2>4. QED
        BY <2>2, <2>3
<1>4. QED
    BY <1>1, <1>3 DEF OwnInv, Creator, Loaded

\* A step of a worker that does not commit.
LEMMA WorkerTidy ==
    ASSUME Orderly, OwnInv, NEW w \in Worker, Arrive(w) \/ Serve(w) \/ Fail(w), ~Commit(w)
    PROVE  Tidy(w)
<1>1. ~CancelLoaded(w)
    BY DEF OwnInv, Careful, CancelLoaded, AllReleased, AtStep
<1>2. CASE Serve(w)
    BY <1>1, <1>2, AcquireHoldTidy, UndoHoldTidy, CreateIntentTidy, AskTidy,
       ConfirmIntentTidy, FulfillTidy, GetHoldTidy, DeleteHoldTidy, RefundTidy DEF Serve
<1>3. QED
    BY <1>2, ArriveTidy, FailTidy

LEMMA OwnNext ==
    ASSUME Orderly
    PROVE  OwnInv /\ [Next]_vars => OwnInv'
<1> SUFFICES ASSUME OwnInv, [Next]_vars PROVE OwnInv'
    OBVIOUS
<1>1. TypeInv /\ LockInv'
    BY LockNext DEF OwnInv, LockInv
<1>2. ASSUME NEW w \in Worker, Arrive(w) \/ Serve(w) \/ Fail(w) PROVE OwnInv'
    <2>1. \A v \in Worker \ {w} : req'[v] = req[v]
        BY <1>1, <1>2, OwnRequest
    <2>2. CASE Commit(w)
        BY <1>1, <2>1, <2>2, CommitOwn
    <2>3. CASE ~Commit(w)
        BY <1>1, <1>2, <2>1, <2>3, WorkerTidy, OwnStep
    <2>4. QED
        BY <2>2, <2>3
<1>3. ASSUME (\E o \in Order : AuthorizePayment(o)) \/ UNCHANGED vars PROVE OwnInv'
    <2>1. UNCHANGED <<orders, holds, issued, req>>
        BY <1>3 DEF AuthorizePayment, vars, database, redis, history
    <2>2. QED
        BY <1>1, <2>1 DEF OwnInv, Creator, Careful, Loaded, Holding, Fulfilling
<1>4. QED
    BY <1>1, <1>2, <1>3, ExpireOwn DEF Next

LEMMA OwnEntitles == ASSUME OwnInv PROVE \A w \in Worker : Entitled(w)
<1> SUFFICES ASSUME NEW w \in Worker PROVE Entitled(w)
    OBVIOUS
<1> DEFINE r == req[w]
<1>1. Careful(r) /\ TypeInv
    BY DEF OwnInv, LockInv
<1>2. CASE AtStep(w, "create", "undo") /\ r.i <= Len(r.seats)
    <2>1. r.i \in Nat /\ r.seats \in Seq(Seat)
        BY <1>1, <1>2, Serving DEF AtStep
    <2>2. r.i \in r.i..Len(r.seats)
        BY <1>2, <2>1
    <2>3. QED
        BY <1>1, <1>2, <2>2 DEF Careful, Holding, AtStep, Entitled
<1>3. QED
    BY <1>1, <1>2 DEF Careful, Entitled

\* Any number of concurrent requests, crashing and failing, give back only the
\* holds of their own order (seat_holds.py:44), as long as nobody cancels, no
\* payment is declined and no hold expires under the request it belongs to: an
\* id is drawn once, an order is not read before it is stored, and the locks of
\* its rows let one confirmation at a time give its seats back.
THEOREM OrderlyRequestsReleaseOwn ==
    ASSUME Orderly
    PROVE  Spec => OnlyOwnerReleases
<1>1. Init => OwnInv
    BY OwnInit
<1>2. OwnInv /\ [Next]_vars => OwnInv'
    BY OwnNext
<1>3. OwnInv /\ [Next]_vars => GivesBackOwn
    BY OwnEntitles, EntitledGivesBackOwn DEF OwnInv, LockInv
<1>4. QED
    BY <1>1, <1>2, <1>3, PTL DEF Spec, OnlyOwnerReleases

-----------------------------------------------------------------------------
(* Two checkouts never share a seat                                        *)

\* Nothing fails or expires, nobody cancels and no payment is declined.
Calm ==
    /\ HoldExpiry = "never" /\ "cancel" \notin Requests /\ OverLimit = {}
    /\ Faults = {} /\ MayRaise = {} /\ ~Crashes

SeatsInv == OwnInv /\ CheckoutHoldsSeats

\* A worker at the end of its confirmation may give back the order's seats.
Ending(w, o) == Flushed(w, o) /\ req[w].pc \in {"release", "release_del", "commit"}

\* It stays there until it commits.
LEMMA EndingGoesOn ==
    ASSUME Calm, TypeInv, NEW w \in Worker, Arrive(w) \/ Serve(w), ~Commit(w),
           NEW o \in Order, Ending(w, o)
    PROVE  Ending(w, o)'
<1> DEFINE r == req[w]
           q == req'[w]
           inc == r.i + 1
<1>1. /\ r.op = "confirm" /\ r.pc \in {"release", "release_del", "commit"} /\ r.o = o
      /\ r \in Request
    BY DEF Ending, Flushed, TypeInv, TypeOK
<1>2. ~Arrive(w)
    BY <1>1, ArriveShape DEF Idle
<1>3. GetHold(w) \/ DeleteHold(w) \/ FinishFulfillment(w)
    BY <1>1, <1>2 DEF Serve, AcquireHold, UndoHold, CreateIntent, LoadPayment, CheckKey,
       ConfirmIntent, LoadPlan, CreateOffer, SetOffer, AcceptOffer, SetAccept,
       RaiseDeclined, CancelLoaded, RefundLoaded, AllReleased, AtStep
<1>4. \/ q = [r EXCEPT !.i = inc] /\ r.pc = "release"
      \/ q = [r EXCEPT !.pc = "release_del"]
      \/ q = [r EXCEPT !.pc = "release", !.i = inc]
      \/ q = [r EXCEPT !.pc = "commit", !.i = 1]
    <2>1. CASE FinishFulfillment(w)
        BY <2>1, Rewritten DEF FinishFulfillment, Calm
    <2>2. CASE GetHold(w) \/ DeleteHold(w)
        BY <2>2, Rewritten DEF GetHold, DeleteHold, Goto, NextSeat
    <2>3. QED
        BY <1>3, <2>1, <2>2
<1> HIDE DEF inc
<1>5. q.op = "confirm" /\ q.pc \in {"release", "release_del", "commit"} /\ q.o = o
    BY <1>1, <1>4 DEF Request
<1>6. QED
    BY <1>5 DEF Ending, Flushed, AfterFlush

LEMMA SeatsStep ==
    ASSUME SeatsInv, NEW w \in Worker, Tidy(w),
           \A o \in Order : Ending(w, o) => Ending(w, o)',
           \A v \in Worker \ {w} : req'[v] = req[v]
    PROVE  CheckoutHoldsSeats'
<1>1. ASSUME NEW o \in Order, orders[o].status = "PAYMENT_INITIATED", ~Releasing(o)',
             NEW n \in DOMAIN orders[o].seats
      PROVE  holds'[orders[o].seats[n]] = o
    <2> DEFINE s == orders[o].seats[n]
    <2>1. ~Releasing(o)
        <3>1. \A v \in Worker : Ending(v, o) => Ending(v, o)'
            BY DEF Ending, Flushed
        <3>2. QED
            BY <1>1, <3>1 DEF Releasing, Ending, Flushed
    <2>2. s \in Seat /\ holds[s] = o /\ o # NoOrder
        BY <1>1, <2>1 DEF SeatsInv, OwnInv, LockInv, TypeInv, TypeOK, OrderRow,
           CheckoutHoldsSeats
    <2>3. ASSUME o = req[w].o, Gives(w) PROVE FALSE
        <3>1. CASE AtStep(w, "create", "undo")
            BY <1>1, <2>3, <3>1 DEF SeatsInv, OwnInv, Creator, AtStep, Stored
        <3>2. CASE req[w].pc = "release_del"
            BY <2>1, <2>3, <3>2 DEF SeatsInv, OwnInv, Careful, Releasing, Flushed,
               AfterFlush
        <3>3. QED
            BY <2>3, <3>1, <3>2 DEF Gives
    <2> HIDE DEF s
    <2>4. holds'[s] = o
        BY <2>2, <2>3 DEF Tidy, TakesNothing
    <2>5. QED
        BY <2>4 DEF s
<1>2. orders' = orders
    BY DEF Tidy
<1>3. QED
    BY <1>1, <1>2 DEF CheckoutHoldsSeats

\* Only a new order is stored as waiting for its payment.
LEMMA CommitSeats ==
    ASSUME SeatsInv, NEW w \in Worker, Commit(w),
           \A v \in Worker \ {w} : req'[v] = req[v]
    PROVE  CheckoutHoldsSeats'
<1> DEFINE r == req[w]
           row == r.order
<1>1. /\ TypeInv /\ UNCHANGED holds
      /\ r.pc = "commit" /\ orders' = [orders EXCEPT ![r.o] = row]
      /\ orders \in [Order -> OrderRow]
    BY DEF SeatsInv, OwnInv, LockInv, TypeInv, TypeOK, Commit, redis
<1>2. PICK o \in Order : o = r.o
    BY <1>1, Serving
<1>3. row.status = "PAYMENT_INITIATED" => \A n \in DOMAIN row.seats : holds[row.seats[n]] = o
    BY <1>1, <1>2 DEF SeatsInv, OwnInv, Careful
<1>4. \A p \in Order : orders'[p] = IF p = o THEN row ELSE orders[p]
    BY <1>1, <1>2
<1> HIDE DEF row
<1>5. ASSUME NEW p \in Order, orders'[p].status = "PAYMENT_INITIATED", ~Releasing(p)',
             NEW n \in DOMAIN orders'[p].seats
      PROVE  holds'[orders'[p].seats[n]] = p
    <2>1. CASE p = o
        BY <1>1, <1>3, <1>4, <1>5, <2>1
    <2>2. CASE p # o
        <3>1. ~Releasing(p)
            <4>1. \A v \in Worker : Flushed(v, p) => v # w
                BY <1>2, <2>2 DEF Flushed
            <4>2. QED
                BY <1>5, <4>1 DEF Releasing, Flushed
        <3>2. QED
            BY <1>1, <1>4, <1>5, <2>2, <3>1 DEF SeatsInv, CheckoutHoldsSeats
    <2>3. QED
        BY <2>1, <2>2
<1>6. QED
    BY <1>5 DEF CheckoutHoldsSeats

LEMMA SeatsNext ==
    ASSUME Calm
    PROVE  SeatsInv /\ [Next]_vars => SeatsInv'
<1> SUFFICES ASSUME SeatsInv, [Next]_vars PROVE SeatsInv'
    OBVIOUS
<1>1. Orderly /\ TypeInv /\ OwnInv'
    BY OwnNext DEF Calm, Orderly, SeatsInv, OwnInv, LockInv
<1>2. ASSUME NEW w \in Worker, Arrive(w) \/ Serve(w) \/ Fail(w) PROVE CheckoutHoldsSeats'
    <2>1. \A v \in Worker \ {w} : req'[v] = req[v]
        BY <1>1, <1>2, OwnRequest
    <2>2. ~Fail(w)
        BY DEF Calm, Fail, RedisRaises, DatabaseRaises, CommitRaises, WriteRaises, Crash
    <2>3. CASE Commit(w)
        BY <2>1, <2>3, CommitSeats
    <2>4. CASE ~Commit(w)
        <3>1. Tidy(w)
            BY <1>1, <1>2, <2>4, WorkerTidy DEF SeatsInv
        <3>2. \A o \in Order : Ending(w, o) => Ending(w, o)'
            BY <1>1, <1>2, <2>2, <2>4, EndingGoesOn
        <3>3. QED
            BY <2>1, <3>1, <3>2, SeatsStep
    <2>5. QED
        BY <2>3, <2>4
<1>3. ASSUME \/ \E s \in Seat : ExpireHold(s)
             \/ \E o \in Order : AuthorizePayment(o)
             \/ UNCHANGED vars
      PROVE  CheckoutHoldsSeats'
    <2>1. UNCHANGED <<orders, holds, req>>
        BY <1>3 DEF Calm, ExpireHold, AuthorizePayment, vars, database, redis
    <2>2. QED
        BY <2>1 DEF SeatsInv, CheckoutHoldsSeats, Releasing, Flushed
<1>4. QED
    BY <1>1, <1>2, <1>3 DEF Next, SeatsInv

\* As long as no hold expires, nothing fails, nobody cancels and no payment is
\* declined, an order that waits for its payment holds all of its seats, until
\* its confirmation gives them back: no two checkouts share a seat
\* (ticketmaster.py:428-449, handlers.py:63-66).
THEOREM CheckoutsShareNoSeat ==
    ASSUME Calm
    PROVE  Spec => []CheckoutHoldsSeats
<1>1. Init => SeatsInv
    BY OwnInit DEF SeatsInv, CheckoutHoldsSeats, Init, NoOrderRow
<1>2. SeatsInv /\ [Next]_vars => SeatsInv'
    BY SeatsNext
<1>3. SeatsInv => CheckoutHoldsSeats
    BY DEF SeatsInv
<1>4. QED
    BY <1>1, <1>2, <1>3, PTL DEF Spec
=============================================================================
