---------------------- MODULE TicketmasterClientProofs ----------------------
(***************************************************************************)
(* Threads that renew the OAuth token together never send an expired one,  *)
(* for any threads, lives and stalls within Buffer >= 3 * MaxStall.  The   *)
(* inductive invariant follows the token from the grant to the request:    *)
(* each step on the way costs it at most MaxStall, and two steps at most   *)
(* separate the expiry the code remembers from the real one.               *)
(*                                                                         *)
(* The second half is about the bucket of RateMeter: what a call of one    *)
(* thread adds to the meter it takes out of the bucket.                    *)
(***************************************************************************)
EXTENDS RateMeter, FiniteSetTheorems, TLAPS

CallRecord == [pc : Steps, attempt : 0..(MaxAttempts - 1), wait : Nat,
               stall : 0..MaxStall, ago : 0..(2 * MaxStall), refilled : Int,
               bearer : 0..Life]

\* What holds of a call while the adapter's token is good for `good'.
CallOK(c, good) ==
    /\ c \in CallRecord
    /\ c.refilled <= Full
    /\ c.pc \in Working => c.wait = 0
    /\ c.pc = "refill" => c.ago <= c.stall
    /\ c.pc = "take" => c.ago <= MaxStall + c.stall
    /\ c.pc = "store_token" => c.bearer >= Life - c.stall
    /\ c.pc = "store_expiry" => good >= Life - MaxStall - c.stall
    /\ c.pc = "send" => c.bearer > MaxStall - c.stall

BucketOK == bucket \in [tokens : 0..Full, since : 0..LongAgo]

TokenOK ==
    /\ token \in [good : 0..Life, trusted : 0..Life]
    /\ token.good >= token.trusted - 2 * MaxStall

IInv ==
    /\ BucketOK
    /\ TokenOK
    /\ calls = [t \in Thread |-> calls[t]]
    /\ \A t \in Thread : CallOK(calls[t], token.good)

USE DEF MaxAttempts

LEMMA Constants ==
    /\ Full \in Nat /\ Full >= 2 * Unit /\ Unit \in Nat /\ Unit > 0
    /\ LongAgo \in Nat /\ LongAgo = Full + 2 * MaxStall
    /\ MaxStall \in Nat /\ Life \in Nat /\ Buffer \in Nat
    /\ Buffer >= 3 * MaxStall /\ Life > Buffer
<1>1. Capacity \in Nat /\ Capacity >= 2 /\ Unit \in Nat /\ Unit > 0
  BY ClientAssumption
<1>2. Capacity * Unit \in Nat /\ Capacity * Unit >= 2 * Unit
  BY <1>1
<1>. QED  BY <1>1, <1>2, ClientAssumption DEF Full, LongAgo

LEMMA Small == ASSUME NEW n \in Nat PROVE Less(n) \in Nat /\ Less(n) <= n /\ Less(n) >= n - 1
BY DEF Less

-----------------------------------------------------------------------------
(* One call moves on; the rest stays *)

LEMMA Moves ==
    ASSUME IInv, NEW t \in Thread, NEW d, CallOK(d, token.good),
           calls' = [calls EXCEPT ![t] = d], UNCHANGED token, BucketOK'
    PROVE  IInv'
<1>1. TokenOK' /\ token.good' = token.good
  BY DEF IInv, TokenOK
<1>2. calls' = [u \in Thread |-> calls'[u]]
  BY DEF IInv
<1>3. ASSUME NEW u \in Thread PROVE CallOK(calls'[u], token.good)
  <2>1. calls'[u] = IF u = t THEN d ELSE calls[u]
    BY DEF IInv
  <2>2. CallOK(calls[u], token.good)
    BY DEF IInv
  <2>. QED  BY <2>1, <2>2
<1>. QED  BY <1>1, <1>2, <1>3 DEF IInv

LEMMA IdleOK == ASSUME NEW good PROVE CallOK(Idle, good) /\ [Idle EXCEPT !.stall = 0] = Idle
BY Constants DEF Idle, CallOK, CallRecord, Steps, Working

LEMMA InitOK == Init => IInv
<1>. SUFFICES ASSUME Init PROVE IInv
  OBVIOUS
<1>1. BucketOK /\ TokenOK
  BY Constants DEF Init, BucketOK, TokenOK
<1>2. /\ calls = [t \in Thread |-> calls[t]]
      /\ \A t \in Thread : calls[t] = Idle
  BY DEF Init
<1>. QED  BY <1>1, <1>2, IdleOK DEF IInv

LEMMA ReturnOK ==
    ASSUME IInv, NEW t \in Thread, Return(t), UNCHANGED <<bucket, token>>
    PROVE  IInv'
<1>1. calls' = [calls EXCEPT ![t] = Idle] /\ CallOK(Idle, token.good)
  BY IdleOK DEF Return, Become
<1>2. BucketOK'
  BY DEF IInv, BucketOK
<1>. QED  BY <1>1, <1>2, Moves

LEMMA ReadClockOK == ASSUME IInv, NEW t \in Thread, ReadClock(t) PROVE IInv'
<1>. DEFINE e == [Idle EXCEPT !.pc = "refill"]
            d == [e EXCEPT !.stall = 0]
<1>1. BucketOK' /\ UNCHANGED token /\ calls' = [calls EXCEPT ![t] = d]
  BY DEF IInv, BucketOK, ReadClock, Become
<1>2. /\ Idle \in CallRecord /\ "refill" \in Steps
      /\ Idle.wait = 0 /\ Idle.ago = 0 /\ Idle.refilled = 0
  BY IdleOK DEF CallOK, Steps, Idle
<1>3. e \in CallRecord /\ e.pc = "refill" /\ e.wait = 0 /\ e.ago = 0 /\ e.refilled = 0
  BY <1>2, Constants DEF CallRecord
<1>. HIDE DEF e
<1>4. /\ d \in CallRecord /\ d.pc = "refill" /\ d.wait = 0 /\ d.ago = 0
      /\ d.stall = 0 /\ d.refilled = 0
  BY <1>3, Constants DEF CallRecord
<1>. HIDE DEF d
<1>5. CallOK(d, token.good)
  BY <1>4, Constants DEF CallOK, Working
<1>. QED  BY <1>1, <1>5, Moves

LEMMA RefillOK == ASSUME IInv, NEW t \in Thread, Refill(t) PROVE IInv'
<1>. DEFINE b == calls[t]
            n == Min2(Full, bucket.tokens + bucket.since - b.ago)
            e == [b EXCEPT !.pc = "take", !.refilled = n]
            d == [e EXCEPT !.stall = 0]
<1>1. CallOK(b, token.good) /\ b.pc = "refill"
  BY DEF IInv, Refill, At
<1>2. n \in Int /\ n <= Full
  BY <1>1, Constants DEF Min2, IInv, BucketOK, CallOK, CallRecord
<1>3. "take" \in Steps /\ b \in CallRecord /\ b.ago <= MaxStall /\ b.wait = 0
  BY <1>1, Constants DEF CallOK, CallRecord, Steps, Working
<1>4. BucketOK' /\ UNCHANGED token /\ calls' = [calls EXCEPT ![t] = d]
  BY DEF IInv, BucketOK, Refill, Become
<1>. HIDE DEF b, n
<1>5a. e \in CallRecord /\ e.pc = "take" /\ e.wait = 0 /\ e.ago = b.ago /\ e.refilled = n
  BY <1>2, <1>3, Constants DEF CallRecord
<1>. HIDE DEF e
<1>5. /\ d \in CallRecord /\ d.pc = "take" /\ d.wait = 0 /\ d.ago = b.ago
      /\ d.stall = 0 /\ d.refilled = n
  BY <1>5a, Constants DEF CallRecord
<1>. HIDE DEF d
<1>6. CallOK(d, token.good)
  BY <1>2, <1>3, <1>5, Constants DEF CallOK
<1>. QED  BY <1>4, <1>6, Moves

LEMMA TakeOK == ASSUME IInv, NEW t \in Thread, Take(t) PROVE IInv'
<1>. DEFINE b == calls[t]
            n == b.refilled
            w == IF n >= Unit THEN 0 ELSE Unit - n
            e == [b EXCEPT !.pc = "token", !.refilled = 0, !.ago = 0, !.wait = w]
            d == [e EXCEPT !.stall = 0]
<1>1. CallOK(b, token.good) /\ b.pc = "take"
  BY DEF IInv, Take, At
<1>2. b \in CallRecord /\ n \in Int /\ n <= Full /\ b.ago \in 0..(2 * MaxStall)
  BY <1>1 DEF CallOK, CallRecord
<1>3. w \in Nat /\ "token" \in Steps /\ 0 \in 0..(2 * MaxStall) /\ 0 \in Int
  BY <1>2, Constants DEF Steps
<1>4. bucket' = [tokens |-> IF n >= Unit THEN n - Unit ELSE 0, since |-> b.ago]
  BY DEF Take
<1>5. BucketOK'
  <2>1. (IF n >= Unit THEN n - Unit ELSE 0) \in 0..Full
    BY <1>2, Constants
  <2>2. b.ago \in 0..LongAgo
    BY <1>2, Constants
  <2>. HIDE DEF b, n
  <2>. QED  BY <1>4, <2>1, <2>2 DEF BucketOK
<1>6. UNCHANGED token /\ calls' = [calls EXCEPT ![t] = d]
  BY DEF Take, Become
<1>. HIDE DEF b, w
<1>7a. e \in CallRecord /\ e.pc = "token" /\ e.refilled = 0
  BY <1>2, <1>3, Constants DEF CallRecord
<1>. HIDE DEF e
<1>7. /\ d \in CallRecord /\ d.pc = "token" /\ d.refilled = 0
  BY <1>7a, Constants DEF CallRecord
<1>. HIDE DEF d
<1>8. CallOK(d, token.good)
  BY <1>7, Constants DEF CallOK, Working
<1>. QED  BY <1>5, <1>6, <1>8, Moves

\* On to the grant, or to the next attempt: nothing is in hand.
LEMMA NoHandOK ==
    ASSUME NEW d \in CallRecord, d.refilled <= Full,
           d.pc \in {"token", "grant", "exceeded"}, NEW good
    PROVE  CallOK(d, good)
BY DEF CallOK, Working

LEMMA GetTokenOK == ASSUME IInv, NEW t \in Thread, GetToken(t) PROVE IInv'
<1>. DEFINE b == calls[t]
<1>1. CallOK(b, token.good) /\ b.wait = 0
  BY DEF IInv, GetToken, At
<1>2. BucketOK' /\ UNCHANGED token
  BY DEF IInv, BucketOK, GetToken
<1>3. b \in CallRecord /\ "send" \in Steps /\ "grant" \in Steps /\ b.refilled <= Full
  BY <1>1 DEF CallOK, Steps
<1>4. CASE Trusted
  <2>. DEFINE n == token.good
              e == [b EXCEPT !.pc = "send", !.bearer = n]
              d == [e EXCEPT !.stall = 0]
  <2>1. n \in 0..Life /\ n > MaxStall
    BY <1>4, Constants DEF Trusted, IInv, TokenOK
  <2>2. calls' = [calls EXCEPT ![t] = d]
    BY <1>4 DEF GetToken, Become
  <2>. HIDE DEF b, n
  <2>3a. e \in CallRecord /\ e.pc = "send" /\ e.wait = 0 /\ e.bearer = n /\ e.refilled = b.refilled
    BY <1>1, <1>3, <2>1, Constants DEF CallRecord
  <2>. HIDE DEF e
  <2>3. /\ d \in CallRecord /\ d.pc = "send" /\ d.wait = 0 /\ d.bearer = n
        /\ d.stall = 0 /\ d.refilled = b.refilled
    BY <2>3a, Constants DEF CallRecord
  <2>. HIDE DEF d
  <2>4. CallOK(d, n)
    BY <1>3, <2>1, <2>3, Constants DEF CallOK
  <2>. QED  BY <1>2, <2>2, <2>4, Moves DEF n
<1>5. CASE ~Trusted
  <2>. DEFINE e == [b EXCEPT !.pc = "grant"]
              d == [e EXCEPT !.stall = 0]
  <2>1. calls' = [calls EXCEPT ![t] = d]
    BY <1>5 DEF GetToken, Goto, Become
  <2>. HIDE DEF b
  <2>2a. e \in CallRecord /\ e.pc = "grant" /\ e.refilled = b.refilled
    BY <1>3, Constants DEF CallRecord
  <2>. HIDE DEF e
  <2>2. d \in CallRecord /\ d.pc = "grant" /\ d.refilled = b.refilled
    BY <2>2a, Constants DEF CallRecord
  <2>. HIDE DEF d
  <2>. QED  BY <1>2, <1>3, <2>1, <2>2, NoHandOK, Moves
<1>. QED  BY <1>4, <1>5

LEMMA GrantOK == ASSUME IInv, NEW t \in Thread, Grant(t) PROVE IInv'
<1>. DEFINE b == calls[t]
            e == [b EXCEPT !.pc = "store_token", !.bearer = Life]
            d == [e EXCEPT !.stall = 0]
<1>1. CallOK(b, token.good) /\ b.wait = 0
  BY DEF IInv, Grant, At
<1>2. /\ b \in CallRecord /\ "store_token" \in Steps /\ b.refilled <= Full
      /\ Life \in 0..Life
  BY <1>1, Constants DEF CallOK, Steps
<1>3. BucketOK' /\ UNCHANGED token /\ calls' = [calls EXCEPT ![t] = d]
  BY DEF IInv, BucketOK, Grant, Become
<1>. HIDE DEF b
<1>4a. e \in CallRecord /\ e.pc = "store_token" /\ e.wait = 0 /\ e.bearer = Life /\ e.refilled = b.refilled
  BY <1>1, <1>2, Constants DEF CallRecord
<1>. HIDE DEF e
<1>4. /\ d \in CallRecord /\ d.pc = "store_token" /\ d.wait = 0 /\ d.bearer = Life
      /\ d.stall = 0 /\ d.refilled = b.refilled
  BY <1>4a, Constants DEF CallRecord
<1>. HIDE DEF d
<1>5. CallOK(d, token.good)
  BY <1>2, <1>4, Constants DEF CallOK
<1>. QED  BY <1>3, <1>5, Moves

\* The token changes: it is at most MaxStall old, whoever stores it.
LEMMA StoreTokenOK == ASSUME IInv, NEW t \in Thread, StoreToken(t) PROVE IInv'
<1>. DEFINE b == calls[t]
            n == b.bearer
            e == [b EXCEPT !.pc = "store_expiry"]
            d == [e EXCEPT !.stall = 0]
<1>1. CallOK(b, token.good) /\ b.wait = 0 /\ b.pc = "store_token"
  BY DEF IInv, StoreToken, At
<1>2. /\ b \in CallRecord /\ b.refilled <= Full /\ n \in 0..Life
      /\ n >= Life - b.stall /\ b.stall <= MaxStall /\ b.stall \in Nat
      /\ "store_expiry" \in Steps
  BY <1>1, Constants DEF CallOK, CallRecord, Steps
<1>3. n >= Life - MaxStall
  BY <1>2, Constants
<1>4. BucketOK' /\ calls' = [calls EXCEPT ![t] = d]
  BY DEF IInv, BucketOK, StoreToken, Goto, Become
<1>5. token' = [token EXCEPT !.good = n]
  BY DEF StoreToken
<1>. HIDE DEF b, n
<1>6. TokenOK' /\ token.good' = n
  <2>1. token \in [good : 0..Life, trusted : 0..Life]
    BY DEF IInv, TokenOK
  <2>2. /\ token' \in [good : 0..Life, trusted : 0..Life]
        /\ token.good' = n /\ token.trusted' = token.trusted
        /\ token.trusted <= Life /\ token.trusted \in Nat
    BY <1>2, <1>5, <2>1, Constants
  <2>. QED  BY <1>2, <1>3, <2>2, Constants DEF TokenOK
<1>7a. e \in CallRecord /\ e.pc = "store_expiry" /\ e.wait = 0 /\ e.refilled = b.refilled
  BY <1>1, <1>2, Constants DEF CallRecord, b
<1>. HIDE DEF e
<1>7. /\ d \in CallRecord /\ d.pc = "store_expiry" /\ d.wait = 0 /\ d.stall = 0
      /\ d.refilled = b.refilled
  BY <1>7a, Constants DEF CallRecord
<1>. HIDE DEF d
<1>8. CallOK(d, n)
  BY <1>2, <1>3, <1>7, Constants DEF CallOK
<1>9. calls' = [u \in Thread |-> calls'[u]]
  BY <1>4 DEF IInv
<1>10. ASSUME NEW u \in Thread PROVE CallOK(calls'[u], n)
  <2>1. calls'[u] = IF u = t THEN d ELSE calls[u]
    BY <1>4 DEF IInv
  <2>2. CallOK(calls[u], token.good) /\ calls[u].stall \in Nat
    BY Constants DEF IInv, CallOK, CallRecord
  <2>3. CallOK(calls[u], n)
    BY <1>2, <1>3, <2>2, Constants DEF CallOK
  <2>. QED  BY <1>8, <2>1, <2>3
<1>. QED  BY <1>4, <1>6, <1>9, <1>10 DEF IInv

\* The expiry is remembered: the token is at most two steps older than that.
LEMMA StoreExpiryOK == ASSUME IInv, NEW t \in Thread, StoreExpiry(t) PROVE IInv'
<1>. DEFINE b == calls[t]
            n == token.good
            e == [b EXCEPT !.pc = "send", !.bearer = n]
            d == [e EXCEPT !.stall = 0]
<1>1. CallOK(b, n) /\ b.wait = 0 /\ b.pc = "store_expiry"
  BY DEF IInv, StoreExpiry, At
<1>2. /\ b \in CallRecord /\ b.refilled <= Full /\ n \in 0..Life
      /\ n >= Life - MaxStall - b.stall /\ b.stall <= MaxStall /\ b.stall \in Nat
      /\ "send" \in Steps
  BY <1>1, Constants DEF CallOK, CallRecord, Steps, IInv, TokenOK
<1>3. n >= Life - 2 * MaxStall /\ n > MaxStall
  BY <1>2, Constants
<1>4. BucketOK' /\ calls' = [calls EXCEPT ![t] = d]
  BY DEF IInv, BucketOK, StoreExpiry, Become
<1>5. token' = [token EXCEPT !.trusted = Life]
  BY DEF StoreExpiry
<1>6. TokenOK' /\ token.good' = n
  <2>1. token \in [good : 0..Life, trusted : 0..Life]
    BY DEF IInv, TokenOK
  <2>2. /\ token' \in [good : 0..Life, trusted : 0..Life]
        /\ token.good' = n /\ token.trusted' = Life
    BY <1>2, <1>5, <2>1, Constants
  <2>. QED  BY <1>2, <1>3, <2>2, Constants DEF TokenOK
<1>. HIDE DEF b, n
<1>7a. e \in CallRecord /\ e.pc = "send" /\ e.wait = 0 /\ e.bearer = n /\ e.refilled = b.refilled
  BY <1>1, <1>2, Constants DEF CallRecord
<1>. HIDE DEF e
<1>7. /\ d \in CallRecord /\ d.pc = "send" /\ d.wait = 0 /\ d.stall = 0
      /\ d.bearer = n /\ d.refilled = b.refilled
  BY <1>7a, Constants DEF CallRecord
<1>. HIDE DEF d
<1>8. CallOK(d, n)
  BY <1>2, <1>3, <1>7, Constants DEF CallOK
<1>9. calls' = [u \in Thread |-> calls'[u]]
  BY <1>4 DEF IInv
<1>10. ASSUME NEW u \in Thread PROVE CallOK(calls'[u], n)
  <2>1. calls'[u] = IF u = t THEN d ELSE calls[u]
    BY <1>4 DEF IInv
  <2>2. CallOK(calls[u], n)
    BY DEF IInv, n
  <2>. QED  BY <1>8, <2>1, <2>2
<1>. QED  BY <1>4, <1>6, <1>9, <1>10 DEF IInv

\* The next attempt starts with nothing in hand.
LEMMA RetryOK ==
    ASSUME IInv, NEW t \in Thread, NEW sleep \in 1..MaxSleep, ~LastAttempt(t),
           Retry(t, sleep), UNCHANGED <<bucket, token>>
    PROVE  IInv'
<1>. DEFINE n == calls[t].attempt + 1
            e == [Idle EXCEPT !.pc = "token", !.attempt = n, !.wait = sleep]
            d == [e EXCEPT !.stall = 0]
<1>1. calls[t] \in CallRecord
  BY DEF IInv, CallOK
<1>2. n \in 0..(MaxAttempts - 1) /\ sleep \in Nat /\ "token" \in Steps
  BY <1>1, ClientAssumption DEF LastAttempt, CallRecord, Steps
<1>3. BucketOK' /\ calls' = [calls EXCEPT ![t] = d]
  BY DEF IInv, BucketOK, Retry, Become
<1>. HIDE DEF n
<1>2b. Idle \in CallRecord /\ Idle.refilled = 0
  BY IdleOK DEF CallOK, Idle
<1>4a. e \in CallRecord /\ e.pc = "token" /\ e.refilled = 0
  BY <1>2, <1>2b DEF CallRecord
<1>. HIDE DEF e
<1>4. d \in CallRecord /\ d.pc = "token" /\ d.refilled = 0
  BY <1>4a, Constants DEF CallRecord
<1>. HIDE DEF d
<1>5. CallOK(d, token.good)
  BY <1>4, NoHandOK, Constants
<1>. QED  BY <1>3, <1>5, Moves

LEMMA ExceedOK ==
    ASSUME IInv, NEW t \in Thread, NEW sleep \in 1..MaxSleep,
           Become(t, [calls[t] EXCEPT !.pc = "exceeded", !.wait = sleep]),
           UNCHANGED <<bucket, token>>
    PROVE  IInv'
<1>. DEFINE b == calls[t]
            e == [b EXCEPT !.pc = "exceeded", !.wait = sleep]
            d == [e EXCEPT !.stall = 0]
<1>1. b \in CallRecord /\ b.refilled <= Full /\ sleep \in Nat /\ "exceeded" \in Steps
  BY ClientAssumption DEF IInv, CallOK, Steps
<1>2. BucketOK' /\ calls' = [calls EXCEPT ![t] = d]
  BY DEF IInv, BucketOK, Become
<1>. HIDE DEF b
<1>3a. e \in CallRecord /\ e.pc = "exceeded" /\ e.refilled = b.refilled
  BY <1>1, Constants DEF CallRecord
<1>. HIDE DEF e
<1>3. d \in CallRecord /\ d.pc = "exceeded" /\ d.refilled = b.refilled
  BY <1>3a, Constants DEF CallRecord
<1>. HIDE DEF d
<1>. QED  BY <1>1, <1>2, <1>3, NoHandOK, Moves

-----------------------------------------------------------------------------
(* Time *)

\* What a call has in hand loses no more than the call is stalled.
LEMMA LaterOK ==
    ASSUME NEW good \in Nat, NEW c, CallOK(c, good),
           c.stall < MaxStall \/ c.pc \notin Working
    PROVE  CallOK(Later(c), Less(good))
<1>. DEFINE wait == Less(c.wait)
            stall == IF c.pc \in Working /\ c.wait = 0 THEN c.stall + 1 ELSE c.stall
            ago == IF c.pc \in {"refill", "take"} THEN c.ago + 1 ELSE c.ago
            bearer == Less(c.bearer)
            d == [c EXCEPT !.wait = wait, !.stall = stall, !.ago = ago,
                           !.bearer = bearer]
<1>1. c \in CallRecord
  BY DEF CallOK
<1>2. /\ c.wait \in Nat /\ c.stall \in 0..MaxStall /\ c.ago \in 0..(2 * MaxStall)
      /\ c.bearer \in 0..Life /\ c.bearer \in Nat
  BY <1>1, Constants DEF CallRecord
<1>3. /\ wait \in Nat /\ (c.wait = 0 => wait = 0)
      /\ bearer \in 0..Life /\ bearer >= c.bearer - 1 /\ Less(good) >= good - 1
  BY <1>2, Small, Constants DEF Less
<1>4. stall \in 0..MaxStall /\ (c.pc \in Working => stall = c.stall + 1)
  BY <1>2, Constants DEF CallOK
<1>5. /\ ago \in 0..(2 * MaxStall)
      /\ c.pc \in {"refill", "take"} => ago = c.ago + 1
  BY <1>2, Constants DEF CallOK, Working
<1>6. Later(c) = d
  BY DEF Later
<1>. HIDE DEF wait, stall, ago, bearer
<1>7. /\ d \in CallRecord /\ d.pc = c.pc /\ d.wait = wait /\ d.stall = stall
      /\ d.ago = ago /\ d.bearer = bearer /\ d.refilled = c.refilled
  BY <1>1, <1>3, <1>4, <1>5 DEF CallRecord
<1>. HIDE DEF d
<1>8. CallOK(d, Less(good))
  BY <1>2, <1>3, <1>4, <1>5, <1>7, Constants, Small DEF CallOK, Working
<1>. QED  BY <1>6, <1>8

LEMMA TickOK == ASSUME IInv, Tick PROVE IInv'
<1>1. BucketOK'
  <2>1. bucket.since \in 0..LongAgo /\ bucket.tokens \in 0..Full
    BY DEF IInv, BucketOK
  <2>2. Min2(bucket.since + 1, LongAgo) \in 0..LongAgo
    BY <2>1, Constants DEF Min2
  <2>. QED  BY <2>1, <2>2 DEF Tick, IInv, BucketOK
<1>2. TokenOK' /\ token.good' = Less(token.good) /\ token.good \in Nat
  <2>1. /\ token.good \in 0..Life /\ token.trusted \in 0..Life
        /\ token.good >= token.trusted - 2 * MaxStall
    BY DEF IInv, TokenOK
  <2>2. token' = [good |-> Less(token.good), trusted |-> Less(token.trusted)]
    BY DEF Tick
  <2>. QED  BY <2>1, <2>2, Constants DEF TokenOK, Less
<1>3. ASSUME NEW t \in Thread PROVE CallOK(calls'[t], Less(token.good))
  <2>1. CallOK(calls[t], token.good) /\ calls'[t] = Later(calls[t])
    BY DEF IInv, Tick
  <2>2. calls[t].stall < MaxStall \/ calls[t].pc \notin Working
    BY DEF Tick
  <2>. QED  BY <1>2, <2>1, <2>2, LaterOK
<1>4. calls' = [t \in Thread |-> calls'[t]]
  BY DEF Tick
<1>. QED  BY <1>1, <1>2, <1>3, <1>4 DEF IInv

-----------------------------------------------------------------------------
LEMMA StepOK == ASSUME IInv, NEW t \in Thread, Step(t) PROVE IInv'
<1>1. ASSUME NEW sleep \in 1..MaxSleep, TooManyRequests(t, sleep) PROVE IInv'
  BY <1>1, RetryOK, ExceedOK DEF TooManyRequests
<1>2. ASSUME NEW sleep \in 1..MaxSleep, ServerError(t, sleep) PROVE IInv'
  BY <1>2, RetryOK, ReturnOK DEF ServerError
<1>3. CASE Answer(t) \/ Exceeded(t)
  BY <1>3, ReturnOK DEF Answer, Exceeded
<1>. QED  BY <1>1, <1>2, <1>3, RefillOK, TakeOK, GetTokenOK, GrantOK,
             StoreTokenOK, StoreExpiryOK DEF Step

LEMMA NextOK == IInv /\ [Next]_vars => IInv'
<1>. SUFFICES ASSUME IInv, [Next]_vars PROVE IInv'
  OBVIOUS
<1>1. CASE UNCHANGED vars
  BY <1>1 DEF vars, IInv, BucketOK, TokenOK
<1>. QED  BY <1>1, ReadClockOK, StepOK, TickOK DEF Next

LEMMA Invariant == Spec => []IInv
BY InitOK, NextOK, PTL DEF Spec

\* The bucket, the OAuth token and the calls keep to their types: consume()
\* leaves the bucket neither in debt nor over its capacity, however threads
\* interleave in it (ticketmaster.py:38-52).
THEOREM ClientTypeCorrect == Spec => []TypeOK
<1>1. IInv => TypeOK
  BY DEF IInv, BucketOK, TokenOK, CallOK, CallRecord, TypeOK
<1>. QED  BY <1>1, Invariant, PTL

\* No thread sends an expired OAuth token (ticketmaster.py:115-137, 188).
THEOREM NoExpiredToken == Spec => []TokenAlive
<1>1. IInv => TokenAlive
  BY Constants DEF IInv, CallOK, CallRecord, TokenAlive
<1>. QED  BY <1>1, Invariant, PTL

-----------------------------------------------------------------------------
(* The rate that one thread gets from the token bucket, for any capacity   *)
(* of at least two tokens, any unit of time and any stall.                 *)
(*                                                                         *)
(* What a call adds to the meter it takes out of the bucket, and a tick    *)
(* drains the meter at least as fast as it refills the bucket: the sum of  *)
(* both stays below Limit.  A caller that waits is the exception, because  *)
(* its call is paid for by the wait and the wait fills the bucket as well; *)
(* it is also the reason why the meter has to drain twice as fast.         *)

Limit == Full + 2 * MaxStall

Waiting(c) == c.pc = "token" /\ c.attempt = 0 /\ c.wait > 0

\* c: the call of the only thread; lev: the meter; x, s: the bucket.
MeterOK(c, lev, x, s) ==
    /\ lev \in Nat
    /\ c.pc = "refill" => c.ago <= s
    /\ c.pc = "take" => c.refilled >= 0 /\ lev + c.refilled + c.ago <= Limit
    /\ Waiting(c) => /\ x = 0 /\ c.wait <= Unit
                     /\ s + c.wait <= 2 * MaxStall + Unit
                     /\ lev + s + Unit <= Limit + c.wait
    /\ c.pc # "take" /\ ~Waiting(c) => lev = 0 \/ lev + x + s <= Limit

MInv(t) == MeterOK(calls[t], level, bucket.tokens, bucket.since)

\* Everything the steps below need of the invariant of TicketmasterClient.
LEMMA Known ==
    ASSUME IInv, NEW t \in Thread
    PROVE  /\ calls[t] \in CallRecord
           /\ calls[t].pc \in Steps /\ calls[t].wait \in Nat
           /\ calls[t].ago \in Nat /\ calls[t].ago <= 2 * MaxStall
           /\ calls[t].refilled \in Int /\ calls[t].refilled <= Full
           /\ calls[t].attempt \in Nat
           /\ calls[t].pc \in Working => calls[t].wait = 0
           /\ bucket.tokens \in Nat /\ bucket.tokens <= Full
           /\ bucket.since \in Nat /\ bucket.since <= Limit
           /\ \A d : calls' = [calls EXCEPT ![t] = d] => calls'[t] = d
BY Constants DEF IInv, CallOK, CallRecord, BucketOK, Limit

LEMMA LimitType == Limit \in Nat /\ Limit = Full + 2 * MaxStall
BY Constants DEF Limit

LEMMA OneNew ==
    ASSUME NEW t, Thread = {t}
    PROVE  /\ (LetThrough(calls[t])' /\ ~LetThrough(calls[t])) => Cardinality(New) = 1
           /\ ~(LetThrough(calls[t])' /\ ~LetThrough(calls[t])) => Cardinality(New) = 0
<1>1. CASE LetThrough(calls[t])' /\ ~LetThrough(calls[t])
  <2>1. New = {t}
    BY <1>1 DEF New
  <2>. QED  BY <1>1, <2>1, FS_Singleton
<1>2. CASE ~(LetThrough(calls[t])' /\ ~LetThrough(calls[t]))
  <2>1. New = {}
    BY <1>2 DEF New
  <2>. QED  BY <1>2, <2>1, FS_EmptySet
<1>. QED  BY <1>1, <1>2

-----------------------------------------------------------------------------
(* The steps of the thread *)

\* Beyond consume() a call changes neither the bucket nor the meter.
LEMMA Quiet ==
    ASSUME IInv, NEW t, Thread = {t}, MInv(t), UNCHANGED bucket,
           level' = level + Unit * Cardinality(New),
           calls[t].pc # "take", ~Waiting(calls[t]),
           calls'[t].pc \notin {"refill", "take"},
           calls'[t].pc = "token" => calls'[t].attempt # 0
    PROVE  MInv(t)'
<1>1. Cardinality(New) = 0
  BY OneNew DEF LetThrough
<1>2. level' = level /\ level \in Nat
  BY <1>1, Constants DEF MInv, MeterOK
<1>3. bucket.tokens' = bucket.tokens /\ bucket.since' = bucket.since
  OBVIOUS
<1>4. ~Waiting(calls'[t])
  BY DEF Waiting
<1>. QED  BY <1>2, <1>3, <1>4 DEF MInv, MeterOK

LEMMA ReadClockMeter ==
    ASSUME IInv, NEW t, Thread = {t}, MInv(t), ReadClock(t),
           level' = level + Unit * Cardinality(New)
    PROVE  MInv(t)'
<1>. DEFINE e == [Idle EXCEPT !.pc = "refill"]
            d == [e EXCEPT !.stall = 0]
<1>1. calls[t] = Idle /\ UNCHANGED bucket /\ calls' = [calls EXCEPT ![t] = d]
  BY DEF ReadClock, Become
<1>2. Idle \in CallRecord /\ Idle.ago = 0 /\ Idle.pc = "idle"
  BY IdleOK DEF CallOK, Idle
<1>3. e \in CallRecord /\ e.pc = "refill" /\ e.ago = 0
  BY <1>2 DEF CallRecord, Steps
<1>. HIDE DEF e
<1>4. d.pc = "refill" /\ d.ago = 0
  BY <1>3 DEF CallRecord
<1>. HIDE DEF d
<1>5. calls'[t] = d
  BY <1>1, Known
<1>6. Cardinality(New) = 0
  BY <1>4, <1>5, OneNew DEF LetThrough
<1>7. /\ level' = level /\ level \in Nat /\ bucket.since \in Nat
      /\ bucket.tokens' = bucket.tokens /\ bucket.since' = bucket.since
  BY <1>1, <1>6, Constants, Known DEF MInv, MeterOK
<1>8. level = 0 \/ level + bucket.tokens + bucket.since <= Limit
  BY <1>1, <1>2 DEF MInv, MeterOK, Waiting
<1>. QED  BY <1>4, <1>5, <1>7, <1>8 DEF MInv, MeterOK, Waiting

LEMMA RefillMeter ==
    ASSUME IInv, NEW t, Thread = {t}, MInv(t), Refill(t),
           level' = level + Unit * Cardinality(New)
    PROVE  MInv(t)'
<1>. DEFINE b == calls[t]
            x == bucket.tokens
            s == bucket.since
            n == Min2(Full, x + s - b.ago)
            e == [b EXCEPT !.pc = "take", !.refilled = n]
            d == [e EXCEPT !.stall = 0]
<1>1. b.pc = "refill" /\ UNCHANGED bucket /\ calls' = [calls EXCEPT ![t] = d]
  BY DEF Refill, At, Become
<1>2. /\ b \in CallRecord /\ b.ago \in Nat /\ b.ago <= 2 * MaxStall
      /\ x \in Nat /\ s \in Nat /\ b.ago <= s
      /\ level \in Nat /\ (level = 0 \/ level + x + s <= Limit)
  BY <1>1, Known DEF MInv, MeterOK, Waiting
<1>3. calls'[t] = d
  BY <1>1, Known
<1>. HIDE DEF b, x, s
<1>4. n \in Int /\ n >= 0 /\ n <= Full /\ n <= x + s - b.ago
  BY <1>2, Constants DEF Min2
<1>5. level + n + b.ago <= Limit
  BY <1>2, <1>4, Constants, LimitType
<1>. HIDE DEF n
<1>6. e \in CallRecord /\ e.pc = "take" /\ e.ago = b.ago /\ e.refilled = n
  BY <1>2, <1>4 DEF CallRecord, Steps
<1>. HIDE DEF e
<1>7. d.pc = "take" /\ d.ago = b.ago /\ d.refilled = n
  BY <1>6 DEF CallRecord
<1>. HIDE DEF d
<1>8. Cardinality(New) = 0
  BY <1>3, <1>7, OneNew DEF LetThrough
<1>9. level' = level
  BY <1>2, <1>8, Constants
<1>. QED  BY <1>2, <1>3, <1>4, <1>5, <1>7, <1>9 DEF MInv, MeterOK, Waiting

LEMMA TakeMeter ==
    ASSUME IInv, NEW t, Thread = {t}, MInv(t), Take(t),
           level' = level + Unit * Cardinality(New)
    PROVE  MInv(t)'
<1>. DEFINE b == calls[t]
            n == b.refilled
            w == IF n >= Unit THEN 0 ELSE Unit - n
            e == [b EXCEPT !.pc = "token", !.refilled = 0, !.ago = 0, !.wait = w]
            d == [e EXCEPT !.stall = 0]
<1>1. b.pc = "take" /\ calls' = [calls EXCEPT ![t] = d]
  BY DEF Take, At, Become
<1>2. bucket' = [tokens |-> IF n >= Unit THEN n - Unit ELSE 0, since |-> b.ago]
  BY DEF Take
<1>3. /\ b \in CallRecord /\ b.ago \in Nat /\ b.ago <= 2 * MaxStall
      /\ n \in Nat /\ level \in Nat /\ level + n + b.ago <= Limit
  BY <1>1, Known DEF MInv, MeterOK
<1>4. calls'[t] = d /\ ~LetThrough(b)
  BY <1>1, Known DEF LetThrough
<1>. HIDE DEF b
<1>5. w \in Nat /\ 0 \in 0..(2 * MaxStall) /\ 0 \in Int /\ "token" \in Steps
  BY <1>3, Constants DEF Steps
<1>. HIDE DEF w, n
<1>6. e \in CallRecord /\ e.pc = "token" /\ e.wait = w /\ e.attempt = b.attempt
  BY <1>3, <1>5 DEF CallRecord
<1>. HIDE DEF e
<1>7. d.pc = "token" /\ d.wait = w /\ d.attempt = b.attempt
  BY <1>6 DEF CallRecord
<1>. HIDE DEF d
<1>8. /\ bucket.tokens' = IF n >= Unit THEN n - Unit ELSE 0
      /\ bucket.since' = b.ago
  BY <1>2
<1>9. CASE n >= Unit
  <2>1. w = 0 /\ bucket.tokens' = n - Unit
    BY <1>8, <1>9 DEF w
  <2>2. level' <= level + Unit /\ level' \in Nat
    <3>1. Cardinality(New) = 0 \/ Cardinality(New) = 1
      BY OneNew
    <3>. QED  BY <3>1, <1>3, Constants
  <2>3. level' + bucket.tokens' + bucket.since' <= Limit
    BY <1>3, <1>8, <2>1, <2>2, Constants, LimitType
  <2>4. ~Waiting(d) /\ d.pc = "token"
    BY <1>7, <2>1 DEF Waiting
  <2>. QED  BY <1>4, <2>2, <2>3, <2>4 DEF MInv, MeterOK
<1>10. CASE ~(n >= Unit)
  <2>1. w = Unit - n /\ bucket.tokens' = 0 /\ w > 0 /\ w <= Unit
    BY <1>3, <1>8, <1>10, Constants DEF w
  <2>2. Cardinality(New) = 0
    BY <1>4, <1>7, <2>1, OneNew DEF LetThrough
  <2>3. level' = level
    BY <1>3, <2>2, Constants
  <2>4. /\ b.ago + w <= 2 * MaxStall + Unit
        /\ level' + b.ago + Unit <= Limit + w
        /\ level' + b.ago <= Limit
    BY <1>3, <2>1, <2>3, Constants, LimitType
  <2>. QED  BY <1>3, <1>4, <1>7, <1>8, <2>1, <2>3, <2>4 DEF MInv, MeterOK, Waiting
<1>. QED  BY <1>9, <1>10
\* A call on its way to the answer.
LEMMA RestMeter ==
    ASSUME IInv, NEW t, Thread = {t}, MInv(t), Step(t), ~Refill(t), ~Take(t),
           level' = level + Unit * Cardinality(New)
    PROVE  MInv(t)'
<1>. DEFINE b == calls[t]
<1>1. b \in CallRecord /\ \A d : calls' = [calls EXCEPT ![t] = d] => calls'[t] = d
  BY Known
<1>2. ASSUME NEW e \in CallRecord, Become(t, e), e.pc \notin {"refill", "take"},
             e.pc = "token" => e.attempt # 0
      PROVE  /\ calls'[t].pc \notin {"refill", "take"}
             /\ calls'[t].pc = "token" => calls'[t].attempt # 0
  <2>. DEFINE d == [e EXCEPT !.stall = 0]
  <2>1. d.pc = e.pc /\ d.attempt = e.attempt
    BY <1>2 DEF CallRecord
  <2>2. calls'[t] = d
    BY <1>1, <1>2 DEF Become
  <2>. HIDE DEF d
  <2>. QED  BY <1>2, <2>1, <2>2
<1>3. CASE GetToken(t)
  <2>1. b.wait = 0 /\ UNCHANGED bucket /\ b.pc = "token" /\ ~Waiting(b)
    BY <1>3, <1>1 DEF GetToken, At, Waiting, CallRecord
  <2>2. CASE Trusted
    <3>. DEFINE g == token.good
                e == [b EXCEPT !.pc = "send", !.bearer = g]
    <3>1. Become(t, e)
      BY <1>3, <2>2 DEF GetToken
    <3>2. g \in 0..Life /\ "send" \in Steps
      BY DEF IInv, TokenOK, Steps
    <3>. HIDE DEF b, g
    <3>3. e \in CallRecord /\ e.pc = "send"
      BY <1>1, <3>2 DEF CallRecord
    <3>. HIDE DEF e
    <3>. QED  BY <1>2, <2>1, <3>1, <3>3, Quiet DEF b
  <2>3. CASE ~Trusted
    <3>. DEFINE e == [b EXCEPT !.pc = "grant"]
    <3>1. Become(t, e)
      BY <1>3, <2>3 DEF GetToken, Goto
    <3>. HIDE DEF b
    <3>3. e \in CallRecord /\ e.pc = "grant"
      BY <1>1 DEF CallRecord, Steps
    <3>. HIDE DEF e
    <3>. QED  BY <1>2, <2>1, <3>1, <3>3, Quiet DEF b
  <2>. QED  BY <2>2, <2>3
<1>4. CASE Grant(t)
  <2>. DEFINE e == [b EXCEPT !.pc = "store_token", !.bearer = Life]
  <2>1. UNCHANGED bucket /\ b.pc = "grant" /\ ~Waiting(b) /\ Become(t, e)
    BY <1>4 DEF Grant, At, Waiting
  <2>2. Life \in 0..Life /\ "store_token" \in Steps
    BY Constants DEF Steps
  <2>. HIDE DEF b
  <2>3. e \in CallRecord /\ e.pc = "store_token"
    BY <1>1, <2>2 DEF CallRecord
  <2>. HIDE DEF e
  <2>. QED  BY <1>2, <2>1, <2>3, Quiet DEF b
<1>5. CASE StoreToken(t)
  <2>. DEFINE e == [b EXCEPT !.pc = "store_expiry"]
  <2>1. UNCHANGED bucket /\ b.pc = "store_token" /\ ~Waiting(b) /\ Become(t, e)
    BY <1>5 DEF StoreToken, At, Waiting, Goto
  <2>. HIDE DEF b
  <2>3. e \in CallRecord /\ e.pc = "store_expiry"
    BY <1>1 DEF CallRecord, Steps
  <2>. HIDE DEF e
  <2>. QED  BY <1>2, <2>1, <2>3, Quiet DEF b
<1>6. CASE StoreExpiry(t)
  <2>. DEFINE g == token.good
              e == [b EXCEPT !.pc = "send", !.bearer = g]
  <2>1. UNCHANGED bucket /\ b.pc = "store_expiry" /\ ~Waiting(b) /\ Become(t, e)
    BY <1>6 DEF StoreExpiry, At, Waiting
  <2>2. g \in 0..Life /\ "send" \in Steps
    BY DEF IInv, TokenOK, Steps
  <2>. HIDE DEF b, g
  <2>3. e \in CallRecord /\ e.pc = "send"
    BY <1>1, <2>2 DEF CallRecord
  <2>. HIDE DEF e
  <2>. QED  BY <1>2, <2>1, <2>3, Quiet DEF b
<1>7. ASSUME Return(t), UNCHANGED bucket, b.pc # "take", ~Waiting(b)
      PROVE  MInv(t)'
  <2>1. Idle \in CallRecord /\ Idle.pc = "idle" /\ Become(t, Idle)
    BY <1>7, IdleOK DEF Return, CallOK, Idle
  <2>. QED  BY <1>2, <1>7, <2>1, Quiet
<1>8. ASSUME NEW sleep \in 1..MaxSleep, Retry(t, sleep), ~LastAttempt(t),
             UNCHANGED bucket, b.pc # "take", ~Waiting(b)
      PROVE  MInv(t)'
  <2>. DEFINE n == calls[t].attempt + 1
              e == [Idle EXCEPT !.pc = "token", !.attempt = n, !.wait = sleep]
  <2>1. n \in 0..(MaxAttempts - 1) /\ n # 0 /\ sleep \in Nat /\ "token" \in Steps
    BY <1>1, <1>8, ClientAssumption DEF LastAttempt, MaxAttempts, CallRecord, Steps
  <2>2. Become(t, e)
    BY <1>8 DEF Retry
  <2>3. Idle \in CallRecord
    BY IdleOK DEF CallOK
  <2>. HIDE DEF n
  <2>4. e \in CallRecord /\ e.pc = "token" /\ e.attempt = n
    <3>. DEFINE f == [Idle EXCEPT !.pc = "token"]
                g == [f EXCEPT !.attempt = n]
    <3>1. f \in CallRecord /\ f.pc = "token"
      BY <2>1, <2>3 DEF CallRecord
    <3>. HIDE DEF f
    <3>2. g \in CallRecord /\ g.pc = "token" /\ g.attempt = n
      BY <2>1, <3>1 DEF CallRecord
    <3>. HIDE DEF g
    <3>3. [g EXCEPT !.wait = sleep] \in CallRecord /\ [g EXCEPT !.wait = sleep].pc = "token"
          /\ [g EXCEPT !.wait = sleep].attempt = n
      BY <2>1, <3>2 DEF CallRecord
    <3>. QED  BY <3>3 DEF f, g
  <2>. HIDE DEF e
  <2>. QED  BY <1>2, <1>8, <2>1, <2>2, <2>4, Quiet
<1>9. ASSUME NEW sleep \in 1..MaxSleep, TooManyRequests(t, sleep)
      PROVE  MInv(t)'
  <2>1. UNCHANGED bucket /\ b.pc = "send" /\ ~Waiting(b)
    BY <1>9 DEF TooManyRequests, At, Waiting
  <2>2. CASE ~LastAttempt(t)
    BY <1>8, <1>9, <2>1, <2>2 DEF TooManyRequests
  <2>3. CASE LastAttempt(t)
    <3>. DEFINE e == [b EXCEPT !.pc = "exceeded", !.wait = sleep]
    <3>1. Become(t, e) /\ sleep \in Nat
      BY <1>9, <2>3, ClientAssumption DEF TooManyRequests
    <3>. HIDE DEF b
    <3>2. e \in CallRecord /\ e.pc = "exceeded"
      BY <1>1, <3>1 DEF CallRecord, Steps
    <3>. HIDE DEF e
    <3>. QED  BY <1>2, <2>1, <3>1, <3>2, Quiet DEF b
  <2>. QED  BY <2>2, <2>3
<1>10. ASSUME NEW sleep \in 1..MaxSleep, ServerError(t, sleep)
       PROVE  MInv(t)'
  <2>1. UNCHANGED bucket /\ b.pc # "take" /\ ~Waiting(b)
    BY <1>10 DEF ServerError, At, Waiting
  <2>. QED  BY <1>7, <1>8, <1>10, <2>1 DEF ServerError
<1>11. CASE Answer(t) \/ Exceeded(t)
  <2>1. UNCHANGED bucket /\ b.pc # "take" /\ ~Waiting(b) /\ Return(t)
    BY <1>11 DEF Answer, Exceeded, At, Waiting
  <2>. QED  BY <1>7, <2>1
<1>. QED  BY <1>3, <1>4, <1>5, <1>6, <1>9, <1>10, <1>11 DEF Step

-----------------------------------------------------------------------------
(* Time *)

LEMMA TickMeter ==
    ASSUME IInv, NEW t, Thread = {t}, MInv(t), Tick,
           level' = Drained + Unit * Cardinality(New)
    PROVE  MInv(t)'
<1>. DEFINE b == calls[t]
            x == bucket.tokens
            s == bucket.since
            c == Later(b)
            z == Min2(s + 1, LongAgo)
<1>1. /\ b \in CallRecord /\ b.ago \in Nat /\ b.ago <= 2 * MaxStall
      /\ b.wait \in Nat /\ b.refilled \in Int /\ b.refilled <= Full
      /\ x \in Nat /\ x <= Full /\ s \in Nat /\ s <= Limit /\ level \in Nat
  BY Known DEF MInv, MeterOK
<1>2. calls'[t] = c /\ bucket.tokens' = x /\ bucket.since' = z
  BY DEF Tick, IInv, BucketOK
<1>3. z \in Nat /\ z <= s + 1 /\ (z = s + 1 \/ z = Limit)
  BY <1>1, Constants DEF Min2, Limit
<1>4. MeterOK(b, level, x, s)
  BY DEF MInv
<1>5. CallOK(b, token.good) /\ (b.stall < MaxStall \/ b.pc \notin Working)
  BY DEF IInv, Tick
<1>. HIDE DEF b, x, s, z
<1>6. /\ c.pc = b.pc /\ c.attempt = b.attempt /\ c.wait = Less(b.wait)
      /\ c.refilled = b.refilled
      /\ c.ago = IF b.pc \in {"refill", "take"} THEN b.ago + 1 ELSE b.ago
  BY <1>1 DEF Later, CallRecord
<1>. HIDE DEF c
<1>7. /\ Drained \in Nat
      /\ Drained = 0 \/ Drained = level - 2
      /\ level <= 2 => Drained = 0
      /\ Drained + 1 <= level \/ Drained = 0
  BY <1>1 DEF Drained, Pace
<1>8. CASE Waiting(b)
  <2>1. /\ x = 0 /\ b.wait <= Unit /\ s + b.wait <= 2 * MaxStall + Unit
        /\ level + s + Unit <= Limit + b.wait /\ b.wait > 0
        /\ b.pc = "token" /\ b.attempt = 0
    BY <1>4, <1>8 DEF MeterOK, Waiting
  <2>2. c.wait = b.wait - 1 /\ c.wait \in Nat
    BY <1>1, <1>6, <2>1 DEF Less
  <2>3. Drained + s + 1 + Unit <= Limit + b.wait - 1
    BY <1>1, <1>7, <2>1, Constants, LimitType
  <2>4. CASE b.wait = 1
    <3>1. Cardinality(New) = 0 \/ Cardinality(New) = 1
      BY OneNew
    <3>2. level' \in Nat /\ level' <= Drained + Unit
      BY <1>7, <3>1, Constants
    <3>3. level' + z <= Limit
      <4>1. CASE Drained = 0
        <5>1. level' <= Unit /\ z <= s + 1 /\ s + 1 <= 2 * MaxStall + Unit
          BY <1>1, <1>3, <2>1, <2>4, <3>2, <4>1, Constants
        <5>2. Unit \in Nat /\ MaxStall \in Nat /\ Full \in Nat /\ Unit + Unit <= Full
          BY Constants
        <5>. QED  BY <1>1, <1>3, <3>2, <5>1, <5>2, LimitType
      <4>2. CASE Drained = level - 2
        BY <1>1, <1>3, <2>1, <2>4, <3>2, <4>2, Constants, LimitType
      <4>. QED  BY <1>7, <4>1, <4>2
    <3>4. c.pc = "token" /\ c.wait = 0
      BY <1>6, <2>1, <2>2, <2>4
    <3>. QED  BY <1>2, <2>1, <3>2, <3>3, <3>4 DEF MInv, MeterOK, Waiting
  <2>5. CASE b.wait # 1
    <3>1. c.wait > 0 /\ c.pc = "token" /\ c.attempt = 0
      BY <1>1, <1>6, <2>1, <2>2, <2>5
    <3>2. Cardinality(New) = 0
      BY <1>2, <3>1, OneNew DEF LetThrough
    <3>3. level' = Drained
      BY <1>7, <3>2, Constants
    <3>4. /\ c.wait <= Unit /\ z + c.wait <= 2 * MaxStall + Unit
          /\ level' + z + Unit <= Limit + c.wait
      BY <1>1, <1>3, <1>7, <2>1, <2>2, <2>3, <3>3, Constants, LimitType
    <3>. QED  BY <1>2, <1>7, <2>1, <3>1, <3>3, <3>4 DEF MInv, MeterOK, Waiting
  <2>. QED  BY <2>4, <2>5
<1>9. CASE ~Waiting(b)
  <2>1. ~Waiting(c)
    BY <1>1, <1>6, <1>9 DEF Waiting, Less
  <2>2. Cardinality(New) = 0
    <3>1. LetThrough(c) => LetThrough(b)
      BY <1>1, <1>6, <1>9 DEF LetThrough, Waiting, Less
    <3>. QED  BY <1>2, <3>1, OneNew DEF b, LetThrough
  <2>3. level' = Drained /\ level' \in Nat
    BY <1>7, <2>2, Constants
  <2>4. CASE b.pc = "take"
    <3>1. /\ b.refilled >= 0 /\ level + b.refilled + b.ago <= Limit
          /\ b.ago + 1 <= 2 * MaxStall
      BY <1>1, <1>4, <1>5, <2>4, Constants DEF MeterOK, CallOK, CallRecord, Working
    <3>2. level' + b.refilled + (b.ago + 1) <= Limit
      BY <1>1, <1>7, <2>3, <3>1, Constants, LimitType
    <3>. QED  BY <1>2, <1>6, <2>1, <2>3, <2>4, <3>1, <3>2 DEF MInv, MeterOK
  <2>5. CASE b.pc # "take"
    <3>1. level = 0 \/ level + x + s <= Limit
      BY <1>4, <1>9, <2>5 DEF MeterOK
    <3>2. level' = 0 \/ level' + x + z <= Limit
      BY <1>1, <1>3, <1>7, <2>3, <3>1, LimitType
    <3>3. b.pc = "refill" => c.ago <= z
      <4>. SUFFICES ASSUME b.pc = "refill" PROVE c.ago <= z
        OBVIOUS
      <4>1. c.ago = b.ago + 1 /\ b.ago <= s
        BY <1>4, <1>6 DEF MeterOK
      <4>2. b.ago + 1 <= Limit
        BY <1>1, <1>5, Constants, LimitType DEF CallOK, CallRecord, Working
      <4>. QED  BY <1>1, <1>3, <4>1, <4>2, LimitType
    <3>. QED  BY <1>2, <1>6, <2>1, <2>3, <2>5, <3>2, <3>3 DEF MInv, MeterOK
  <2>. QED  BY <2>4, <2>5
<1>. QED  BY <1>8, <1>9

-----------------------------------------------------------------------------
\* Alone, a thread never gets more from the bucket than its capacity at once
\* and twice its refill rate in the long run (ticketmaster.py:38-52).
THEOREM OneThreadConforms ==
    ASSUME NEW t, Thread = {t}
    PROVE  MeteredSpec => []CallsConform
<1>1. MeteredInit => IInv /\ MInv(t)
  <2>. SUFFICES ASSUME MeteredInit PROVE IInv /\ MInv(t)
    OBVIOUS
  <2>1. IInv
    BY InitOK DEF MeteredInit
  <2>2. level = 0 /\ calls[t] = Idle
    BY DEF MeteredInit, Init
  <2>. QED  BY <2>1, <2>2 DEF MInv, MeterOK, Waiting, Idle
<1>2. IInv /\ MInv(t) /\ [MeteredNext]_meteredVars => (IInv /\ MInv(t))'
  <2>. SUFFICES ASSUME IInv, MInv(t), [MeteredNext]_meteredVars
                PROVE  IInv' /\ MInv(t)'
    OBVIOUS
  <2>1. IInv'
    BY NextOK DEF MeteredNext, Next, meteredVars
  <2>2. ASSUME UNCHANGED meteredVars PROVE MInv(t)'
    BY <2>2 DEF meteredVars, vars, MInv, MeterOK, Waiting
  <2>3. ASSUME MeteredNext PROVE MInv(t)'
    <3>1. ASSUME Tick, level' = Drained + Unit * Cardinality(New)
          PROVE  MInv(t)'
      BY <3>1, TickMeter
    <3>2. ASSUME ReadClock(t) \/ Step(t),
                 level' = level + Unit * Cardinality(New)
          PROVE  MInv(t)'
      BY <3>2, ReadClockMeter, RefillMeter, TakeMeter, RestMeter
    <3>. QED  BY <2>3, <3>1, <3>2 DEF MeteredNext
  <2>. QED  BY <2>1, <2>2, <2>3
<1>3. IInv /\ MInv(t) => CallsConform
  <2>. SUFFICES ASSUME IInv, MInv(t) PROVE CallsConform
    OBVIOUS
  <2>1. level <= Limit
    BY Known, LimitType, Constants DEF MInv, MeterOK
  <2>. QED  BY <2>1 DEF CallsConform, Limit
<1>. QED  BY <1>1, <1>2, <1>3, PTL DEF MeteredSpec
=============================================================================
