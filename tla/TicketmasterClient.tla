------------------------- MODULE TicketmasterClient -------------------------
(***************************************************************************)
(* Requests of the threads of one process to the Discovery API             *)
(* (adapters/ticketmaster.py): the token bucket, the OAuth token that the  *)
(* threads share, and the three attempts of _make_request.                 *)
(*                                                                         *)
(* A tick is 1/Unit of the time in which the bucket gains one token, and   *)
(* the bucket counts in units of 1/Unit of a token.  Neither the bucket    *)
(* nor the OAuth token has a lock; a thread can be interrupted where       *)
(* CPython may switch threads, at the calls of time.monotonic, min,        *)
(* httpx.post and time.time.                                               *)
(***************************************************************************)
EXTENDS Integers, FiniteSets

CONSTANTS
    Thread,     \* threads that use the adapter
    Capacity,   \* tokens the bucket holds: 5
    Unit,       \* ticks to gain a token: a fifth of a second
    Life,       \* expires_in of an OAuth token
    Buffer,     \* it is renewed this long before: 300 s
    MaxStall,   \* longest time a thread is kept in one step
    MaxSleep    \* longest sleep between attempts: 60 s

ASSUME ClientAssumption ==
    /\ Capacity \in Nat /\ Capacity > 1
    /\ Unit \in Nat \ {0}
    /\ MaxStall \in Nat /\ MaxSleep \in Nat
    /\ Buffer \in Nat /\ Buffer >= 3 * MaxStall
    /\ Life \in Nat /\ Life > Buffer

MaxAttempts == 3

VARIABLES
    bucket,  \* _rate_limiter: tokens, and the time since _last_refill
    token,   \* _access_token: how long it is good, how long the code thinks so
    calls    \* the _make_request each thread is in

vars == <<bucket, token, calls>>

Full == Capacity * Unit

\* wait: rest of a time.sleep; stall: time in the current step; ago: time since
\* the clock was read; refilled: tokens computed and not yet stored; bearer:
\* how long the OAuth token in hand is good.
Idle == [pc |-> "idle", attempt |-> 0, wait |-> 0, stall |-> 0, ago |-> 0,
         refilled |-> 0, bearer |-> 0]

Init ==
    /\ bucket = [tokens |-> Full, since |-> 0]
    /\ token = [good |-> 0, trusted |-> 0]
    /\ calls = [t \in Thread |-> Idle]

Min2(a, b) == IF a < b THEN a ELSE b

At(t, pc) == calls[t].pc = pc /\ calls[t].wait = 0
Become(t, c) == calls' = [calls EXCEPT ![t] = [c EXCEPT !.stall = 0]]
Goto(t, pc) == Become(t, [calls[t] EXCEPT !.pc = pc])
Return(t) == Become(t, Idle)

-----------------------------------------------------------------------------
(* TokenBucket.consume *)

\* The response is not cached: now = time.monotonic().
ReadClock(t) ==
    /\ calls[t] = Idle
    /\ Become(t, [Idle EXCEPT !.pc = "refill"])
    /\ UNCHANGED <<bucket, token>>

Refill(t) ==
    /\ At(t, "refill")
    /\ Become(t, [calls[t] EXCEPT !.pc = "take",
          !.refilled = Min2(Full, bucket.tokens + bucket.since - calls[t].ago)])
    /\ UNCHANGED <<bucket, token>>

\* mutant: the token is taken before it is known to be there.
TakeIntoDebt(t) ==
    LET tokens == calls[t].refilled IN
    /\ At(t, "take")
    /\ bucket' = [tokens |-> tokens - Unit, since |-> calls[t].ago]
    /\ Become(t, [calls[t] EXCEPT !.pc = "token", !.refilled = 0, !.ago = 0,
                     !.wait = IF tokens >= Unit THEN 0 ELSE Unit - tokens])
    /\ UNCHANGED token

\* mutant: the clock of the refill is not remembered.
TakeUndated(t) ==
    LET tokens == calls[t].refilled IN
    /\ At(t, "take")
    /\ bucket' = [bucket EXCEPT !.tokens =
                     IF tokens >= Unit THEN tokens - Unit ELSE 0]
    /\ Become(t, [calls[t] EXCEPT !.pc = "token", !.refilled = 0, !.ago = 0,
                     !.wait = IF tokens >= Unit THEN 0 ELSE Unit - tokens])
    /\ UNCHANGED token

\* A caller that must wait leaves an empty bucket; its wait refills it.
Take(t) ==
    LET tokens == calls[t].refilled IN
    /\ At(t, "take")
    /\ bucket' = [tokens |-> IF tokens >= Unit THEN tokens - Unit ELSE 0,
                  since |-> calls[t].ago]
    /\ Become(t, [calls[t] EXCEPT !.pc = "token", !.refilled = 0, !.ago = 0,
                     !.wait = IF tokens >= Unit THEN 0 ELSE Unit - tokens])
    /\ UNCHANGED token

-----------------------------------------------------------------------------
(* _get_access_token, called in every attempt *)

\* mutant: the token is used until it expires.
TrustedToTheEnd == token.trusted > 0

Trusted == token.trusted > Buffer

\* The clock, the expiry and the token are read in one step: MaxStall bounds the
\* time from the first of these reads to the request.
GetToken(t) ==
    /\ At(t, "token")
    /\ IF Trusted
       THEN Become(t, [calls[t] EXCEPT !.pc = "send", !.bearer = token.good])
       ELSE Goto(t, "grant")
    /\ UNCHANGED <<bucket, token>>

Grant(t) ==
    /\ At(t, "grant")
    /\ Become(t, [calls[t] EXCEPT !.pc = "store_token", !.bearer = Life])
    /\ UNCHANGED <<bucket, token>>

StoreToken(t) ==
    /\ At(t, "store_token")
    /\ token' = [token EXCEPT !.good = calls[t].bearer]
    /\ Goto(t, "store_expiry")
    /\ UNCHANGED bucket

\* The token returned is read from the adapter again.
StoreExpiry(t) ==
    /\ At(t, "store_expiry")
    /\ token' = [token EXCEPT !.trusted = Life]
    /\ Become(t, [calls[t] EXCEPT !.pc = "send", !.bearer = token.good])
    /\ UNCHANGED bucket

-----------------------------------------------------------------------------
(* The attempts of _make_request *)

LastAttempt(t) == calls[t].attempt = MaxAttempts - 1

\* mutant: attempts are not counted.
RetryForEver(t, sleep) ==
    Become(t, [Idle EXCEPT !.pc = "token", !.attempt = calls[t].attempt,
                           !.wait = sleep])

Retry(t, sleep) ==
    Become(t, [Idle EXCEPT !.pc = "token", !.attempt = calls[t].attempt + 1,
                           !.wait = sleep])

\* 429 from the API: sleep for Retry-After; the last attempt's sleep ends in
\* ProviderError("Max retries exceeded").
TooManyRequests(t, sleep) ==
    /\ At(t, "send")
    /\ IF LastAttempt(t)
       THEN Become(t, [calls[t] EXCEPT !.pc = "exceeded", !.wait = sleep])
       ELSE Retry(t, sleep)
    /\ UNCHANGED <<bucket, token>>

Exceeded(t) ==
    /\ At(t, "exceeded")
    /\ Return(t)
    /\ UNCHANGED <<bucket, token>>

\* 5xx from the API or from OAuth: sleep for 2^attempt seconds; the last one
\* raises RetryableError.
ServerError(t, sleep) ==
    /\ At(t, "send") \/ At(t, "grant")
    /\ IF LastAttempt(t) THEN Return(t) ELSE Retry(t, sleep)
    /\ UNCHANGED <<bucket, token>>

\* The response; or 404, 401, another status, 429 from OAuth, and everything
\* that is not an HTTPStatusError: the call ends.
Answer(t) ==
    /\ At(t, "send") \/ At(t, "grant")
    /\ Return(t)
    /\ UNCHANGED <<bucket, token>>
-----------------------------------------------------------------------------
(* Time *)

Working == {"refill", "take", "store_token", "store_expiry", "send"}

Less(n) == IF n > 0 THEN n - 1 ELSE 0

\* Beyond this the bucket is full whatever the clock that was read.
LongAgo == Full + 2 * MaxStall

Later(c) ==
    [c EXCEPT !.wait = Less(@),
              !.stall = IF c.pc \in Working /\ c.wait = 0 THEN @ + 1 ELSE @,
              !.ago = IF c.pc \in {"refill", "take"} THEN @ + 1 ELSE @,
              !.bearer = Less(@)]

Tick ==
    /\ \A t \in Thread : calls[t].stall < MaxStall \/ calls[t].pc \notin Working
    /\ bucket' = [bucket EXCEPT !.since = Min2(@ + 1, LongAgo)]
    /\ token' = [good |-> Less(token.good), trusted |-> Less(token.trusted)]
    /\ calls' = [t \in Thread |-> Later(calls[t])]

-----------------------------------------------------------------------------
Step(t) ==
    \/ Refill(t) \/ Take(t)
    \/ GetToken(t) \/ Grant(t) \/ StoreToken(t) \/ StoreExpiry(t)
    \/ \E sleep \in 1..MaxSleep : TooManyRequests(t, sleep) \/ ServerError(t, sleep)
    \/ Answer(t) \/ Exceeded(t)

Next == Tick \/ \E t \in Thread : ReadClock(t) \/ Step(t)

Spec == Init /\ [][Next]_vars

\* Threads are scheduled, every request is answered or times out
\* (httpx.Timeout(10.0, connect=30.0)), and time passes.
FairSpec == Spec /\ WF_vars(Tick) /\ \A t \in Thread : WF_vars(Step(t))

-----------------------------------------------------------------------------
(* Properties *)

Steps == {"idle", "refill", "take", "token", "grant", "store_token",
          "store_expiry", "send", "exceeded"}

\* Types: the bucket is never in debt and never overflows, whichever stale
\* value a thread stores; only a refill computed from another thread's later
\* clock can be negative.
TypeOK ==
    /\ bucket \in [tokens : 0..Full, since : 0..LongAgo]
    /\ token \in [good : 0..Life, trusted : 0..Life]
    /\ calls \in [Thread ->
          [pc : Steps, attempt : 0..(MaxAttempts - 1), wait : Nat,
           stall : 0..MaxStall, ago : 0..(2 * MaxStall), refilled : Int,
           bearer : 0..Life]]
    /\ \A t \in Thread : calls[t].refilled <= Full

\* No request is sent with an OAuth token that has expired, although threads
\* that renew it at the same time store token and expiry one by one and over
\* each other's (ticketmaster.py:117-137): the five minutes taken off the
\* expiry cover what their steps can add to it.
TokenAlive == \A t \in Thread : calls[t].pc = "send" => calls[t].bearer > 0

\* Every request to Ticketmaster returns or raises: 429s, server errors and a
\* failing OAuth use up the attempts, and every wait is finite
\* (ticketmaster.py:175-219).
EveryCallEnds == \A t \in Thread : calls[t] # Idle ~> calls[t] = Idle
=============================================================================
