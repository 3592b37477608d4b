----------------------------- MODULE RateMeter -----------------------------
(***************************************************************************)
(* What the token bucket of TicketmasterClient lets through, measured by a *)
(* leaky bucket of the same capacity that drains Pace units in a tick.     *)
(* Only the calls that consume() lets through are counted: the second and  *)
(* third attempt of a call and the requests to OAuth do not pass it.       *)
(***************************************************************************)
EXTENDS TicketmasterClient

VARIABLE level  \* what the calls let through have filled and time has not drained

meteredVars == <<vars, level>>

\* Twice the refill of the bucket.
Pace == 2

LetThrough(c) == c.pc = "token" /\ c.attempt = 0 /\ c.wait = 0

New == {t \in Thread : LetThrough(calls[t])' /\ ~LetThrough(calls[t])}

Drained == IF level > Pace THEN level - Pace ELSE 0

MeteredInit == Init /\ level = 0

MeteredNext ==
    \/ Tick /\ level' = Drained + Unit * Cardinality(New)
    \/ /\ \E t \in Thread : ReadClock(t) \/ Step(t)
       /\ level' = level + Unit * Cardinality(New)

MeteredSpec == MeteredInit /\ [][MeteredNext]_meteredVars

\* One thread gets at most the capacity of the bucket at once and then at most
\* twice the refill rate: its own wait counts again as refill, so what is
\* documented as 5 calls a second (CONTEXT.md:127) is up to 10, and never more
\* (ticketmaster.py:38-52).  A thread that is interrupted in consume() can add
\* what the bucket gains meanwhile.
CallsConform == level <= Full + 2 * MaxStall
=============================================================================
