------------------------------ MODULE PlanSync ------------------------------
(***************************************************************************)
(* handle_sync_plans (service_layer/handlers.py:210): pages of the         *)
(* Discovery API, cached for five minutes in Redis, are merged into the    *)
(* plans table through the session of the plan handler.                    *)
(*                                                                         *)
(* The handler does not enter the unit of work: its session flushes before *)
(* each query and never commits.  What a session has flushed is a set of   *)
(* locks on rows, seen by itself and waited for by every other process.    *)
(***************************************************************************)
EXTENDS Naturals, Sequences, SequencesExt

CONSTANTS
    Process,    \* each runs one sync at a time, through one session
    Resident,   \* those that live on after a sync: the API, not the CLI
    Event,      \* events of the provider, by Ticketmaster id
    Seeded,     \* events whose plans are in the table at the start
    Endless,    \* events listed without an end: their dates are refused
    Catalogues, \* the lists of events that the provider may offer
    Size,       \* events in a page: 100
    MaxVersion  \* bound on the changes of the provider

ASSUME SyncAssumption ==
    /\ Resident \subseteq Process
    /\ Seeded \subseteq Event /\ Endless \subseteq Event
    /\ Size \in Nat \ {0} /\ MaxVersion \in Nat \ {0}
    /\ \A c \in Catalogues : c \in Seq(Event) /\ IsInjective(c)
    /\ \E c \in Catalogues : \A d \in Catalogues : Len(d) <= Len(c)

VARIABLES
    offered,   \* the lists the provider has offered so far, the last one now
    cached,    \* page -> the version of its cached response, 0 if there is none
    stored,    \* plans table, as committed
    sessions,  \* session of each process
    syncs      \* the sync each process runs

vars == <<offered, cached, stored, sessions, syncs>>

Version == Len(offered)
Pages == 0..(Max({Len(c) : c \in Catalogues}) \div Size)

\* details: the version that name, place and prices come from; dates: the
\* version of date_range; fresh: last synced within 24 hours.
NoPlan == [exists |-> FALSE, details |-> 0, dates |-> 0, fresh |-> FALSE]
FromTicketmaster(v) == [exists |-> TRUE, details |-> v, dates |-> v, fresh |-> TRUE]

\* update_plan_from_ticketmaster leaves date_range as it is.
UpdatePlan(plan, v) == [plan EXCEPT !.details = v, !.fresh = TRUE]

\* view: the plans as this session sees them; new, dirty: added and changed
\* since the last flush; locked: rows written by its transaction.
NewSession == [view |-> stored, new |-> <<>>, dirty |-> {}, locked |-> {},
               failed |-> FALSE]

NoSync == [pc |-> "idle", stale_only |-> FALSE, page |-> 0, seen |-> 0,
           next |-> 1, steady |-> TRUE]

Init ==
    /\ \E c \in Catalogues : offered = <<c>>
    /\ cached = [n \in Pages |-> 0]
    /\ stored = [e \in Event |-> [NoPlan EXCEPT !.exists = (e \in Seeded)]]
    /\ sessions = [p \in Process |-> NewSession]
    /\ syncs = [p \in Process |-> NoSync]

-----------------------------------------------------------------------------
(* The pages *)

PageOf(v, n) == SubSeq(offered[v], n * Size + 1, Min({Len(offered[v]), (n + 1) * Size}))

EventsOf(p) == PageOf(syncs[p].seen, syncs[p].page)
EventOf(p) == EventsOf(p)[syncs[p].next]

HandleSyncPlans(p, stale_only) ==
    /\ syncs[p].pc = "idle"
    /\ syncs' = [syncs EXCEPT ![p] = [NoSync EXCEPT !.pc = "search",
                                                   !.stale_only = stale_only]]
    /\ UNCHANGED <<offered, cached, stored, sessions>>

\* steady: everything read so far is what the provider offers now.
SearchPlans(p) ==
    LET s == syncs[p]
        v == IF cached[s.page] > 0 THEN cached[s.page] ELSE Version
    IN
    /\ s.pc = "search"
    /\ cached' = [cached EXCEPT ![s.page] = v]
    /\ syncs' = [syncs EXCEPT ![p] =
          [s EXCEPT !.pc = IF PageOf(v, s.page) = <<>> THEN "done" ELSE "merge",
                    !.seen = v, !.next = 1, !.steady = (@ /\ v = Version)]]
    /\ UNCHANGED <<offered, stored, sessions>>

\* mutant: a full page is taken for the last one.
StopAtFullPage(s, events) ==
    IF s.next < Len(events) THEN [s EXCEPT !.next = @ + 1]
    ELSE IF Len(events) <= Size THEN [s EXCEPT !.pc = "done"]
    ELSE [s EXCEPT !.pc = "search", !.page = @ + 1]

\* mutant: the next page is the same page.
SamePage(s, events) ==
    IF s.next < Len(events) THEN [s EXCEPT !.next = @ + 1]
    ELSE IF Len(events) < Size THEN [s EXCEPT !.pc = "done"]
    ELSE [s EXCEPT !.pc = "search"]

\* mutant: a short page is not recognized as the last one.
PastTheEnd(s, events) ==
    IF s.next < Len(events) THEN [s EXCEPT !.next = @ + 1]
    ELSE [s EXCEPT !.pc = "search", !.page = @ + 1]

\* The loops of handle_sync_plans: next event, next page, or the end.
Advance(s, events) ==
    IF s.next < Len(events) THEN [s EXCEPT !.next = @ + 1]
    ELSE IF Len(events) < Size THEN [s EXCEPT !.pc = "done"]
    ELSE [s EXCEPT !.pc = "search", !.page = @ + 1]

-----------------------------------------------------------------------------
(* The session *)

\* mutant: autoflush is off.
KeepPending(session) == session

\* The flush before a query.
Flush(session) ==
    [session EXCEPT !.locked = @ \union session.dirty \union ToSet(session.new),
                    !.new = <<>>, !.dirty = {}]

Unflushed(p) == sessions[p].dirty \union ToSet(sessions[p].new)
WaitsFor(p, q) == p # q /\ Unflushed(p) \intersect sessions[q].locked # {}

\* get_by_tm_id sees the rows of the table and of its own transaction.
Existing(session, e) == stored[e].exists \/ e \in session.locked

Querying(p) == syncs[p].pc = "merge" /\ EventOf(p) \notin Endless

\* One event of a page: from_ticketmaster, get_by_tm_id, update or add.
Merge(p) ==
    LET s == syncs[p]
        e == EventOf(p)
        session == Flush(sessions[p])
        old == session.view[e]
        updated == [session EXCEPT !.view[e] = UpdatePlan(old, s.seen),
                                   !.dirty = @ \union {e}]
        added == [session EXCEPT !.view[e] = FromTicketmaster(s.seen),
                                 !.new = Append(@, e)]
        skip == Existing(session, e) /\ s.stale_only /\ old.fresh
    IN
    /\ Querying(p)
    /\ ~sessions[p].failed
    /\ \A q \in Process : ~WaitsFor(p, q)
    /\ sessions' = [sessions EXCEPT ![p] =
          IF skip THEN session
          ELSE IF Existing(session, e) THEN updated ELSE added]
    /\ syncs' = [syncs EXCEPT ![p] = Advance(s, EventsOf(p))]
    /\ UNCHANGED <<offered, cached, stored>>

\* The sync is over; a CLI process ends with it, and the database drops what
\* was not committed.
Leave(p, session) ==
    /\ syncs' = [syncs EXCEPT ![p] = NoSync]
    /\ sessions' = [sessions EXCEPT ![p] =
          IF p \in Resident THEN session ELSE NewSession]
    /\ UNCHANGED <<offered, cached, stored>>

Report(p) ==
    /\ syncs[p].pc = "done"
    /\ Leave(p, sessions[p])

\* DateRange refuses an event that does not end after its start, and no end is
\* read as the start: the sync is aborted.
DateRangeRaises(p) ==
    /\ syncs[p].pc = "merge" /\ EventOf(p) \in Endless
    /\ Leave(p, sessions[p])

ProviderRaises(p) ==
    /\ syncs[p].pc = "search"
    /\ Leave(p, sessions[p])

\* A statement fails, and with it the session: nobody calls its rollback.
DatabaseRaises(p) ==
    /\ Querying(p) /\ ~sessions[p].failed
    /\ Leave(p, [NewSession EXCEPT !.failed = TRUE])

\* PostgreSQL ends a cycle of waits by failing a statement.
BreakDeadlock(p) ==
    /\ \E q \in Process : WaitsFor(p, q) /\ WaitsFor(q, p) /\ Querying(q)
    /\ DatabaseRaises(p)

\* A session that has failed raises on every later query.
PendingRollback(p) ==
    /\ Querying(p) /\ sessions[p].failed
    /\ Leave(p, sessions[p])

-----------------------------------------------------------------------------
(* The environment *)

\* The provider lists other events, or the same with other data.
Change(c) ==
    /\ Version < MaxVersion
    /\ offered' = Append(offered, c)
    /\ syncs' = [p \in Process |-> [syncs[p] EXCEPT !.steady = (syncs[p].pc = "idle")]]
    /\ UNCHANGED <<cached, stored, sessions>>

ExpirePage(n) ==
    /\ cached[n] > 0
    /\ cached' = [cached EXCEPT ![n] = 0]
    /\ UNCHANGED <<offered, stored, sessions, syncs>>

\* 24 hours in which no sync runs.
DayPasses ==
    /\ \A p \in Process : syncs[p].pc = "idle"
    /\ cached' = [n \in Pages |-> 0]
    /\ sessions' = [p \in Process |-> [sessions[p] EXCEPT !.view =
          [e \in Event |-> [sessions[p].view[e] EXCEPT !.fresh = FALSE]]]]
    /\ UNCHANGED <<offered, stored, syncs>>

Restart(p) ==
    /\ Leave(p, NewSession)

Step(p) ==
    \/ SearchPlans(p) \/ Merge(p) \/ Report(p)
    \/ DateRangeRaises(p) \/ PendingRollback(p) \/ BreakDeadlock(p)

Next ==
    \/ \E p \in Process :
          \/ Step(p)
          \/ \E stale_only \in BOOLEAN : HandleSyncPlans(p, stale_only)
          \/ ProviderRaises(p) \/ DatabaseRaises(p) \/ Restart(p)
    \/ \E c \in Catalogues : Change(c)
    \/ \E n \in Pages : ExpirePage(n)
    \/ DayPasses

Spec == Init /\ [][Next]_vars

\* A process goes on with its sync: every call to Redis, the provider or the
\* database returns.  PostgreSQL queues those that wait for a row, so a process
\* whose row is free again and again gets it.
FairSpec == Spec /\ \A p \in Process : WF_vars(Step(p)) /\ SF_vars(Merge(p))

-----------------------------------------------------------------------------
(* Properties *)

\* Every plan, session and sync has its type; no sync asks for a page that no
\* catalogue can fill.
TypeOK ==
    LET Plans == [exists : BOOLEAN, details : 0..MaxVersion, dates : 0..MaxVersion,
                  fresh : BOOLEAN]
    IN
    /\ offered \in Seq(Catalogues) /\ Version \in 1..MaxVersion
    /\ cached \in [Pages -> 0..MaxVersion]
    /\ stored \in [Event -> Plans]
    /\ \A p \in Process :
          /\ sessions[p].view \in [Event -> Plans]
          /\ sessions[p].new \in Seq(Event)
          /\ sessions[p].dirty \subseteq Event /\ sessions[p].locked \subseteq Event
          /\ sessions[p].failed \in BOOLEAN
          /\ syncs[p] \in [pc : {"idle", "search", "merge", "done"},
                           stale_only : BOOLEAN, page : Pages, seen : 0..MaxVersion,
                           next : 1..Size, steady : BOOLEAN]

\* However the provider moves events between pages, and whatever earlier syncs
\* of the same session left uncommitted, no plan is inserted a second time:
\* tm_plan_id is unique and the insert would fail the session for good
\* (handlers.py:225-243, orm.py:131).
PlanOnce ==
    \A p \in Process :
        LET session == sessions[p] IN
        /\ IsInjective(session.new)
        /\ \A e \in ToSet(session.new) : ~Existing(session, e)

\* A sync that has read what the provider offers, without a stale page and
\* without a change on the way, has every event in its session with the
\* provider's details; with stale_only, those synced within the last day may
\* be as they were (handlers.py:219-249).
SyncComplete ==
    \A p \in Process :
        syncs[p].pc = "done" /\ syncs[p].steady =>
            \A e \in ToSet(offered[Version]) :
                LET plan == sessions[p].view[e] IN
                /\ plan.exists
                /\ plan.details = Version \/ (syncs[p].stale_only /\ plan.fresh)

\* A process that waits for rows which an API process has flushed in a sync that
\* is over: nobody commits them or rolls them back, so nobody wakes it.
HeldUp(p) ==
    /\ Querying(p)
    /\ \E q \in Resident : WaitsFor(p, q) /\ syncs[q].pc = "idle"

\* A sync of the API ends, with a report or an error, unless a sync is held up
\* by the rows an earlier sync of another API process has left flushed, until
\* that process ends: the provider runs out of pages, a CLI process gives its
\* rows back, and PostgreSQL breaks a cycle of waits (handlers.py:219-247).
SyncEnds ==
    \A p \in Resident :
        syncs[p].pc # "idle" ~> syncs[p].pc = "idle" \/ \E q \in Process : HeldUp(q)
=============================================================================
