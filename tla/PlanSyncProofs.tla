--------------------------- MODULE PlanSyncProofs ---------------------------
(***************************************************************************)
(* No plan is inserted twice, and a sync that nothing disturbs merges all  *)
(* events, for any processes, catalogues and page size.                    *)
(*                                                                         *)
(* A session holds back at most one insert: the query for the next event   *)
(* flushes it first, and so finds it if it is the same event again.        *)
(*                                                                         *)
(* A sync has merged the events before its place in the list, which is the *)
(* page times the page size and the events of the page it has been         *)
(* through; a full page ends where the next one begins, and a short one    *)
(* where the list does.  A session shows the plans of the rows it would    *)
(* find, so that an update always meets a plan.                            *)
(***************************************************************************)
EXTENDS PlanSync, SequenceTheorems, TLAPS

SessionFields == {"view", "new", "dirty", "locked", "failed"}

\* A session with no insert held back, or with one of an event that the query
\* before it has not found.
OneInsert(session) ==
    /\ DOMAIN session = SessionFields
    /\ session.new = <<>> \/ \E e : session.new = <<e>> /\ ~Existing(session, e)

SessionsOK ==
    /\ DOMAIN sessions = Process
    /\ \A p \in Process : OneInsert(sessions[p])

LEMMA NewSessionOK ==
    /\ OneInsert(NewSession)
    /\ OneInsert([NewSession EXCEPT !.failed = TRUE])
BY DEF OneInsert, NewSession, SessionFields

\* One session is replaced, the table of committed plans stays as it is.
LEMMA ReplaceOK ==
    ASSUME SessionsOK, NEW p \in Process, NEW session, OneInsert(session),
           sessions' = [sessions EXCEPT ![p] = session], stored' = stored
    PROVE  SessionsOK'
<1>1. DOMAIN sessions' = Process
  BY DEF SessionsOK
<1>2. ASSUME NEW q \in Process PROVE OneInsert(sessions[q])'
  <2>1. sessions'[q] = IF q = p THEN session ELSE sessions[q]
    BY DEF SessionsOK
  <2>. QED  BY <2>1 DEF SessionsOK, OneInsert, Existing
<1>. QED  BY <1>1, <1>2 DEF SessionsOK

LEMMA SameOK ==
    ASSUME SessionsOK, UNCHANGED <<sessions, stored>>
    PROVE  SessionsOK'
BY DEF SessionsOK, OneInsert, Existing

LEMMA MergeOK ==
    ASSUME SessionsOK, NEW p \in Process, Merge(p)
    PROVE  SessionsOK'
<1>. DEFINE s == syncs[p]
            e == EventOf(p)
            session == Flush(sessions[p])
            old == session.view[e]
            updated == [session EXCEPT !.view[e] = UpdatePlan(old, s.seen),
                                       !.dirty = @ \union {e}]
            added == [session EXCEPT !.view[e] = FromTicketmaster(s.seen),
                                     !.new = Append(@, e)]
            skip == Existing(session, e) /\ s.stale_only /\ old.fresh
            changed == IF skip THEN session
                       ELSE IF Existing(session, e) THEN updated ELSE added
<1>1. sessions' = [sessions EXCEPT ![p] = changed] /\ stored' = stored
  BY DEF Merge
<1>2. DOMAIN session = SessionFields /\ session.new = <<>>
  BY DEF SessionsOK, OneInsert, Flush, SessionFields
<1>. HIDE DEF session, e, old, skip
<1>3. /\ DOMAIN updated = SessionFields /\ updated.new = <<>>
      /\ updated.locked = session.locked
  BY <1>2 DEF SessionFields
<1>4. /\ DOMAIN added = SessionFields /\ added.new = Append(<<>>, e)
      /\ added.locked = session.locked
  BY <1>2 DEF SessionFields
<1>. HIDE DEF updated, added
<1>5. OneInsert(session) /\ OneInsert(updated)
  BY <1>2, <1>3 DEF OneInsert
<1>6. ASSUME ~Existing(session, e)
      PROVE  OneInsert(added)
  <2>1. Append(<<>>, e) = <<e>>
    OBVIOUS
  <2>2. ~Existing(added, e)
    BY <1>6, <1>4 DEF Existing
  <2>. QED  BY <1>4, <2>1, <2>2 DEF OneInsert
<1>7. OneInsert(changed)
  BY <1>5, <1>6
<1>. HIDE DEF changed
<1>. QED  BY <1>1, <1>7, ReplaceOK

LEMMA LeaveOK ==
    ASSUME SessionsOK, NEW p \in Process, NEW session, OneInsert(session),
           Leave(p, session)
    PROVE  SessionsOK'
<1>. DEFINE left == IF p \in Resident THEN session ELSE NewSession
<1>1. sessions' = [sessions EXCEPT ![p] = left] /\ stored' = stored
  BY DEF Leave
<1>2. OneInsert(left)
  BY NewSessionOK
<1>. HIDE DEF left
<1>. QED  BY <1>1, <1>2, ReplaceOK

LEMMA DayPassesOK ==
    ASSUME SessionsOK, DayPasses
    PROVE  SessionsOK'
<1>. DEFINE later(p) == [e \in Event |-> [sessions[p].view[e] EXCEPT !.fresh = FALSE]]
<1>1. /\ sessions' = [p \in Process |-> [sessions[p] EXCEPT !.view = later(p)]]
      /\ stored' = stored
  BY DEF DayPasses
<1>. HIDE DEF later
<1>2. ASSUME NEW p \in Process PROVE OneInsert(sessions[p])'
  <2>. DEFINE session == [sessions[p] EXCEPT !.view = later(p)]
  <2>1. /\ DOMAIN session = SessionFields /\ session.new = sessions[p].new
        /\ session.locked = sessions[p].locked
    BY DEF SessionsOK, OneInsert, SessionFields
  <2>2. sessions'[p] = session
    BY <1>1
  <2>. HIDE DEF session
  <2>. QED  BY <1>1, <2>1, <2>2 DEF SessionsOK, OneInsert, Existing
<1>. QED  BY <1>1, <1>2 DEF SessionsOK

LEMMA StepOK ==
    ASSUME SessionsOK, NEW p \in Process,
           Step(p) \/ ProviderRaises(p) \/ DatabaseRaises(p) \/ Restart(p)
    PROVE  SessionsOK'
<1>1. OneInsert(sessions[p])
  BY DEF SessionsOK
<1>2. CASE SearchPlans(p)
  BY <1>2, SameOK DEF SearchPlans
<1>3. CASE Merge(p)
  BY <1>3, MergeOK
<1>4. CASE Report(p) \/ DateRangeRaises(p) \/ PendingRollback(p) \/ ProviderRaises(p)
  BY <1>1, <1>4, LeaveOK DEF Report, DateRangeRaises, PendingRollback, ProviderRaises
<1>5. CASE DatabaseRaises(p) \/ BreakDeadlock(p)
  BY <1>5, NewSessionOK, LeaveOK DEF DatabaseRaises, BreakDeadlock
<1>6. CASE Restart(p)
  BY <1>6, NewSessionOK, LeaveOK DEF Restart
<1>. QED  BY <1>2, <1>3, <1>4, <1>5, <1>6 DEF Step

\* Whatever the provider lists, however often and wherever it repeats an event,
\* and however many processes sync, no insert meets a row of the same event.
THEOREM NoPlanTwice == Spec => []PlanOnce
<1>1. Init => SessionsOK
  BY NewSessionOK DEF Init, SessionsOK
<1>2. SessionsOK /\ [Next]_vars => SessionsOK'
  <2>. SUFFICES ASSUME SessionsOK, [Next]_vars PROVE SessionsOK'
    OBVIOUS
  <2>1. CASE UNCHANGED vars
    BY <2>1, SameOK DEF vars
  <2>2. ASSUME NEW p \in Process, NEW stale_only \in BOOLEAN,
               HandleSyncPlans(p, stale_only)
        PROVE  SessionsOK'
    BY <2>2, SameOK DEF HandleSyncPlans
  <2>3. CASE (\E c \in Catalogues : Change(c)) \/ \E n \in Pages : ExpirePage(n)
    BY <2>3, SameOK DEF Change, ExpirePage
  <2>. QED  BY <2>1, <2>2, <2>3, StepOK, DayPassesOK DEF Next
<1>3. SessionsOK => PlanOnce
  <2>. SUFFICES ASSUME SessionsOK, NEW p \in Process,
                       NEW e, sessions[p].new = <<e>>, ~Existing(sessions[p], e)
                PROVE  /\ IsInjective(sessions[p].new)
                       /\ \A f \in ToSet(sessions[p].new) : ~Existing(sessions[p], f)
    <3>1. IsInjective(<<>>) /\ ToSet(<<>>) = {}
      BY DEF IsInjective, ToSet
    <3>. QED  BY <3>1 DEF SessionsOK, OneInsert, PlanOnce
  <2>1. DOMAIN <<e>> = {1} /\ <<e>>[1] = e
    OBVIOUS
  <2>2. IsInjective(<<e>>)
    BY <2>1 DEF IsInjective
  <2>3. ToSet(<<e>>) = {e}
    BY <2>1 DEF ToSet
  <2>. QED  BY <2>2, <2>3
<1>. QED  BY <1>1, <1>2, <1>3, PTL DEF Spec

-----------------------------------------------------------------------------
(* Pages of a list *)

LEMMA PageBounds ==
    ASSUME NEW n \in Nat
    PROVE  n * Size \in Nat /\ (n + 1) * Size = n * Size + Size
BY SyncAssumption, SMT

LEMMA MinOfTwo ==
    ASSUME NEW a \in Nat, NEW b \in Nat
    PROVE  Min({a, b}) = IF a <= b THEN a ELSE b
<1>. DEFINE m == IF a <= b THEN a ELSE b
<1>1. m \in {a, b} /\ \A y \in {a, b} : m <= y
  OBVIOUS
<1>2. \A x \in {a, b} : (\A y \in {a, b} : x <= y) => x = m
  OBVIOUS
<1>. HIDE DEF m
<1>3. Min({a, b}) \in {a, b} /\ \A y \in {a, b} : Min({a, b}) <= y
  BY <1>1 DEF Min
<1>. QED  BY <1>2, <1>3 DEF m

LEMMA QuotientAtLeast ==
    ASSUME NEW m \in Nat, NEW n \in Nat, n * Size <= m
    PROVE  n <= m \div Size
<1>. DEFINE q == m \div Size
            rest == m % Size
<1>1. q \in Nat /\ rest \in Nat /\ rest < Size /\ m = q * Size + rest
  BY SyncAssumption, SMT
<1>2. ASSUME q < n PROVE FALSE
  <2>1. n - (q + 1) \in Nat
    BY <1>1, <1>2
  <2>2. (n - (q + 1)) * Size \in Nat
    BY <2>1, PageBounds
  <2>3. n * Size = (n - (q + 1)) * Size + (q + 1) * Size
    BY <1>1, SyncAssumption, SMT
  <2>. HIDE DEF q, rest
  <2>4. (q + 1) * Size = q * Size + Size
    BY <1>1, PageBounds
  <2>5. q * Size \in Nat
    BY <1>1, PageBounds
  <2>. QED  BY <1>1, <2>2, <2>3, <2>4, <2>5, SyncAssumption
<1>. HIDE DEF q
<1>. QED  BY <1>1, <1>2 DEF q

\* A sync goes on to the page behind a full one: some list reaches that far.
LEMMA PagesContain ==
    ASSUME NEW c \in Catalogues, NEW n \in Nat, n * Size <= Len(c)
    PROVE  n \in Pages
<1>. DEFINE lengths == {Len(d) : d \in Catalogues}
            longest == Max(lengths)
<1>1. Len(c) \in Nat
  BY SyncAssumption, LenProperties
<1>2. \E x \in lengths : \A y \in lengths : x >= y
  <2>1. PICK d \in Catalogues : \A e \in Catalogues : Len(e) <= Len(d)
    BY SyncAssumption
  <2>2. \A e \in Catalogues : Len(e) \in Nat
    BY SyncAssumption, LenProperties
  <2>. QED  BY <2>1, <2>2
<1>3. longest \in lengths /\ \A y \in lengths : longest >= y
  BY <1>2 DEF Max
<1>4. longest \in Nat
  BY <1>3, SyncAssumption, LenProperties
<1>5. n * Size <= longest
  <2>. DEFINE start == n * Size
  <2>1. start \in Nat /\ start <= Len(c)
    BY PageBounds
  <2>2. Len(c) <= longest
    BY <1>3
  <2>. HIDE DEF start, longest
  <2>3. start <= longest
    BY <1>1, <1>4, <2>1, <2>2
  <2>. QED  BY <2>3 DEF start
<1>. HIDE DEF longest
<1>6. n <= longest \div Size /\ longest \div Size \in Nat
  BY <1>4, <1>5, QuotientAtLeast, SyncAssumption
<1>. QED  BY <1>6 DEF Pages, longest

\* A page is a stretch of the list, of at most Size events.
LEMMA PageShape ==
    ASSUME NEW v, offered[v] \in Seq(Event), NEW n \in Nat
    PROVE  LET list == offered[v]
               events == PageOf(v, n)
               start == n * Size
           IN
           /\ events \in Seq(Event) /\ Len(events) \in 0..Size
           /\ Len(events) > 0 => start + Len(events) <= Len(list)
           /\ Len(events) < Size => Len(list) <= start + Len(events)
           /\ \A i \in 1..Len(events) : events[i] = list[start + i]
<1>. DEFINE list == offered[v]
            start == n * Size
            end == Min({Len(list), (n + 1) * Size})
            events == SubSeq(list, start + 1, end)
<1>1. Len(list) \in Nat /\ start \in Nat /\ (n + 1) * Size = start + Size
  BY LenProperties, PageBounds
<1>2. end = IF Len(list) <= start + Size THEN Len(list) ELSE start + Size
  <2>. HIDE DEF start, list
  <2>1. start + Size \in Nat
    BY <1>1, SyncAssumption
  <2>. QED  BY <1>1, <2>1, MinOfTwo DEF start, list
<1>. HIDE DEF start, end
<1>3. end \in Nat /\ end <= Len(list) /\ end <= start + Size /\ Size \in Nat
  BY <1>1, <1>2, SyncAssumption
<1>4. \A i \in (start + 1)..end : list[i] \in Event
  BY <1>1, <1>3, ElementOfSeq
<1>5. /\ events \in Seq(Event)
      /\ Len(events) = IF start + 1 <= end THEN end - (start + 1) + 1 ELSE 0
      /\ \A i \in 1..end - (start + 1) + 1 : events[i] = list[start + 1 + i - 1]
  <2>1. start + 1 \in Int /\ end \in Int
    BY <1>1, <1>3
  <2>. HIDE DEF list
  <2>. QED  BY <1>4, <2>1, SubSeqProperties
<1>6. events = PageOf(v, n)
  BY DEF PageOf, start, end
<1>. HIDE DEF events, list
<1>7. /\ Len(events) \in 0..Size
      /\ Len(events) > 0 => start + Len(events) <= Len(list)
      /\ Len(events) < Size => Len(list) <= start + Len(events)
  BY <1>1, <1>2, <1>3, <1>5
<1>8. ASSUME NEW i \in 1..Len(events) PROVE events[i] = list[start + i]
  <2>1. i \in 1..end - (start + 1) + 1 /\ start + 1 + i - 1 = start + i
    BY <1>1, <1>3, <1>5
  <2>. QED  BY <1>5, <2>1
<1>. QED  BY <1>5, <1>6, <1>7, <1>8 DEF list, start

-----------------------------------------------------------------------------
(* What holds of every plan, session and sync *)

PlanRecord == [exists : BOOLEAN, details : 0..MaxVersion, dates : 0..MaxVersion,
               fresh : BOOLEAN]

SessionRecord == [view : [Event -> PlanRecord], new : Seq(Event),
                  dirty : SUBSET Event, locked : SUBSET Event, failed : BOOLEAN]

SyncRecord == [pc : {"idle", "search", "merge", "done"}, stale_only : BOOLEAN,
               page : Pages, seen : 0..MaxVersion, next : 1..Size,
               steady : BOOLEAN]

\* The rows a session has written since the table was last committed.
Written(session) == session.locked \union session.dirty \union ToSet(session.new)

\* A session has the plans of the table and those it has written.
SessionOK(session, table) ==
    /\ session \in SessionRecord
    /\ \A e \in Event : table[e].exists \/ e \in Written(session)
                           => session.view[e].exists

\* A sync that merges is at an event of the list it has read.
SyncOK(s, lists) ==
    /\ s \in SyncRecord
    /\ s.pc = "merge" =>
          /\ s.seen \in 1..Len(lists)
          /\ s.page * Size + s.next <= Len(lists[s.seen])

\* How many events of a list a sync has been through.
Handled(s, list) ==
    IF s.pc = "search" THEN s.page * Size
    ELSE IF s.pc = "merge" THEN (s.page * Size + s.next) - 1
    ELSE Len(list)

Merged(plan, s, v) ==
    plan.exists /\ (plan.details = v \/ (s.stale_only /\ plan.fresh))

\* A sync over what is offered has merged every event it has been through.
SteadyOK(s, view, lists) ==
    s.pc # "idle" /\ s.steady =>
        /\ s.pc = "merge" => s.seen = Len(lists)
        /\ \A i \in 1..Len(lists[Len(lists)]) :
              i <= Handled(s, lists[Len(lists)]) =>
                  Merged(view[lists[Len(lists)][i]], s, Len(lists))

World ==
    /\ offered \in Seq(Catalogues) /\ Version \in 1..MaxVersion
    /\ cached \in [Pages -> 0..MaxVersion]
    /\ \A n \in Pages : cached[n] <= Version
    /\ stored \in [Event -> PlanRecord]

SyncInv ==
    /\ World
    /\ sessions = [p \in Process |-> sessions[p]]
    /\ syncs = [p \in Process |-> syncs[p]]
    /\ \A p \in Process :
          /\ SessionOK(sessions[p], stored)
          /\ SyncOK(syncs[p], offered)
          /\ SteadyOK(syncs[p], sessions[p].view, offered)

-----------------------------------------------------------------------------
(* The steps *)

LEMMA ListsOffered ==
    ASSUME World, NEW v \in 1..Version
    PROVE  offered[v] \in Catalogues /\ offered[v] \in Seq(Event)
<1>1. offered[v] \in Catalogues
  BY ElementOfSeq DEF World, Version
<1>. QED  BY <1>1, SyncAssumption

LEMMA FirstPageExists == 0 \in Pages
<1>1. PICK c \in Catalogues : \A d \in Catalogues : Len(d) <= Len(c)
  BY SyncAssumption
<1>2. Len(c) \in Nat
  BY SyncAssumption, LenProperties
<1>3. 0 * Size = 0
  BY SyncAssumption
<1>. QED  BY <1>2, <1>3, PagesContain

LEMMA NoSyncOK ==
    /\ NoSync \in SyncRecord
    /\ NoSync.pc = "idle" /\ NoSync.page = 0
    /\ \A lists : SyncOK(NoSync, lists)
    /\ \A lists, view : SteadyOK(NoSync, view, lists)
<1>1. NoSync \in SyncRecord
  BY FirstPageExists, SyncAssumption DEF NoSync, SyncRecord
<1>2. NoSync.pc = "idle" /\ NoSync.page = 0
  BY DEF NoSync
<1>. QED  BY <1>1, <1>2 DEF SyncOK, SteadyOK

LEMMA FreshSessionOK ==
    ASSUME World
    PROVE  /\ SessionOK(NewSession, stored)
           /\ SessionOK([NewSession EXCEPT !.failed = TRUE], stored)
<1>1. ToSet(<<>>) = {} /\ <<>> \in Seq(Event)
  BY DEF ToSet
<1>. QED  BY <1>1 DEF World, SessionOK, SessionRecord, NewSession, Written

\* One process moves on, in an unchanged world but for the cached pages.
LEMMA ProcessMoves ==
    ASSUME SyncInv, NEW p \in Process, NEW s, NEW session,
           World', offered' = offered, stored' = stored,
           syncs' = [syncs EXCEPT ![p] = s],
           sessions' = [sessions EXCEPT ![p] = session],
           SessionOK(session, stored), SyncOK(s, offered),
           SteadyOK(s, session.view, offered)
    PROVE  SyncInv'
<1>1. /\ sessions' = [q \in Process |-> sessions'[q]]
      /\ syncs' = [q \in Process |-> syncs'[q]]
  BY DEF SyncInv
<1>2. ASSUME NEW q \in Process
      PROVE  /\ SessionOK(sessions'[q], stored')
             /\ SyncOK(syncs'[q], offered')
             /\ SteadyOK(syncs'[q], sessions'[q].view, offered')
  <2>1. CASE q = p
    <3>1. sessions'[q] = session /\ syncs'[q] = s
      BY <2>1 DEF SyncInv
    <3>. QED  BY <3>1
  <2>2. CASE q # p
    <3>1. sessions'[q] = sessions[q] /\ syncs'[q] = syncs[q]
      BY <2>2 DEF SyncInv
    <3>. QED  BY <3>1 DEF SyncInv
  <2>. QED  BY <2>1, <2>2
<1>. QED  BY <1>1, <1>2 DEF SyncInv

LEMMA SameSessions ==
    ASSUME SyncInv, NEW p \in Process, UNCHANGED sessions
    PROVE  sessions' = [sessions EXCEPT ![p] = sessions[p]]
BY DEF SyncInv

LEMMA LeaveSync ==
    ASSUME SyncInv, NEW p \in Process, NEW session, SessionOK(session, stored),
           Leave(p, session)
    PROVE  SyncInv'
<1>. DEFINE left == IF p \in Resident THEN session ELSE NewSession
<1>1. /\ syncs' = [syncs EXCEPT ![p] = NoSync]
      /\ sessions' = [sessions EXCEPT ![p] = left]
      /\ offered' = offered /\ stored' = stored /\ cached' = cached
  BY DEF Leave
<1>2. World /\ World'
  BY <1>1 DEF SyncInv, World, Version
<1>3. SessionOK(left, stored)
  BY <1>2, FreshSessionOK
<1>. HIDE DEF left
<1>. QED  BY <1>1, <1>2, <1>3, NoSyncOK, ProcessMoves

LEMMA HandleSyncPlansOK ==
    ASSUME SyncInv, NEW p \in Process, NEW stale_only \in BOOLEAN,
           HandleSyncPlans(p, stale_only)
    PROVE  SyncInv'
<1>. DEFINE s == [NoSync EXCEPT !.pc = "search", !.stale_only = stale_only]
<1>1. /\ syncs' = [syncs EXCEPT ![p] = s]
      /\ offered' = offered /\ stored' = stored /\ cached' = cached
      /\ sessions' = sessions
  BY DEF HandleSyncPlans
<1>2. s \in SyncRecord /\ s.pc = "search" /\ s.page = 0
  BY NoSyncOK DEF SyncRecord
<1>. HIDE DEF s
<1>3. SyncOK(s, offered)
  BY <1>2 DEF SyncOK
<1>4. SteadyOK(s, sessions[p].view, offered)
  <2>1. s.page * Size = 0
    BY <1>2, SyncAssumption
  <2>2. \A i \in 1..Len(offered[Len(offered)]) :
           ~(i <= Handled(s, offered[Len(offered)]))
    BY <1>2, <2>1 DEF Handled
  <2>. QED  BY <1>2, <2>2 DEF SteadyOK
<1>5. World'
  BY <1>1 DEF SyncInv, World, Version
<1>6. SessionOK(sessions[p], stored)
  BY DEF SyncInv
<1>. QED  BY <1>1, <1>3, <1>4, <1>5, <1>6, SameSessions, ProcessMoves
LEMMA SearchPlansOK ==
    ASSUME SyncInv, NEW p \in Process, SearchPlans(p)
    PROVE  SyncInv'
<1>. DEFINE s == syncs[p]
            v == IF cached[s.page] > 0 THEN cached[s.page] ELSE Version
            events == PageOf(v, s.page)
            start == s.page * Size
            t == [s EXCEPT !.pc = IF events = <<>> THEN "done" ELSE "merge",
                           !.seen = v, !.next = 1, !.steady = (@ /\ v = Version)]
<1>1. /\ cached' = [cached EXCEPT ![s.page] = v]
      /\ syncs' = [syncs EXCEPT ![p] = t]
      /\ offered' = offered /\ stored' = stored /\ sessions' = sessions
      /\ s.pc = "search"
  BY DEF SearchPlans
<1>2. s \in SyncRecord /\ s.page \in Pages /\ s.page \in Nat
  <2>1. s \in SyncRecord
    BY DEF SyncInv, SyncOK
  <2>2. s.page \in Pages
    BY <2>1 DEF SyncRecord
  <2>. HIDE DEF s
  <2>. QED  BY <2>1, <2>2 DEF Pages
<1>3. /\ cached \in [Pages -> 0..MaxVersion] /\ Version \in 1..MaxVersion
      /\ \A n \in Pages : cached[n] <= Version
      /\ World /\ MaxVersion \in Nat
  BY SyncAssumption DEF SyncInv, World
<1>4. v \in 1..Version /\ v \in 0..MaxVersion
  <2>1. cached[s.page] \in 0..MaxVersion /\ cached[s.page] <= Version
    BY <1>2, <1>3
  <2>. HIDE DEF s
  <2>. QED  BY <1>3, <2>1
<1>. HIDE DEF v
<1>5. offered[v] \in Seq(Event)
  BY <1>3, <1>4, ListsOffered
<1>6. /\ events \in Seq(Event) /\ Len(events) \in 0..Size /\ start \in Nat
      /\ Len(events) > 0 => start + Len(events) <= Len(offered[v])
      /\ Len(events) < Size => Len(offered[v]) <= start + Len(events)
  BY <1>2, <1>5, PageShape, PageBounds
<1>. HIDE DEF events
<1>7. events = <<>> => Len(events) = 0
  OBVIOUS
<1>8. events # <<>> => Len(events) > 0
  BY <1>6
<1>9. /\ t \in SyncRecord /\ t.page = s.page /\ t.seen = v /\ t.next = 1
      /\ t.stale_only = s.stale_only
      /\ t.steady => s.steady /\ v = Version
      /\ t.pc = IF events = <<>> THEN "done" ELSE "merge"
  <2>. DEFINE pc == IF events = <<>> THEN "done" ELSE "merge"
              steady == s.steady /\ v = Version
  <2>1. pc \in {"idle", "search", "merge", "done"} /\ steady \in BOOLEAN /\ 1 \in 1..Size
    BY SyncAssumption
  <2>2. t = [s EXCEPT !.pc = pc, !.seen = v, !.next = 1, !.steady = steady]
    OBVIOUS
  <2>. HIDE DEF t, s, pc, steady
  <2>3. /\ t \in SyncRecord /\ t.page = s.page /\ t.seen = v /\ t.next = 1
        /\ t.stale_only = s.stale_only /\ t.pc = pc
    BY <1>2, <1>4, <2>1, <2>2 DEF SyncRecord
  <2>4. t.steady = steady
    BY <1>2, <2>2 DEF SyncRecord
  <2>. QED  BY <2>3, <2>4 DEF pc, steady
<1>10. /\ SteadyOK(s, sessions[p].view, offered)
       /\ SessionOK(sessions[p], stored)
  BY DEF SyncInv
<1>. HIDE DEF t
<1>11. World'
  BY <1>1, <1>2, <1>3, <1>4 DEF World, Version
<1>12. SyncOK(t, offered)
  <2>. SUFFICES ASSUME t.pc = "merge"
                PROVE  v \in 1..Len(offered) /\ start + 1 <= Len(offered[v])
    BY <1>9 DEF SyncOK
  <2>1. Len(offered[v]) \in Nat
    BY <1>5, LenProperties
  <2>. HIDE DEF start
  <2>. QED  BY <1>4, <1>6, <1>8, <1>9, <2>1 DEF Version
<1>13. SteadyOK(t, sessions[p].view, offered)
  <2>. DEFINE list == offered[Len(offered)]
  <2>. SUFFICES ASSUME t.steady
                PROVE  /\ t.pc = "merge" => t.seen = Len(offered)
                       /\ \A i \in 1..Len(list) : i <= Handled(t, list) =>
                             Merged(sessions[p].view[list[i]], t, Len(offered))
    BY DEF SteadyOK
  <2>1. s.steady /\ v = Len(offered) /\ s.pc # "idle"
    BY <1>1, <1>9 DEF Version
  <2>2. \A i \in 1..Len(list) : i <= start =>
           Merged(sessions[p].view[list[i]], s, Len(offered))
    BY <1>1, <1>10, <2>1 DEF SteadyOK, Handled
  <2>3. ASSUME NEW i \in 1..Len(list), i <= Handled(t, list)
        PROVE  i <= start
    <3>1. CASE t.pc = "merge"
      <4>1. Handled(t, list) = (start + 1) - 1
        BY <1>9, <3>1 DEF Handled
      <4>. HIDE DEF start, list
      <4>. QED  BY <1>6, <2>3, <4>1
    <3>2. CASE t.pc # "merge"
      <4>1. Len(events) = 0
        BY <1>7, <1>9, <3>2
      <4>2. Len(list) <= start
        <5>. HIDE DEF start
        <5>. QED  BY <1>6, <2>1, <4>1, SyncAssumption
      <4>3. Len(list) \in Nat
        BY <1>5, <2>1, LenProperties
      <4>. HIDE DEF start, list
      <4>. QED  BY <1>6, <4>2, <4>3
    <3>. QED  BY <3>1, <3>2
  <2>. HIDE DEF list, start
  <2>. QED  BY <1>9, <2>1, <2>2, <2>3 DEF Merged
<1>. QED  BY <1>1, <1>10, <1>11, <1>12, <1>13, SameSessions, ProcessMoves

LEMMA FlushOK ==
    ASSUME NEW session, NEW table, SessionOK(session, table)
    PROVE  /\ SessionOK(Flush(session), table)
           /\ Flush(session).view = session.view
           /\ Flush(session).new = <<>>
           /\ Written(Flush(session)) = Flush(session).locked
<1>1. ToSet(session.new) \subseteq Event
  BY LenProperties, ElementOfSeq DEF SessionOK, SessionRecord, ToSet
<1>. DEFINE written == Written(session)
            flushed == [session EXCEPT !.locked = written, !.new = <<>>, !.dirty = {}]
<1>2. Flush(session) = flushed
  BY DEF Flush, Written
<1>3. ToSet(<<>>) = {} /\ <<>> \in Seq(Event)
  BY DEF ToSet
<1>4. Written(session) \subseteq Event
  BY <1>1 DEF SessionOK, SessionRecord, Written
<1>. HIDE DEF written
<1>5. /\ flushed \in SessionRecord /\ flushed.view = session.view
      /\ flushed.new = <<>> /\ flushed.dirty = {} /\ flushed.locked = written
  BY <1>3, <1>4 DEF SessionOK, SessionRecord, written
<1>. HIDE DEF flushed
<1>6. Written(flushed) = written
  BY <1>3, <1>5 DEF Written
<1>7. SessionOK(flushed, table)
  BY <1>5, <1>6 DEF SessionOK, written
<1>. QED  BY <1>2, <1>5, <1>6, <1>7

\* The next event, the next page or the end: nothing is passed over.
LEMMA AdvanceOK ==
    ASSUME World, NEW s, SyncOK(s, offered), s.pc = "merge"
    PROVE  LET events == PageOf(s.seen, s.page)
               t == Advance(s, events)
               list == offered[s.seen]
               at == s.page * Size + s.next
           IN
           /\ s.seen \in 1..Version /\ s.next \in 1..Len(events) /\ at \in 1..Len(list)
           /\ events[s.next] = list[at] /\ list[at] \in Event
           /\ SyncOK(t, offered) /\ t.pc # "idle"
           /\ t.stale_only = s.stale_only /\ t.steady = s.steady
           /\ t.seen = s.seen
           /\ \A i \in 1..Len(list) : i <= Handled(t, list) => i <= at
<1>. DEFINE events == PageOf(s.seen, s.page)
            t == Advance(s, events)
            list == offered[s.seen]
            start == s.page * Size
<1>1. /\ s \in SyncRecord /\ s.seen \in 1..Version /\ start + s.next <= Len(list)
      /\ s.page \in Pages /\ s.page \in Nat /\ s.next \in 1..Size
      /\ Size \in Nat /\ Size > 0
  BY SyncAssumption DEF SyncOK, SyncRecord, Pages, Version
<1>2. list \in Seq(Event) /\ list \in Catalogues /\ Len(list) \in Nat
  BY <1>1, ListsOffered, LenProperties
<1>3. /\ Len(events) \in 0..Size /\ start \in Nat /\ (s.page + 1) * Size = start + Size
      /\ Len(events) > 0 => start + Len(events) <= Len(list)
      /\ Len(events) < Size => Len(list) <= start + Len(events)
      /\ \A i \in 1..Len(events) : events[i] = list[start + i]
  BY <1>1, <1>2, PageShape, PageBounds
<1>. HIDE DEF start, events, list
<1>4. s.next \in 1..Len(events) /\ start + s.next \in 1..Len(list)
  BY <1>1, <1>2, <1>3
<1>5. events[s.next] = list[start + s.next] /\ list[start + s.next] \in Event
  BY <1>2, <1>3, <1>4, ElementOfSeq
<1>6. CASE s.next < Len(events)
  <2>1. /\ t = [s EXCEPT !.next = @ + 1]
        /\ s.next + 1 \in 1..Size /\ start + (s.next + 1) <= Len(list)
        /\ (start + (s.next + 1)) - 1 = start + s.next
    BY <1>1, <1>2, <1>3, <1>6 DEF Advance
  <2>2. /\ t \in SyncRecord /\ t.pc = "merge" /\ t.page = s.page /\ t.seen = s.seen
        /\ t.next = s.next + 1 /\ t.stale_only = s.stale_only
        /\ t.steady = s.steady
    BY <1>1, <2>1 DEF SyncRecord
  <2>. HIDE DEF t
  <2>3. t.page * Size = start
    BY <2>2 DEF start
  <2>4. Handled(t, list) = start + s.next
    BY <2>1, <2>2, <2>3 DEF Handled
  <2>5. SyncOK(t, offered)
    BY <1>1, <2>1, <2>2, <2>3 DEF SyncOK, list, Version
  <2>. QED  BY <1>1, <1>4, <1>5, <2>2, <2>4, <2>5 DEF t, start, events, list
<1>7. CASE ~(s.next < Len(events))
  <2>1. s.next = Len(events)
    BY <1>1, <1>3, <1>4, <1>7
  <2>2. CASE Len(events) < Size
    <3>1. t = [s EXCEPT !.pc = "done"]
      BY <1>7, <2>2 DEF Advance
    <3>2. /\ t \in SyncRecord /\ t.pc = "done" /\ t.seen = s.seen
          /\ t.stale_only = s.stale_only /\ t.steady = s.steady
      BY <1>1, <3>1 DEF SyncRecord
    <3>. HIDE DEF t
    <3>3. SyncOK(t, offered)
      BY <3>2 DEF SyncOK
    <3>4. \A i \in 1..Len(list) : i <= start + s.next
      BY <1>1, <1>2, <1>3, <2>1, <2>2
    <3>. QED  BY <1>1, <1>4, <1>5, <3>2, <3>3, <3>4 DEF t, start, events, list
  <2>3. CASE ~(Len(events) < Size)
    <3>1. Len(events) = Size
      BY <1>1, <1>3, <2>3
    <3>2. t = [s EXCEPT !.pc = "search", !.page = @ + 1]
      BY <1>7, <2>3 DEF Advance
    <3>3. s.page + 1 \in Pages
      <4>1. start + Size <= Len(list)
        BY <1>1, <1>3, <3>1
      <4>2. (s.page + 1) * Size <= Len(list)
        BY <1>3, <4>1
      <4>. QED  BY <1>1, <1>2, <4>2, PagesContain
    <3>4. /\ t \in SyncRecord /\ t.pc = "search" /\ t.page = s.page + 1 /\ t.seen = s.seen
          /\ t.stale_only = s.stale_only /\ t.steady = s.steady
      BY <1>1, <3>2, <3>3 DEF SyncRecord
    <3>. HIDE DEF t
    <3>5. SyncOK(t, offered)
      BY <3>4 DEF SyncOK
    <3>6. Handled(t, list) = start + s.next
      BY <1>3, <2>1, <3>1, <3>4 DEF Handled
    <3>. QED  BY <1>1, <1>4, <1>5, <3>4, <3>5, <3>6 DEF t, start, events, list
  <2>. QED  BY <2>2, <2>3
<1>. QED  BY <1>6, <1>7
\* A plan that is new or changed has the provider's details and is fresh.
LEMMA PlanMerged ==
    ASSUME NEW plan \in PlanRecord, NEW v \in 0..MaxVersion
    PROVE  /\ UpdatePlan(plan, v) \in PlanRecord /\ UpdatePlan(plan, v).details = v
           /\ UpdatePlan(plan, v).exists = plan.exists
           /\ FromTicketmaster(v) \in PlanRecord /\ FromTicketmaster(v).details = v
           /\ FromTicketmaster(v).exists
BY DEF PlanRecord, UpdatePlan, FromTicketmaster

\* A session in which the plan of one event is set, as changed or as added.
SetPlan(session, e, plan) == [session.view EXCEPT ![e] = plan]
Changed(session, e, plan) ==
    [session EXCEPT !.view = SetPlan(session, e, plan), !.dirty = session.dirty \union {e}]
Added(session, e, plan) ==
    [session EXCEPT !.view = SetPlan(session, e, plan), !.new = Append(session.new, e)]

LEMMA SetPlanOK ==
    ASSUME NEW table, NEW session, NEW e \in Event, NEW plan \in PlanRecord,
           SessionOK(session, table), plan.exists, session.new = <<>>
    PROVE  /\ SessionOK(Changed(session, e, plan), table)
           /\ Changed(session, e, plan).view = SetPlan(session, e, plan)
           /\ SessionOK(Added(session, e, plan), table)
           /\ Added(session, e, plan).view = SetPlan(session, e, plan)
<1>. DEFINE view == [session.view EXCEPT ![e] = plan]
            dirty == session.dirty \union {e}
            new == Append(session.new, e)
            updated == [session EXCEPT !.view = view, !.dirty = dirty]
            added == [session EXCEPT !.view = view, !.new = new]
<1>1. /\ session \in SessionRecord
      /\ \A f \in Event : table[f].exists \/ f \in Written(session)
                             => session.view[f].exists
  BY DEF SessionOK
<1>2. /\ view \in [Event -> PlanRecord] /\ dirty \in SUBSET Event
      /\ \A f \in Event : view[f] = IF f = e THEN plan ELSE session.view[f]
  BY <1>1 DEF SessionRecord
<1>3. new \in Seq(Event) /\ ToSet(new) = {e} /\ ToSet(session.new) = {}
  <2>1. new = <<e>>
    OBVIOUS
  <2>2. ToSet(<<e>>) = {e} /\ ToSet(<<>>) = {} /\ <<e>> \in Seq(Event)
    BY DEF ToSet
  <2>. QED  BY <2>1, <2>2
<1>4. dirty = session.dirty \union {e}
  OBVIOUS
<1>. HIDE DEF view, dirty, new
<1>5. /\ updated \in SessionRecord /\ updated.view = view /\ updated.new = session.new
      /\ updated.dirty = dirty /\ updated.locked = session.locked
  BY <1>1, <1>2 DEF SessionRecord
<1>6. /\ added \in SessionRecord /\ added.view = view /\ added.new = new
      /\ added.dirty = session.dirty /\ added.locked = session.locked
  BY <1>1, <1>2, <1>3 DEF SessionRecord
<1>. HIDE DEF updated, added
<1>8. Written(updated) = Written(session) \union {e}
  BY <1>4, <1>5 DEF Written
<1>9. Written(added) = Written(session) \union {e}
  BY <1>3, <1>6 DEF Written
<1>10. SessionOK(updated, table) /\ SessionOK(added, table)
  BY <1>1, <1>2, <1>5, <1>6, <1>8, <1>9 DEF SessionOK
<1>. QED  BY <1>5, <1>6, <1>10 DEF view, dirty, new, updated, added, SetPlan, Changed, Added

LEMMA MergeSyncs ==
    ASSUME SyncInv, NEW p \in Process, Merge(p)
    PROVE  SyncInv'
<1>. DEFINE s == syncs[p]
            e == EventOf(p)
            session == Flush(sessions[p])
            old == session.view[e]
            updated == [session EXCEPT !.view[e] = UpdatePlan(old, s.seen),
                                       !.dirty = @ \union {e}]
            added == [session EXCEPT !.view[e] = FromTicketmaster(s.seen),
                                     !.new = Append(@, e)]
            next == Advance(s, EventsOf(p))
            skip == Existing(session, e) /\ s.stale_only /\ old.fresh
            changed == IF skip THEN session
                       ELSE IF Existing(session, e) THEN updated ELSE added
            list == offered[s.seen]
            at == s.page * Size + s.next
<1>1. /\ sessions' = [sessions EXCEPT ![p] = changed]
      /\ syncs' = [syncs EXCEPT ![p] = next]
      /\ offered' = offered /\ stored' = stored /\ cached' = cached
      /\ s.pc = "merge"
  BY DEF Merge, Querying
<1>2. World /\ World'
  BY <1>1 DEF SyncInv, World, Version
<1>3. SyncOK(s, offered) /\ SteadyOK(s, sessions[p].view, offered)
      /\ SessionOK(sessions[p], stored)
  BY DEF SyncInv
<1>4. e = EventsOf(p)[s.next] /\ EventsOf(p) = PageOf(s.seen, s.page)
  BY DEF EventOf, EventsOf
<1>5. /\ s.seen \in 1..Version /\ at \in 1..Len(list) /\ e = list[at] /\ e \in Event
      /\ SyncOK(next, offered) /\ next.pc # "idle"
      /\ next.stale_only = s.stale_only /\ next.steady = s.steady
      /\ next.seen = s.seen
      /\ \A i \in 1..Len(list) : i <= Handled(next, list) => i <= at
  <2>. HIDE DEF s
  <2>1. next = Advance(s, PageOf(s.seen, s.page)) /\ e = PageOf(s.seen, s.page)[s.next]
    BY <1>4
  <2>. HIDE DEF next, e
  <2>. QED  BY <1>1, <1>2, <1>3, <2>1, AdvanceOK
<1>6. SessionOK(session, stored) /\ session.view = sessions[p].view
      /\ session.new = <<>> /\ Written(session) = session.locked
  BY <1>3, FlushOK
<1>7. s.seen \in 0..MaxVersion
  BY <1>2, <1>5, SyncAssumption DEF World
<1>. HIDE DEF session, next, e, at, list, s
<1>8. old \in PlanRecord /\ (Existing(session, e) => old.exists)
  BY <1>5, <1>6 DEF SessionOK, SessionRecord, Existing
<1>9. /\ Existing(session, e) =>
            SessionOK(updated, stored)
            /\ updated.view = SetPlan(session, e, UpdatePlan(old, s.seen))
      /\ SessionOK(added, stored)
      /\ added.view = SetPlan(session, e, FromTicketmaster(s.seen))
  <2>. DEFINE newer == UpdatePlan(old, s.seen)
              found == FromTicketmaster(s.seen)
  <2>1. /\ newer \in PlanRecord /\ (Existing(session, e) => newer.exists)
        /\ found \in PlanRecord /\ found.exists
    <3>. HIDE DEF old
    <3>. QED  BY <1>7, <1>8, PlanMerged
  <2>. HIDE DEF newer, found
  <2>2. updated = Changed(session, e, newer) /\ added = Added(session, e, found)
    BY DEF newer, found, Changed, Added, SetPlan
  <2>. HIDE DEF updated, added
  <2>. QED  BY <1>5, <1>6, <2>1, <2>2, SetPlanOK DEF newer, found
<1>10. SessionOK(changed, stored)
  <2>. HIDE DEF updated, added, skip
  <2>. QED  BY <1>6, <1>9
<1>11. /\ \A f \in Event : f # e => changed.view[f] = session.view[f]
       /\ Merged(changed.view[e], s, s.seen)
  <2>1. session.view \in [Event -> PlanRecord]
    BY <1>6 DEF SessionOK, SessionRecord
  <2>. HIDE DEF updated, added
  <2>2. CASE skip
    <3>1. changed = session /\ Existing(session, e) /\ s.stale_only /\ session.view[e].fresh
      BY <2>2
    <3>. HIDE DEF changed
    <3>. QED  BY <1>8, <3>1 DEF Merged
  <2>3. CASE ~skip
    <3>. DEFINE plan == IF Existing(session, e) THEN UpdatePlan(old, s.seen)
                        ELSE FromTicketmaster(s.seen)
    <3>1. changed.view = SetPlan(session, e, plan)
      <4>. HIDE DEF skip, old
      <4>. QED  BY <1>9, <2>3
    <3>2. plan.exists /\ plan.details = s.seen
      <4>. HIDE DEF old
      <4>. QED  BY <1>7, <1>8, PlanMerged
    <3>. HIDE DEF plan, changed
    <3>. QED  BY <1>5, <2>1, <3>1, <3>2 DEF Merged, SetPlan
  <2>. QED  BY <2>2, <2>3
<1>. HIDE DEF updated, added, changed, skip, old
<1>12. SteadyOK(next, changed.view, offered)
  <2>. SUFFICES ASSUME next.steady
                PROVE  /\ next.seen = Len(offered)
                       /\ \A i \in 1..Len(offered[Len(offered)]) :
                             i <= Handled(next, offered[Len(offered)]) =>
                                Merged(changed.view[offered[Len(offered)][i]], next,
                                       Len(offered))
    BY DEF SteadyOK
  <2>1. s.steady /\ s.seen = Len(offered) /\ next.seen = Len(offered)
    BY <1>1, <1>3, <1>5 DEF SteadyOK
  <2>2. list = offered[Len(offered)]
    BY <2>1 DEF list
  <2>3. \A i \in 1..Len(list) : i <= at - 1 =>
           Merged(session.view[list[i]], s, Len(offered))
    <3>1. s.pc = "merge" /\ s.pc # "search" /\ s.pc # "idle"
      BY <1>1
    <3>2. Handled(s, list) = at - 1
      BY <3>1 DEF Handled, at
    <3>. QED  BY <1>3, <1>6, <2>1, <2>2, <3>1, <3>2 DEF SteadyOK
  <2>4. ASSUME NEW i \in 1..Len(list), i <= Handled(next, list)
        PROVE  Merged(changed.view[list[i]], next, Len(offered))
    <3>1. i <= at /\ i \in Int /\ at \in Int
      BY <1>5, <2>4
    <3>2. list[i] \in Event
      BY <1>2, <1>5, ListsOffered, ElementOfSeq DEF list
    <3>3. CASE list[i] = e
      BY <1>5, <1>11, <2>1, <3>3 DEF Merged
    <3>4. CASE list[i] # e
      <4>1. i <= at - 1
        BY <1>5, <3>1, <3>4
      <4>. QED  BY <1>5, <1>11, <2>3, <3>2, <3>4, <4>1 DEF Merged
    <3>. QED  BY <3>3, <3>4
  <2>. QED  BY <2>1, <2>2, <2>4
<1>. QED  BY <1>1, <1>2, <1>5, <1>10, <1>12, ProcessMoves

\* A sync that runs while the provider changes is not steady any more.
LEMMA ChangeOK ==
    ASSUME SyncInv, NEW c \in Catalogues, Change(c)
    PROVE  SyncInv'
<1>. DEFINE later(s) == [s EXCEPT !.steady = (s.pc = "idle")]
<1>1. /\ Version < MaxVersion /\ offered' = Append(offered, c)
      /\ syncs' = [p \in Process |-> later(syncs[p])]
      /\ cached' = cached /\ stored' = stored /\ sessions' = sessions
  BY DEF Change
<1>2. offered \in Seq(Catalogues) /\ Version \in 1..MaxVersion /\ Version = Len(offered)
  BY DEF SyncInv, World, Version
<1>3. /\ offered' \in Seq(Catalogues) /\ Len(offered') = Version + 1
      /\ \A v \in 1..Version : offered'[v] = offered[v]
  BY <1>1, <1>2
<1>4. World'
  <2>1. Len(offered') \in 1..MaxVersion
    BY <1>1, <1>2, <1>3, SyncAssumption
  <2>2. \A n \in Pages : cached[n] <= Len(offered')
    <3>1. \A n \in Pages : cached[n] \in 0..MaxVersion /\ cached[n] <= Version
      BY DEF SyncInv, World
    <3>. QED  BY <1>2, <1>3, <3>1
  <2>. QED  BY <1>1, <1>3, <2>1, <2>2 DEF SyncInv, World, Version
<1>5. ASSUME NEW p \in Process
      PROVE  SyncOK(syncs'[p], offered') /\ SteadyOK(syncs'[p], sessions'[p].view, offered')
  <2>. DEFINE s == syncs[p]
  <2>1. syncs'[p] = later(s) /\ SyncOK(s, offered)
    BY <1>1 DEF SyncInv
  <2>. HIDE DEF s
  <2>2. /\ later(s) \in SyncRecord /\ later(s).pc = s.pc /\ later(s).page = s.page
        /\ later(s).seen = s.seen /\ later(s).next = s.next
        /\ later(s).steady => s.pc = "idle"
    <3>. DEFINE steady == s.pc = "idle"
    <3>1. s \in SyncRecord /\ steady \in BOOLEAN
      BY <2>1 DEF SyncOK
    <3>. HIDE DEF steady
    <3>2. /\ [s EXCEPT !.steady = steady] \in SyncRecord
          /\ [s EXCEPT !.steady = steady].pc = s.pc
          /\ [s EXCEPT !.steady = steady].page = s.page
          /\ [s EXCEPT !.steady = steady].seen = s.seen
          /\ [s EXCEPT !.steady = steady].next = s.next
      BY <3>1 DEF SyncRecord
    <3>3. [s EXCEPT !.steady = steady].steady = steady
      BY <3>1 DEF SyncRecord
    <3>. QED  BY <3>2, <3>3 DEF steady
  <2>. HIDE DEF later
  <2>3. s.pc = "merge" => /\ s.seen \in 1..Version
                          /\ s.page * Size + s.next <= Len(offered[s.seen])
    BY <1>2, <2>1 DEF SyncOK
  <2>4. s.pc = "merge" => s.seen \in 1..Len(offered') /\ offered'[s.seen] = offered[s.seen]
    BY <1>2, <1>3, <2>3
  <2>. QED  BY <2>1, <2>2, <2>3, <2>4 DEF SyncOK, SteadyOK
<1>6. syncs' = [p \in Process |-> syncs'[p]]
  BY <1>1
<1>. QED  BY <1>1, <1>4, <1>5, <1>6 DEF SyncInv

LEMMA ExpirePageOK ==
    ASSUME SyncInv, NEW n \in Pages, ExpirePage(n)
    PROVE  SyncInv'
<1>1. /\ cached' = [cached EXCEPT ![n] = 0]
      /\ UNCHANGED <<offered, stored, sessions, syncs>>
  BY DEF ExpirePage
<1>2. World'
  <2>1. \A m \in Pages : cached'[m] = 0 \/ cached'[m] = cached[m]
    BY <1>1 DEF SyncInv, World
  <2>2. cached' \in [Pages -> 0..MaxVersion]
    BY <1>1, SyncAssumption DEF SyncInv, World
  <2>. QED  BY <1>1, <2>1, <2>2, SyncAssumption DEF SyncInv, World, Version
<1>. QED  BY <1>1, <1>2 DEF SyncInv

LEMMA DayPassesSyncs ==
    ASSUME SyncInv, DayPasses
    PROVE  SyncInv'
<1>. DEFINE aged(view) == [e \in Event |-> [view[e] EXCEPT !.fresh = FALSE]]
            older(session) == [session EXCEPT !.view = aged(session.view)]
<1>1. /\ cached' = [n \in Pages |-> 0]
      /\ sessions' = [p \in Process |-> older(sessions[p])]
      /\ UNCHANGED <<offered, stored, syncs>>
      /\ \A p \in Process : syncs[p].pc = "idle"
  BY DEF DayPasses
<1>2. World'
  BY <1>1, SyncAssumption DEF SyncInv, World, Version
<1>3. ASSUME NEW session, SessionOK(session, stored)
      PROVE  SessionOK(older(session), stored)
  <2>1. session \in SessionRecord /\ session.view \in [Event -> PlanRecord]
    BY <1>3 DEF SessionOK, SessionRecord
  <2>2. ASSUME NEW e \in Event
        PROVE  /\ aged(session.view)[e] \in PlanRecord
               /\ aged(session.view)[e].exists = session.view[e].exists
    BY <2>1 DEF PlanRecord
  <2>3. aged(session.view) \in [Event -> PlanRecord]
    BY <2>2
  <2>. HIDE DEF aged
  <2>4. /\ older(session) \in SessionRecord
        /\ older(session).view = aged(session.view)
        /\ older(session).new = session.new /\ older(session).dirty = session.dirty
        /\ older(session).locked = session.locked
    BY <2>1, <2>3 DEF SessionRecord
  <2>. HIDE DEF older
  <2>. QED  BY <1>3, <2>2, <2>4 DEF SessionOK, Written
<1>4. ASSUME NEW p \in Process
      PROVE  /\ SessionOK(sessions'[p], stored')
             /\ SyncOK(syncs'[p], offered')
             /\ SteadyOK(syncs'[p], sessions'[p].view, offered')
  <2>1. sessions'[p] = older(sessions[p]) /\ SessionOK(sessions[p], stored)
        /\ SyncOK(syncs[p], offered)
    BY <1>1 DEF SyncInv
  <2>. HIDE DEF older
  <2>2. SessionOK(sessions'[p], stored')
    BY <1>1, <1>3, <2>1
  <2>3. SyncOK(syncs'[p], offered') /\ syncs'[p].pc = "idle"
    BY <1>1, <2>1
  <2>. QED  BY <2>2, <2>3 DEF SteadyOK
<1>. QED  BY <1>1, <1>2, <1>4 DEF SyncInv

LEMMA SyncStep ==
    ASSUME SyncInv, NEW p \in Process,
           Step(p) \/ ProviderRaises(p) \/ DatabaseRaises(p) \/ Restart(p)
    PROVE  SyncInv'
<1>1. SessionOK(sessions[p], stored) /\ World
  BY DEF SyncInv
<1>2. CASE Report(p) \/ DateRangeRaises(p) \/ PendingRollback(p) \/ ProviderRaises(p)
  BY <1>1, <1>2, LeaveSync DEF Report, DateRangeRaises, PendingRollback, ProviderRaises
<1>3. CASE DatabaseRaises(p) \/ BreakDeadlock(p)
  BY <1>1, <1>3, FreshSessionOK, LeaveSync DEF DatabaseRaises, BreakDeadlock
<1>4. CASE Restart(p)
  BY <1>1, <1>4, FreshSessionOK, LeaveSync DEF Restart
<1>. QED  BY <1>2, <1>3, <1>4, SearchPlansOK, MergeSyncs DEF Step

LEMMA SyncInit == Init => SyncInv
<1>. SUFFICES ASSUME Init PROVE SyncInv
  OBVIOUS
<1>1. PICK c \in Catalogues : offered = <<c>>
  BY DEF Init
<1>2. World
  <2>1. offered \in Seq(Catalogues) /\ Len(offered) = 1
    BY <1>1
  <2>2. cached \in [Pages -> 0..MaxVersion] /\ \A n \in Pages : cached[n] = 0
    BY SyncAssumption DEF Init
  <2>3. stored \in [Event -> PlanRecord]
    <3>1. ASSUME NEW e \in Event
          PROVE  [NoPlan EXCEPT !.exists = (e \in Seeded)] \in PlanRecord
      <4>. DEFINE seeded == e \in Seeded
      <4>1. seeded \in BOOLEAN /\ 0 \in 0..MaxVersion
        BY SyncAssumption
      <4>. HIDE DEF seeded
      <4>2. [NoPlan EXCEPT !.exists = seeded] \in PlanRecord
        BY <4>1 DEF NoPlan, PlanRecord
      <4>. QED  BY <4>2 DEF seeded
    <3>. QED  BY <3>1 DEF Init
  <2>. QED  BY <2>1, <2>2, <2>3, SyncAssumption DEF World, Version
<1>3. ASSUME NEW p \in Process
      PROVE  sessions[p] = NewSession /\ syncs[p] = NoSync
  BY DEF Init
<1>4. /\ sessions = [p \in Process |-> sessions[p]]
      /\ syncs = [p \in Process |-> syncs[p]]
  BY DEF Init
<1>. QED  BY <1>2, <1>3, <1>4, FreshSessionOK, NoSyncOK DEF SyncInv

LEMMA SyncAlways == Spec => []SyncInv
<1>1. SyncInv /\ [Next]_vars => SyncInv'
  <2>. SUFFICES ASSUME SyncInv, [Next]_vars PROVE SyncInv'
    OBVIOUS
  <2>1. CASE UNCHANGED vars
    BY <2>1 DEF vars, SyncInv, World, Version
  <2>. QED  BY <2>1, SyncStep, HandleSyncPlansOK, ChangeOK, ExpirePageOK, DayPassesSyncs
            DEF Next
<1>. QED  BY <1>1, SyncInit, PTL DEF Spec

\* A sync that nothing disturbs leaves no event of the provider unmerged, for
\* any lists, page size and number of processes, whatever earlier syncs of its
\* session left behind (handlers.py:219-249).
THEOREM SyncMergesAll == Spec => []SyncComplete
<1>1. SyncInv => SyncComplete
  <2>. SUFFICES ASSUME SyncInv, NEW p \in Process, syncs[p].pc = "done", syncs[p].steady,
                       NEW e \in ToSet(offered[Version])
                PROVE  Merged(sessions[p].view[e], syncs[p], Version)
    BY DEF SyncComplete, Merged
  <2>. DEFINE list == offered[Version]
  <2>1. list \in Seq(Event) /\ Version = Len(offered)
    BY ListsOffered DEF SyncInv, World, Version
  <2>2. PICK i \in 1..Len(list) : e = list[i]
    BY <2>1, LenProperties DEF ToSet
  <2>3. Handled(syncs[p], list) = Len(list)
    BY DEF Handled
  <2>4. i <= Handled(syncs[p], list)
    BY <2>1, <2>2, <2>3, LenProperties
  <2>. HIDE DEF list
  <2>5. SteadyOK(syncs[p], sessions[p].view, offered)
    BY DEF SyncInv
  <2>. QED  BY <2>1, <2>2, <2>4, <2>5 DEF SteadyOK, list
<1>. QED  BY <1>1, SyncAlways, PTL

\* Plans, sessions and syncs keep to their types; a sync only asks for pages
\* that some list of the provider can fill, or for the one after them.
THEOREM SyncTypeCorrect == Spec => []TypeOK
<1>1. SyncInv => TypeOK
  <2>. SUFFICES ASSUME SyncInv PROVE TypeOK
    OBVIOUS
  <2>1. World
    BY DEF SyncInv
  <2>2. ASSUME NEW p \in Process
        PROVE  sessions[p] \in SessionRecord /\ syncs[p] \in SyncRecord
    BY DEF SyncInv, SessionOK, SyncOK
  <2>. QED  BY <2>1, <2>2 DEF TypeOK, World, SessionRecord, SyncRecord, PlanRecord
<1>. QED  BY <1>1, SyncAlways, PTL
=============================================================================
