--------------------------- MODULE SharedSession ---------------------------
(***************************************************************************)
(* The unit of work of the order handler, shared by the threads of one     *)
(* process: the container makes one bus at start, and Flask serves every   *)
(* request with it (container.py:34, bootstrap.py:71, app.py:10).          *)
(*                                                                         *)
(* Each thread serves one cancellation, the readiness probe of             *)
(* check_database, or the flush of the shutdown handler.  A step ends      *)
(* where the thread waits for Redis or the database.                       *)
(***************************************************************************)
EXTENDS Naturals, FiniteSets

CONSTANTS
    Order,
    Canceller, \* threads that serve a cancellation
    Prober,    \* threads that serve GET /health/ready
    Stopper,   \* the main thread, in the signal handler
    None

Thread == Canceller \union Prober \union Stopper

VARIABLES
    table,    \* orders as committed: "open" or "cancelled"
    outbox,   \* orders whose OrderCancelled is committed
    identity, \* identity map: the thread whose object stands for an order
    objects,  \* the Order object that each thread has loaded
    events,   \* _domain_events: collected so far, by any thread
    pending,  \* outbox rows added to the session
    pc,       \* next step of each thread
    uses      \* the thread whose object a thread works on

vars == <<table, outbox, identity, objects, events, pending, pc, uses>>

NoObject == [order |-> None, status |-> "open", event |-> FALSE, dirty |-> FALSE]

Init ==
    /\ table = [o \in Order |-> "open"] /\ outbox = {}
    /\ identity = [o \in Order |-> None]
    /\ objects = [t \in Thread |-> NoObject]
    /\ events = {} /\ pending = {}
    /\ pc = [t \in Thread |-> IF t \in Canceller THEN "load"
                              ELSE IF t \in Prober THEN "probe" ELSE "collect"]
    /\ uses = [t \in Thread |-> None]

Goto(t, step) == pc' = [pc EXCEPT ![t] = step]

Attached(s) == objects[s].order # None /\ identity[objects[s].order] = s
Dirty == {s \in Canceller : Attached(s) /\ objects[s].dirty}

\* orders.get: the object of the identity map, or a new one from the table.
Load(t, o) ==
    /\ pc[t] = "load"
    /\ IF identity[o] = None
       THEN /\ objects' = [objects EXCEPT ![t] =
                  [NoObject EXCEPT !.order = o, !.status = table[o]]]
            /\ identity' = [identity EXCEPT ![o] = t]
            /\ uses' = [uses EXCEPT ![t] = t]
       ELSE /\ uses' = [uses EXCEPT ![t] = identity[o]]
            /\ UNCHANGED <<objects, identity>>
    /\ Goto(t, "cancel")
    /\ UNCHANGED <<table, outbox, events, pending>>

\* After the release of the holds: order.cancel and orders.add, which attaches
\* an object that another thread's close has detached, or raises when another
\* object has taken its place.
CancelOrder(t) ==
    LET s == uses[t]
        o == objects[s].order
    IN
    /\ pc[t] = "cancel"
    /\ IF objects[s].status = "open"
       THEN /\ objects' = [objects EXCEPT ![s].status = "cancelled",
                                         ![s].event = TRUE, ![s].dirty = TRUE]
            /\ IF identity[o] \in {None, s}
               THEN identity' = [identity EXCEPT ![o] = s] /\ Goto(t, "collect")
               ELSE UNCHANGED identity /\ Goto(t, "rollback")
       ELSE UNCHANGED <<objects, identity>> /\ Goto(t, "rollback")
    /\ UNCHANGED <<table, outbox, events, pending, uses>>

\* check_database enters the unit of work for SELECT 1.
CheckDatabase(t) ==
    /\ pc[t] = "probe"
    /\ Goto(t, "collect")
    /\ UNCHANGED <<table, outbox, identity, objects, events, pending, uses>>

\* _collect_domain_events and _write_outbox_events: events of every changed
\* object in the session, and again what was collected before.
CollectAndWrite(t) ==
    LET collected == events \union {objects[s].order : s \in {d \in Dirty : objects[d].event}}
    IN
    /\ pc[t] = "collect"
    /\ events' = collected
    /\ pending' = pending \union collected
    /\ objects' = [s \in Thread |-> IF s \in Dirty THEN [objects[s] EXCEPT !.event = FALSE]
                                                   ELSE objects[s]]
    /\ Goto(t, "commit")
    /\ UNCHANGED <<table, outbox, identity, uses>>

\* session.commit flushes what has changed by now.  Only __exit__ closes.
Commit(t) ==
    /\ pc[t] = "commit"
    /\ table' = [o \in Order |-> IF identity[o] \in Dirty THEN objects[identity[o]].status
                                                           ELSE table[o]]
    /\ outbox' = outbox \union pending
    /\ pending' = {}
    /\ objects' = [s \in Thread |-> [objects[s] EXCEPT !.dirty = @ /\ s \notin Dirty]]
    /\ Goto(t, IF t \in Stopper THEN "end" ELSE "close")
    /\ UNCHANGED <<identity, events, uses>>

\* Everything in the session is undone, whoever has changed it.
Rollback(t) ==
    /\ pc[t] = "rollback"
    /\ objects' = [s \in Thread |->
          IF Attached(s) THEN [objects[s] EXCEPT !.status = table[objects[s].order],
                                                 !.dirty = FALSE]
          ELSE objects[s]]
    /\ pending' = {}
    /\ Goto(t, "close")
    /\ UNCHANGED <<table, outbox, identity, events, uses>>

\* close detaches the objects of all threads.
Close(t) ==
    /\ pc[t] = "close"
    /\ identity' = [o \in Order |-> None]
    /\ pending' = {}
    /\ Goto(t, "end")
    /\ UNCHANGED <<table, outbox, objects, events, uses>>

Next == \E t \in Thread :
    \/ \E o \in Order : Load(t, o)
    \/ CancelOrder(t) \/ CheckDatabase(t) \/ CollectAndWrite(t)
    \/ Commit(t) \/ Rollback(t) \/ Close(t)

Spec == Init /\ [][Next]_vars

-----------------------------------------------------------------------------

\* "Domain events are written to an outbox table within the same database
\* transaction as business data" (CONTEXT.md:23): a cancelled order has its
\* OrderCancelled, and there is no event without the cancellation.
EventsWithData == \A o \in Order : table[o] = "cancelled" <=> o \in outbox
=============================================================================
