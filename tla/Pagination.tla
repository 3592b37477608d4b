----------------------------- MODULE Pagination -----------------------------
(***************************************************************************)
(* Keyset pagination (service_layer/cursor.py) of the queries of           *)
(* adapters/repositories_read.py: newest first, by sort key and then id,   *)
(* each page a transaction of its own, while other requests insert rows.   *)
(*                                                                         *)
(* A row is its key.  Sort keys (created_at, start_date) are set at the    *)
(* insert and never change; a row that is committed late has an older key  *)
(* than rows already listed, so any row may appear at any time.            *)
(***************************************************************************)
EXTENDS Integers, FiniteSets

CONSTANTS
    Row,     \* keys a row can have: [sort |-> an instant, id |-> a UUID]
    Limit,   \* rows in a page
    NoCursor \* None: no cursor, or one that does not decode

ASSUME PageAssumption ==
    /\ Row \subseteq [sort : Int, id : Int]
    /\ Limit \in Nat \ {0}
    /\ NoCursor \notin Row

VARIABLES
    table,   \* the rows committed
    client,  \* what the client does next: "first", "next", or "done"
    cursor,  \* the cursor of its next request
    page,    \* the rows of the last response
    listed,  \* the rows of the responses before that
    present  \* the rows committed when the listing began

vars == <<table, client, cursor, page, listed, present>>

Init ==
    /\ table = {} /\ client = "first" /\ cursor = NoCursor
    /\ page = {} /\ listed = {} /\ present = {}

-----------------------------------------------------------------------------

Older(r, s) == r.sort < s.sort \/ (r.sort = s.sort /\ r.id < s.id)

\* mutant: rows with the sort key of the cursor are passed over.
OlderSortKey(rows, c) ==
    IF c = NoCursor THEN rows ELSE {r \in rows : r.sort < c.sort}

\* mutant: the row of the cursor is included.
UpToCursor(rows, c) ==
    IF c = NoCursor THEN rows ELSE {r \in rows : ~Older(c, r)}

\* apply_cursor_filter: without a cursor, or with one that does not decode, the
\* query is not filtered.
ApplyCursorFilter(rows, c) ==
    IF c = NoCursor THEN rows ELSE {r \in rows : Older(r, c)}

\* ORDER BY sort DESC, id DESC LIMIT Limit.
IsPage(answer, rows) ==
    /\ answer \subseteq rows
    /\ \A r \in answer, s \in rows \ answer : Older(s, r)
    /\ Cardinality(answer) <= Limit
    /\ Cardinality(answer) = Limit \/ answer = rows

\* get_next_cursor: the last row of the page.
IsNextCursor(c, answer) ==
    \/ answer = {} /\ c = NoCursor
    \/ c \in answer /\ \A r \in answer \ {c} : Older(c, r)

\* mutant: the cursor of the request is handed back.
SameCursor(answer, c) ==
    /\ IsPage(answer, ApplyCursorFilter(table, cursor))
    /\ cursor' = cursor /\ page' = answer
    /\ client' = IF Cardinality(answer) < Limit THEN "done" ELSE "next"
    /\ UNCHANGED table

\* list_orders and search_plans.  A client goes on while pages are full.
Respond(answer, c) ==
    /\ IsPage(answer, ApplyCursorFilter(table, cursor))
    /\ IsNextCursor(c, answer)
    /\ cursor' = c /\ page' = answer
    /\ client' = IF Cardinality(answer) < Limit THEN "done" ELSE "next"
    /\ UNCHANGED table

FirstPage(answer, c) ==
    /\ client = "first"
    /\ Respond(answer, c)
    /\ listed' = {} /\ present' = table

NextPage(answer, c) ==
    /\ client = "next"
    /\ Respond(answer, c)
    /\ listed' = listed \union page
    /\ UNCHANGED present

\* A new listing; also the effect of a cursor that does not decode.
Again ==
    /\ client # "first"
    /\ client' = "first" /\ cursor' = NoCursor
    /\ page' = {} /\ listed' = {} /\ present' = {}
    /\ UNCHANGED table

Insert(r) ==
    /\ r \notin table
    /\ table' = table \union {r}
    /\ UNCHANGED <<client, cursor, page, listed, present>>

Next ==
    \/ \E answer \in SUBSET table, c \in table \union {NoCursor} :
          FirstPage(answer, c) \/ NextPage(answer, c)
    \/ Again
    \/ \E r \in Row : Insert(r)

Spec == Init /\ [][Next]_vars

FairSpec ==
    /\ Spec
    /\ WF_vars(\E answer \in SUBSET table, c \in table \union {NoCursor} :
                  FirstPage(answer, c) \/ NextPage(answer, c))

-----------------------------------------------------------------------------

\* A client that goes on has a cursor, to a row of the last page.
TypeOK ==
    /\ table \in SUBSET Row /\ page \in SUBSET Row
    /\ listed \in SUBSET Row /\ present \in SUBSET Row
    /\ client \in {"first", "next", "done"}
    /\ cursor \in Row \union {NoCursor}
    /\ client = "next" => cursor \in page

\* A client that follows the cursors to the end has been given every row that
\* was there when it began, whatever was inserted around the cursor meanwhile
\* (cursor.py:69-76).
NoneMissed == client = "done" => present \subseteq listed \union page

\* Pages go on from each other: a row is never older than the ones of an
\* earlier page and so never comes twice (cursor.py:69-76).
NewestFirst == \A r \in page, s \in listed : Older(r, s)

\* The listing ends although rows are inserted while it runs: the cursor only
\* moves to older rows, and there are finitely many of them.
ListingEnds == client = "next" ~> client # "next"
=============================================================================
