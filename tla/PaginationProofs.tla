-------------------------- MODULE PaginationProofs --------------------------
(***************************************************************************)
(* Listings are complete and ordered for any table and any page size.      *)
(*                                                                         *)
(* NoneMissed speaks of the end of a listing; what holds before it is that *)
(* the cursor divides the rows: those present at the beginning that have   *)
(* not been listed are all older than the cursor, and those listed are not.*)
(***************************************************************************)
EXTENDS Pagination, FiniteSetTheorems, TLAPS

\* The cursor divides the rows, and is the last row of the page.
Divided ==
    /\ \A r \in (listed \union page) \ {cursor} : Older(cursor, r)
    /\ \A r \in present \ (listed \union page) : Older(r, cursor)

IInv ==
    /\ TypeOK
    /\ NoneMissed
    /\ NewestFirst
    /\ present \subseteq table
    /\ client = "first" => cursor = NoCursor
    /\ client = "next" => Divided

LEMMA OlderIsTransitive ==
    ASSUME NEW r \in Row, NEW s \in Row, NEW q \in Row, Older(r, s), Older(s, q)
    PROVE  Older(r, q)
<1>1. r \in [sort : Int, id : Int] /\ s \in [sort : Int, id : Int]
      /\ q \in [sort : Int, id : Int]
  BY PageAssumption
<1>. QED  BY <1>1 DEF Older

\* A page that is not full is all that is left, and a full one ends in its
\* cursor.
LEMMA RespondOK ==
    ASSUME TypeOK, NEW answer, NEW c, Respond(answer, c)
    PROVE  LET rows == ApplyCursorFilter(table, cursor) IN
           /\ rows \subseteq table
           /\ answer \subseteq rows
           /\ \A r \in answer, s \in rows \ answer : Older(s, r)
           /\ client' \in {"done", "next"}
           /\ client' = "done" => answer = rows
           /\ client' = "next" => c \in answer /\ \A r \in answer \ {c} : Older(c, r)
           /\ c \in Row \union {NoCursor}
<1>. DEFINE rows == ApplyCursorFilter(table, cursor)
<1>1. rows \subseteq table
  BY DEF ApplyCursorFilter
<1>2. /\ answer \subseteq rows
      /\ \A r \in answer, s \in rows \ answer : Older(s, r)
      /\ Cardinality(answer) = Limit \/ answer = rows
      /\ IsNextCursor(c, answer)
      /\ client' = IF Cardinality(answer) < Limit THEN "done" ELSE "next"
  BY DEF Respond, IsPage
<1>3. client' = "done" => answer = rows
  BY <1>2, PageAssumption
<1>4. client' = "next" => c \in answer /\ \A r \in answer \ {c} : Older(c, r)
  <2>1. answer = {} => Cardinality(answer) < Limit
    BY FS_EmptySet, PageAssumption
  <2>. QED  BY <1>2, <2>1 DEF IsNextCursor
<1>5. c \in Row \union {NoCursor}
  BY <1>1, <1>2 DEF IsNextCursor, TypeOK
<1>. QED  BY <1>1, <1>2, <1>3, <1>4, <1>5

LEMMA FirstPageOK ==
    ASSUME IInv, NEW answer, NEW c, FirstPage(answer, c)
    PROVE  IInv'
<1>1. Respond(answer, c) /\ client = "first" /\ listed' = {} /\ present' = table
      /\ cursor' = c /\ page' = answer /\ table' = table
  BY DEF FirstPage, Respond
<1>2. ApplyCursorFilter(table, cursor) = table
  BY <1>1 DEF IInv, ApplyCursorFilter
<1>3. TypeOK
  BY DEF IInv
<1>4. /\ answer \subseteq table
      /\ \A r \in answer, s \in table \ answer : Older(s, r)
      /\ client' \in {"done", "next"}
      /\ client' = "done" => answer = table
      /\ client' = "next" => c \in answer /\ \A r \in answer \ {c} : Older(c, r)
      /\ c \in Row \union {NoCursor}
  BY <1>1, <1>2, <1>3, RespondOK
<1>5. TypeOK'
  BY <1>1, <1>3, <1>4 DEF TypeOK
<1>6. NoneMissed' /\ NewestFirst'
  BY <1>1, <1>4 DEF NoneMissed, NewestFirst
<1>7. client' = "next" => Divided'
  BY <1>1, <1>4 DEF Divided
<1>. QED  BY <1>1, <1>4, <1>5, <1>6, <1>7 DEF IInv

LEMMA NextPageOK ==
    ASSUME IInv, NEW answer, NEW c, NextPage(answer, c)
    PROVE  IInv'
<1>1. Respond(answer, c) /\ client = "next" /\ listed' = listed \union page
      /\ cursor' = c /\ page' = answer /\ table' = table /\ present' = present
  BY DEF NextPage, Respond
<1>2. TypeOK /\ Divided /\ present \subseteq table
  BY <1>1 DEF IInv
<1>3. cursor \in page /\ cursor \in Row /\ page \subseteq Row /\ listed \subseteq Row
      /\ table \subseteq Row
  BY <1>1, <1>2 DEF TypeOK
<1>. DEFINE rows == {r \in table : Older(r, cursor)}
<1>4. ApplyCursorFilter(table, cursor) = rows
  BY <1>3, PageAssumption DEF ApplyCursorFilter
<1>5. /\ answer \subseteq rows
      /\ \A r \in answer, s \in rows \ answer : Older(s, r)
      /\ client' \in {"done", "next"}
      /\ client' = "done" => answer = rows
      /\ client' = "next" => c \in answer /\ \A r \in answer \ {c} : Older(c, r)
      /\ c \in Row \union {NoCursor}
  BY <1>1, <1>2, <1>4, RespondOK
<1>6. \A r \in rows, s \in listed \union page : Older(r, s)
  <2>. SUFFICES ASSUME NEW r \in rows, NEW s \in listed \union page
                PROVE  Older(r, s)
    OBVIOUS
  <2>1. r \in Row /\ s \in Row /\ Older(r, cursor)
    BY <1>3
  <2>2. s = cursor \/ Older(cursor, s)
    BY <1>2 DEF Divided
  <2>. QED  BY <1>3, <2>1, <2>2, OlderIsTransitive
<1>7. \A r \in present : r \in listed \union page \/ r \in rows
  BY <1>2 DEF Divided
<1>8. TypeOK'
  BY <1>1, <1>2, <1>3, <1>5 DEF TypeOK
<1>9. NewestFirst'
  BY <1>1, <1>5, <1>6 DEF NewestFirst
<1>10. NoneMissed'
  BY <1>1, <1>5, <1>7 DEF NoneMissed
<1>11. client' = "next" => Divided'
  <2>. SUFFICES ASSUME client' = "next" PROVE Divided'
    OBVIOUS
  <2>1. c \in answer /\ c \in rows
    BY <1>5
  <2>2. \A r \in (listed' \union page') \ {c} : Older(c, r)
    BY <1>1, <1>5, <1>6, <2>1
  <2>3. \A r \in present' \ (listed' \union page') : Older(r, c)
    BY <1>1, <1>5, <1>7, <2>1
  <2>. QED  BY <1>1, <2>2, <2>3 DEF Divided
<1>. QED  BY <1>1, <1>2, <1>5, <1>8, <1>9, <1>10, <1>11 DEF IInv

\* Insertions change nothing for a listing, whatever their key.
LEMMA OthersOK ==
    ASSUME IInv, Again \/ \E r \in Row : Insert(r)
    PROVE  IInv'
<1>1. CASE Again
  BY <1>1 DEF Again, IInv, TypeOK, NoneMissed, NewestFirst
<1>2. ASSUME NEW r \in Row, Insert(r) PROVE IInv'
  <2>1. table' = table \union {r}
        /\ UNCHANGED <<client, cursor, page, listed, present>>
    BY <1>2 DEF Insert
  <2>. QED  BY <2>1 DEF IInv, TypeOK, NoneMissed, NewestFirst, Divided
<1>. QED  BY <1>1, <1>2

\* For every table, page size and interleaving of insertions, what a listing
\* has given is complete at its end, newest first and without repetition.
THEOREM ListingsComplete == Spec => [](TypeOK /\ NoneMissed /\ NewestFirst)
<1>1. Init => IInv
  BY DEF Init, IInv, TypeOK, NoneMissed, NewestFirst
<1>2. IInv /\ [Next]_vars => IInv'
  <2>. SUFFICES ASSUME IInv, [Next]_vars PROVE IInv'
    OBVIOUS
  <2>1. CASE UNCHANGED vars
    BY <2>1 DEF vars, IInv, TypeOK, NoneMissed, NewestFirst, Divided
  <2>2. CASE Next
    BY <2>2, FirstPageOK, NextPageOK, OthersOK DEF Next
  <2>. QED  BY <2>1, <2>2
<1>3. IInv => TypeOK /\ NoneMissed /\ NewestFirst
  BY DEF IInv
<1>. QED  BY <1>1, <1>2, <1>3, PTL DEF Spec

\* A client that goes on always has a cursor to a row of its last page, so what
\* it sends decodes (cursor.py:81-105).
THEOREM ListingTypeCorrect == Spec => []TypeOK
BY ListingsComplete, PTL

\* Every row that was committed when the listing began has been listed.
THEOREM ListingMissesNone == Spec => []NoneMissed
BY ListingsComplete, PTL

\* No row comes twice, or after an older one.
THEOREM ListingIsOrdered == Spec => []NewestFirst
BY ListingsComplete, PTL
=============================================================================
