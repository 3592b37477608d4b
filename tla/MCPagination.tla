--------------------------- MODULE MCPagination ---------------------------
EXTENDS Pagination

\* Rows of the same instant, before and after others.
MCRow == [sort : 1..3, id : 1..2]
=============================================================================
