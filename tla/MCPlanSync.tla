----------------------------- MODULE MCPlanSync -----------------------------
(* A small provider for PlanSync: two events, a third one that pushes one   *)
(* of them to the next page, and an event without an end.  For liveness the *)
(* third event is the one without an end.                                   *)
EXTENDS PlanSync

CONSTANTS e1, e2, e3, e4, web, api, cli

MCCatalogues == {<<e1, e2>>, <<e2, e3, e1>>, <<e3, e4>>}
MCTwoLists == {<<e1, e2>>, <<e2, e3, e1>>}
=============================================================================
