---------------------------- MODULE MCPlanCache ----------------------------
(* PlanCache for TLC: what may be exchanged without changing a behaviour. *)
EXTENDS PlanCache, TLC

Symmetry == Permutations(Reader) \union Permutations(Event)
=============================================================================
