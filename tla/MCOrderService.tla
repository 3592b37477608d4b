---------------------------- MODULE MCOrderService ----------------------------
(* OrderProperties for TLC: symmetry sets of the model values.             *)
EXTENDS OrderProperties, TLC

\* Orders are symmetric only where OverLimit names none of them.
Symmetry == Permutations(Worker) \union Permutations(Seat) \union Permutations(Key)
SymmetryOfOrders == Symmetry \union Permutations(Order)
=============================================================================
