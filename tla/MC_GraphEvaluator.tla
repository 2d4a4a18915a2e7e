------------------------- MODULE MC_GraphEvaluator -------------------------
(* Model-checking instance of the graph-building operations: a field of    *)
(* seven elements, one advice column queried at two rotations, one         *)
(* non-seeded constant and the Y scalar; up to two calculations.           *)
EXTENDS GraphEvaluator

MC_Queries == {<<3, 0>>}
MC_Scalars == {Y}
MC_Rotations == {-1}
=============================================================================
