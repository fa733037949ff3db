---------------------------- MODULE MCPriorityRR ----------------------------
(* The priority scheduler with three environments and one, two or three levels. *)
EXTENDS PriorityRR, TLC

Symmetry == Permutations(Env)
=============================================================================
