------------------------------ MODULE MCUHeap ------------------------------
(* The user heap's page allocator on a region of a few pages. *)
EXTENDS UHeap
=============================================================================
