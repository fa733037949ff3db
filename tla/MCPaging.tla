------------------------------ MODULE MCPaging ------------------------------
(* Demand paging of a process with a few pages and a small working set. *)
EXTENDS Paging
=============================================================================
