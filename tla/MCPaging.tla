------------------------------ MODULE MCPaging ------------------------------
(* Instance of Paging for TLC: tables of two entries, so that four levels    *)
(* give 16 virtual pages, and a dozen page frames, so that memory runs out.  *)
EXTENDS Paging
=============================================================================
