----------------------------- MODULE MCFreeList -----------------------------
(* The instance of MCFreeList.cfg: a size with room above it in the index,  *)
(* like the FP list (112 entries, 7-bit pointers), where the pointers wrap  *)
(* before their width does.                                                 *)
EXTENDS MultiWidthFreeList
=============================================================================
