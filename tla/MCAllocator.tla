---------------------------- MODULE MCAllocator -----------------------------
(***************************************************************************)
(* The allocator with a segment of a few subareas.                         *)
(***************************************************************************)
EXTENDS Allocator
=============================================================================
