------------------------------- MODULE MCHeap -------------------------------
(***************************************************************************)
(* Instances of Heap for TLC.  The sizes are scaled down: what matters is  *)
(* which sums of requests leave how much of the heap.                      *)
(***************************************************************************)
EXTENDS Heap

MCRequests == {4, 6, 9}
=============================================================================
