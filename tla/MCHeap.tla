------------------------------- MODULE MCHeap -------------------------------
(* A heap of ten units of alignment that starts unaligned. *)
EXTENDS Heap

MCRequests == {0, 1, 4}
=============================================================================
