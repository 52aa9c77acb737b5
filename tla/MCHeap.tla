------------------------------- MODULE MCHeap -------------------------------
(* A small pool.  0 and 12 bytes take one block, 13 take two, 40 three.     *)
(* 40 is the largest size whose sum does not wrap: 40 + 19 = SIZE_MAX.      *)
EXTENDS Heap
=============================================================================
