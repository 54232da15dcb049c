------------------------------- MODULE MCHeap -------------------------------
(* Small instances of Heap for TLC: the constants are in the cfgs.  Where    *)
(* mmap() puts a block makes no difference, so places are symmetric.        *)
EXTENDS Heap, TLC

Symmetry == Permutations(Place)
=============================================================================
