------------------------------- MODULE MCHeap -------------------------------
(***************************************************************************)
(* Small instances of Heap for TLC.                                        *)
(***************************************************************************)
EXTENDS Rooting, TLC

HeapSymmetry == Permutations(Objs) \cup Permutations(Handles)
=============================================================================
