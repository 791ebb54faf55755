------------------------------ MODULE MCKHeap ------------------------------
(* KHeap for TLC: frames are interchangeable. *)
EXTENDS KHeap, TLC

Symmetry == Permutations(Frames)
============================================================================
