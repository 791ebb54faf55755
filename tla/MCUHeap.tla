------------------------------ MODULE MCUHeap ------------------------------
(* UHeap for TLC: a heap of six pages and objects of one or two.            *)
EXTENDS UHeap
============================================================================
