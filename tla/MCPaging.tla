------------------------------ MODULE MCPaging ------------------------------
(* Demand paging: a behaviour is one of an environment whose pages are      *)
(* replaced (PageFault), or one of an environment whose references are      *)
(* recorded for the OPTIMAL strategy (Optimal).                             *)
(*                                                                          *)
(* With replacement: one page of the program and one of the stack, both     *)
(* loaded, and two of the heap.  The working set has room for three pages,  *)
(* with time stamps for two.  The program's page is written with both       *)
(* values, the heap's with the one that they do not begin with; the page of *)
(* the stack and illegal ones are only read.                                *)
(*                                                                          *)
(* With recording: every stream of up to seven references to five pages and *)
(* a stray one, with a working set of three.                                *)
EXTENDS PageFault, TLC

CONSTANTS c1, s1, h1, h2, p1, p2, p3, p4, p5, MaxRefs

VARIABLES part, recordedSet, present, active, stream, running, refs

optimalVars == <<recordedSet, present, active, stream, running, refs>>

MCCode == {c1}
MCStack == {s1}
MCHeap == {h1, h2}
MCLoaded == <<c1, s1>>
MCWSMax == [a \in Algorithms |-> IF a = "LRU" THEN 2 ELSE 3]
MCWrites == [v \in Pages \cup Forbidden |-> CASE v = c1 -> Values
                                              [] v \in {h1, h2} -> {Image}
                                              [] OTHER -> {}]

O == INSTANCE Optimal WITH
       Pages <- {p1, p2, p3, p4, p5}, Initial <- {<<p1>>, <<p1, p2, p3>>},
       WSMax <- 3, ws <- recordedSet

ASSUME O!OptimalAssumption

\* The part that does not run begins in one way only.
MCInit ==
  /\ Init /\ O!Init
  /\ \/ part = "replaced" /\ recordedSet = <<p1>>
     \/ part = "recorded" /\ algo = "CLOCK"

MCNext == \/ part = "replaced" /\ Next /\ UNCHANGED <<part, optimalVars>>
          \/ part = "recorded" /\ O!Next /\ UNCHANGED <<part, vars>>

MCSpec == MCInit /\ [][MCNext]_<<part, vars, optimalVars>>

\* Pages of the heap, and pages that no working set begins with, are
\* interchangeable.
Symmetry == Permutations({h1, h2}) \cup Permutations({p4, p5})

CountsTheFewest == O!CountsTheFewest
=============================================================================
