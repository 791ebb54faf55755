----------------------------- MODULE MCPrograms -----------------------------
(* User programs: a behaviour is one of programs that work together         *)
(* (Programs), of a program that sorts alone (Sorting), or of a test of     *)
(* the user heap (UHeapTests).                                              *)
EXTENDS Programs

CONSTANTS Large, MaxRounds

VARIABLES
  part,
  program, phase, round, given, arr, todo, held, med,
  brk, allocs, holes, page, running, lowered, test, pc, passed

heap == <<brk, allocs, holes, page, running, lowered, test, pc, passed>>
alone == <<program, phase, round, given, arr, todo, held, med>>

\* Random pivots are tried on up to six elements, the median on nine of three
\* different values; sizes below 3 make a third of 0.
Sizes == [quicksort_leakage |-> {1, 2, 7}, quicksort_noleakage |-> {3, 9},
          quicksort_interrupt |-> {4, 12}, quicksort_freeheap |-> {5, 10},
          mergesort_leakage |-> {1, 2, 5}, mergesort_noleakage |-> {2, 7, 9},
          arrayOperations_quicksort |-> {2, 6}, arrayOperations_mergesort |-> {1, 8},
          arrayOperations_stats |-> {1, 4, 9}]

S == INSTANCE Sorting

ASSUME S!SortingAssumption

\* The tests hold up to 40 objects (MAX_NUM_OF_ALLOCS).
H == INSTANCE UHeapTests WITH HeapTop <- 240, Sizes <- {1}, Objects <- 40

\* The parts that do not run start in one of their initial states.
MCInit == /\ part \in {"together", "alone", "heap"} /\ Init /\ S!Init /\ H!TestInit
          /\ part # "together" => procs[1].prog = "tst_sharing_1"
          /\ part # "alone" => program = S!quicksort_leakage
          /\ part # "heap" => test = "tst_malloc_1"

MCNext == \/ part = "together" /\ Next /\ UNCHANGED <<part, alone, heap>>
          \/ part = "alone" /\ S!Next /\ UNCHANGED <<part, vars, heap>>
          \/ part = "heap" /\ H!TestNext /\ UNCHANGED <<part, vars, alone>>

MCSpec == MCInit /\ [][MCNext]_<<part, vars, alone, heap>> /\ Fairness

ResultsAreRight == S!ResultsAreRight
HeapTestsPass == H!HeapTestsPass
=============================================================================
