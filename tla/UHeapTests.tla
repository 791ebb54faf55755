----------------------------- MODULE UHeapTests -----------------------------
(***************************************************************************)
(* The test programs of user/ for the page allocator of the user heap, run *)
(* on the allocator of module UHeap.  A test is the sequence of its calls  *)
(* with what it expects of each: an address, NULL, a value of the break,   *)
(* or to be killed.  An address counts from ACTUAL_PAGE_ALLOC_START; a     *)
(* megabyte has 8 pages here, which keeps the order of all sizes that the  *)
(* tests use.  The number of frames in memory that the tests also compare  *)
(* is in module EnvMemory.                                                 *)
(***************************************************************************)
EXTENDS UHeap

VARIABLES
  test,     \* the test that runs
  pc,       \* its next call
  passed    \* every expectation so far was met

heap == <<brk, allocs, holes, page, running, lowered>>
testVars == <<heap, test, pc, passed>>

Call(op, n, va) == [op |-> op, n |-> n, va |-> va]

Malloc(n, va) == Call("malloc", n, va)
Smalloc(n, va) == Call("shared", n, va)
Sget(n, va) == Call("shared", n, va)
Free(va) == Call("free", 0, va)
Null(n) == Call("null", n, 0)
Break(va) == Call("break", 0, va)
Killed(va) == Call("killed", 0, va)

Mega == 8
Half == 4

----------------------------------------------------------------------------
(* The tests.                                                              *)

Megabytes ==
  <<Malloc(4 * Mega, 0), Malloc(3 * Mega, 4 * Mega), Malloc(2 * Mega, 7 * Mega),
    Malloc(4 * Mega, 9 * Mega), Malloc(Mega, 13 * Mega), Malloc(Mega, 14 * Mega),
    Malloc(Mega, 15 * Mega), Malloc(2 * Mega, 16 * Mega), Malloc(2 * Mega, 18 * Mega)>>

KilobytesAndTooMuch ==
  <<Malloc(1, 20 * Mega), Malloc(2, 20 * Mega + 1), Malloc(1, 20 * Mega + 3),
    Malloc(3, 20 * Mega + 4), Null(HeapTop - (20 * Mega + 7) + 1)>>

initial_page_allocations == Megabytes \o KilobytesAndTooMuch

tst_malloc_1 == initial_page_allocations \o <<Break(20 * Mega + 7)>>

\* The second NULL is for more than the heap: the test subtracts an address
\* where it means a size.
FitsInHoles ==
  <<Free(4 * Mega), Free(9 * Mega), Free(14 * Mega), Free(16 * Mega), Break(20 * Mega + 7),
    Malloc(Mega, 14 * Mega), Malloc(Mega + 1, 9 * Mega), Malloc(3 * Mega - 1, 10 * Mega + 1),
    Malloc(Mega + Half, 4 * Mega), Malloc(2 * Mega + Half, 20 * Mega + 7),
    Break(22 * Mega + Half + 7), Null(HeapTop + 1)>>

FitsInMergedHoles ==
  <<Free(10 * Mega + 1), Free(9 * Mega), Free(4 * Mega), Free(14 * Mega), Free(15 * Mega),
    Free(18 * Mega),
    Malloc(3 * Mega, 4 * Mega), Malloc(3 * Mega, 14 * Mega), Malloc(3 * Mega - 1, 9 * Mega),
    Malloc(3 * Mega, 17 * Mega)>>

tst_custom_fit_1 == initial_page_allocations \o FitsInHoles \o FitsInMergedHoles

SharedAndPrivate ==
  <<Smalloc(Mega, 0), Malloc(Mega, Mega), Malloc(Mega, 2 * Mega), Malloc(Mega, 3 * Mega),
    Malloc(2 * Mega, 4 * Mega), Smalloc(2 * Mega, 6 * Mega), Malloc(3 * Mega, 8 * Mega),
    Smalloc(3 * Mega, 11 * Mega)>>

SharedInHoles ==
  <<Free(Mega), Free(4 * Mega), Free(8 * Mega),
    Smalloc(Half, 8 * Mega), Sget(2 * Mega, 4 * Mega), Smalloc(2 * Mega + Half, 8 * Mega + Half),
    Sget(Half, Mega), Smalloc(4 * Mega, 14 * Mega),
    Free(3 * Mega), Free(2 * Mega),
    Smalloc(2 * Mega + 1, Mega + Half), Sget(Mega, 18 * Mega),
    Smalloc(Half - 1, 3 * Mega + Half + 1)>>

tst_custom_fit_3 == SharedAndPrivate \o SharedInHoles

\* The slaves are programs of their own.
tst_free_1 ==
  initial_page_allocations \o
  <<Free(4 * Mega), Free(9 * Mega), Free(14 * Mega), Free(16 * Mega), Free(20 * Mega),
    Free(20 * Mega + 3), Free(20 * Mega + 1), Free(20 * Mega + 4), Break(20 * Mega)>>

tst_free_1_slave1 == <<Malloc(2 * Mega, 0), Free(0), Killed(2)>>

tst_free_1_slave2 == <<Malloc(2 * Mega, 0), Free(0), Killed(0)>>

Tests == [tst_malloc_1 |-> tst_malloc_1, tst_custom_fit_1 |-> tst_custom_fit_1,
          tst_custom_fit_3 |-> tst_custom_fit_3, tst_free_1 |-> tst_free_1,
          tst_free_1_slave1 |-> tst_free_1_slave1, tst_free_1_slave2 |-> tst_free_1_slave2]

----------------------------------------------------------------------------
Current == Tests[test][pc]

Step(ops) ==
  /\ passed /\ pc <= Len(Tests[test]) /\ Current.op \in ops
  /\ pc' = pc + 1 /\ UNCHANGED test

\* malloc, or smalloc or sget of an object that can be shared.  A refusal
\* fails the test, and so does an exit.
Obtain ==
  /\ Step({"malloc", "shared"})
  /\ IF NoRoom(Current.n)
     THEN passed' = FALSE /\ UNCHANGED heap
     ELSE /\ \/ Current.op = "malloc" /\ malloc(Current.n)
             \/ Current.op = "shared" /\ Shared(Current.n)
          /\ passed' = (running' /\ Head(allocs').va = 1 + Current.va)

\* free, which panics where there is no object.
Release ==
  /\ Step({"free"})
  /\ IF Newest(1 + Current.va) = 0
     THEN passed' = FALSE /\ UNCHANGED heap
     ELSE free(1 + Current.va) /\ UNCHANGED passed

\* What the test looks at without changing it.
Look ==
  /\ Step({"null", "break", "killed"})
  /\ passed' = CASE Current.op = "null"   -> NoRoom(Current.n)
                 [] Current.op = "break"  -> brk = 1 + Current.va
                 [] Current.op = "killed" -> page[1 + Current.va] = "none"
  /\ UNCHANGED heap

TestInit == Init /\ test \in DOMAIN Tests /\ pc = 1 /\ passed = TRUE

TestNext == Obtain \/ Release \/ Look

TestSpec == TestInit /\ [][TestNext]_testVars

----------------------------------------------------------------------------
(* Every expectation of the tests is met: the allocator's exact fits,      *)
(* worst fits, merged holes and breaks are where the tests of the          *)
(* repository want them, after long sequences of calls.                    *)
HeapTestsPass == passed
=============================================================================
