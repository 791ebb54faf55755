------------------------------ MODULE Sorting ------------------------------
(***************************************************************************)
(* The sorting programs of user/, which work alone on an array of their    *)
(* own: in rounds, each of which reads a size and a way to fill the array, *)
(* fills, sorts and checks it, and perhaps gives it back.  A step is one   *)
(* call of QSort, MSort or Merge, so that the pivots that the clock        *)
(* chooses (RANDU) differ from call to call.  The slaves of                *)
(* arrayOperations_Master, whose cooperation is in module Programs, appear *)
(* here with the master's array.                                           *)
(*                                                                         *)
(* An operator that ends in _slip is a deliberately wrong form of the      *)
(* definition below it, which the properties must tell from the right one. *)
(***************************************************************************)
EXTENDS Integers, Sequences, FiniteSets, FiniteSetsExt, SequencesExt

CONSTANTS
  Sizes,       \* [names of programs -> sets of sizes that the user enters]
  Large,       \* stands for the sizes 2000 and 800000
  MaxRounds    \* the bound on rounds

SortingAssumption ==
  /\ \A n \in DOMAIN Sizes : Sizes[n] \subseteq Nat \ {0}
  /\ Large \in Nat \ {0} /\ MaxRounds \in Nat \ {0}

VARIABLES
  program, \* the program that runs
  phase,   \* "read", "sort", "ask", "end"; "panic"; "trap" on a division by zero
  round,   \* how often it has read
  given,   \* the array as it was filled (ghost)
  arr,     \* Elements, sortedArray or tmpArray: [0..N-1 -> Int]
  todo,    \* the calls that are still to be made, the next first
  held,    \* the arrays on the heap
  med      \* the median found by ArrayStats

vars == <<program, phase, round, given, arr, todo, held, med>>

----------------------------------------------------------------------------
(* The programs.  Every file has its own copy of the functions below, the  *)
(* same but for what the record says: which sort it is; guarded, a third   *)
(* of the size is not divided by when it is 0; frees, the arrays are given *)
(* back; script, the answers that the program gives itself.                *)

Program(name, sort, guarded, frees, script) ==
  [name |-> name, sort |-> sort, guarded |-> guarded, frees |-> frees, script |-> script]

quicksort_leakage == Program("quicksort_leakage", "quick", TRUE, FALSE, <<>>)
quicksort_noleakage == Program("quicksort_noleakage", "quick", TRUE, TRUE, <<>>)
quicksort_interrupt == Program("quicksort_interrupt", "quick", TRUE, FALSE, <<>>)
quicksort_freeheap == Program("quicksort_freeheap", "quick", TRUE, FALSE, <<>>)
mergesort_leakage == Program("mergesort_leakage", "merge", FALSE, FALSE, <<>>)
mergesort_noleakage == Program("mergesort_noleakage", "merge", FALSE, TRUE, <<>>)
mergesort_static ==
  Program("mergesort_static", "static", TRUE, FALSE, <<[size |-> Large, how |-> "c"]>>)
ef_mergesort_leakage ==
  Program("ef_mergesort_leakage", "merge", TRUE, FALSE,
          <<[size |-> 32, how |-> "a"], [size |-> 32, how |-> "c"]>>)
ef_mergesort_noleakage ==
  Program("ef_mergesort_noleakage", "merge", TRUE, TRUE, <<[size |-> Large, how |-> "a"]>>)
arrayOperations_quicksort == Program("arrayOperations_quicksort", "random", FALSE, FALSE, <<>>)
arrayOperations_mergesort == Program("arrayOperations_mergesort", "shared", FALSE, FALSE, <<>>)
arrayOperations_stats == Program("arrayOperations_stats", "kth", FALSE, FALSE, <<>>)

AllPrograms ==
  {quicksort_leakage, quicksort_noleakage, quicksort_interrupt, quicksort_freeheap,
   mergesort_leakage, mergesort_noleakage, mergesort_static, ef_mergesort_leakage,
   ef_mergesort_noleakage, arrayOperations_quicksort, arrayOperations_mergesort,
   arrayOperations_stats}

Repeats(p) == IF p.sort \in {"random", "shared", "kth"} THEN 1
              ELSE IF p.script # <<>> THEN Len(p.script) ELSE MaxRounds

----------------------------------------------------------------------------
(* Filling the array.                                                      *)

InitializeAscending(n) == [i \in 0..(n - 1) |-> i]
InitializeDescending(n) == [i \in 0..(n - 1) |-> n - i - 1]
Repetition(n) == IF program.guarded /\ n \div 3 = 0 THEN 3 ELSE n \div 3
InitializeSemiRandom(n) == [i \in 0..(n - 1) |-> i % Repetition(n)]

Filled(n, how) == CASE how = "a" -> InitializeAscending(n)
                    [] how = "b" -> InitializeDescending(n)
                    [] how = "c" -> InitializeSemiRandom(n)

----------------------------------------------------------------------------
(* Sorting.                                                                *)

Call(op, s, q, f) == [op |-> op, s |-> s, q |-> q, f |-> f]

Swap(e, i, j) == [e EXCEPT ![i] = e[j], ![j] = e[i]]

\* The two inner loops of QSort; the median's stops at elements equal to the
\* pivot on its way down.
ScanUp(e, s, f, i) == Min({k \in i..f : e[k] > e[s]} \cup {f + 1})

\* Both stop at smaller elements only.
ScanDown_slip(e, s, j) == Max({k \in (s + 1)..j : e[k] < e[s]} \cup {s})

ScanDown(e, s, j) ==
  Max({k \in (s + 1)..j : IF program.sort = "kth" THEN e[k] <= e[s] ELSE e[k] < e[s]} \cup {s})

\* The outer loop, and the swap of the pivot that follows it.
Partition(a, s, f) ==
  LET loop[x \in [e : [DOMAIN a -> Int], i : Int, j : Int]] ==
        IF x.i > x.j THEN x
        ELSE LET up == ScanUp(x.e, s, f, x.i)
                 down == ScanDown(x.e, s, x.j)
             IN  loop[[e |-> IF up <= down THEN Swap(x.e, up, down) ELSE x.e,
                       i |-> up, j |-> down]]
      r == loop[[e |-> a, i |-> s + 1, j |-> f]]
  IN  [r EXCEPT !.e = Swap(r.e, s, r.j)]

\* RANDU(startIndex, finalIndex), where the program takes a pivot at random
Pivots(t) == IF program.sort = "quick" THEN {t.s} ELSE t.s..(t.f - 1)

QSort ==
  LET t == Head(todo)
  IN  /\ phase = "sort" /\ todo # <<>> /\ t.op = "qsort"
      /\ \/ /\ t.s >= t.f
            /\ todo' = Tail(todo) /\ UNCHANGED arr
         \/ /\ t.s < t.f
            /\ \E pvtIndex \in Pivots(t) :
                 LET r == Partition(Swap(arr, t.s, pvtIndex), t.s, t.f)
                 IN  /\ arr' = r.e
                     /\ todo' = <<Call("qsort", t.s, 0, r.j - 1), Call("qsort", r.i, 0, t.f)>>
                                  \o Tail(todo)
      /\ UNCHANGED <<program, phase, round, given, held, med>>

\* KthElement: QSort on the side where the index lies; q is the index.
KthElement ==
  LET t == Head(todo)
  IN  /\ phase = "sort" /\ todo # <<>> /\ t.op = "kth"
      /\ \/ /\ t.s >= t.f
            /\ med' = arr[t.f] /\ todo' = <<>> /\ UNCHANGED arr
         \/ /\ t.s < t.f
            /\ \E pvtIndex \in Pivots(t) :
                 LET r == Partition(Swap(arr, t.s, pvtIndex), t.s, t.f)
                 IN  /\ arr' = r.e
                     /\ med' = IF t.q = r.j THEN r.e[t.q] ELSE med
                     /\ todo' = IF t.q = r.j THEN <<>>
                                ELSE IF t.q < r.j THEN <<Call("kth", t.s, t.q, r.j - 1)>>
                                ELSE <<Call("kth", r.i, t.q, t.f)>>
      /\ UNCHANGED <<program, phase, round, given, held>>

\* MSort counts from 1.
MSort ==
  LET t == Head(todo)
      q == (t.s + t.f) \div 2
  IN  /\ phase = "sort" /\ todo # <<>> /\ t.op = "msort"
      /\ todo' = (IF t.s >= t.f THEN <<>>
                  ELSE <<Call("msort", t.s, 0, q), Call("msort", q + 1, 0, t.f),
                         Call("merge", t.s, q, t.f)>>) \o Tail(todo)
      /\ UNCHANGED <<program, phase, round, given, arr, held, med>>

\* The loop of Merge, from the elements leftIndex and rightIndex on.
Merged(left, right) ==
  LET m[l \in 1..(Len(left) + 1), r \in 1..(Len(right) + 1)] ==
        IF l > Len(left) THEN SubSeq(right, r, Len(right))
        ELSE IF r > Len(right) THEN SubSeq(left, l, Len(left))
        ELSE IF left[l] < right[r] THEN <<left[l]>> \o m[l + 1, r]
        ELSE <<right[r]>> \o m[l, r + 1]
  IN  m[1, 1]

\* The arrays Left and Right that Merge leaves on the heap.
Temporaries == IF program.sort = "merge" /\ ~program.frees THEN 2 ELSE 0

\* Left or Right
Copied(a, b) == [k \in 1..(b - a + 1) |-> arr[a + k - 2]]

Merge ==
  LET t == Head(todo)
      m == Merged(Copied(t.s, t.q), Copied(t.q + 1, t.f))
  IN  /\ phase = "sort" /\ todo # <<>> /\ t.op = "merge"
      /\ arr' = [k \in DOMAIN arr |-> IF k + 1 \in t.s..t.f THEN m[k + 2 - t.s] ELSE arr[k]]
      /\ held' = held + Temporaries
      /\ todo' = Tail(todo)
      /\ UNCHANGED <<program, phase, round, given, med>>

----------------------------------------------------------------------------
(* A round.                                                                *)

First(n) == CASE program.sort \in {"quick", "random"} -> Call("qsort", 0, 0, n - 1)
              [] program.sort = "kth" -> Call("kth", 0, (n + 1) \div 2 - 1, n - 1)
              [] OTHER -> Call("msort", 1, 0, n)

Answers == IF program.script # <<>> THEN {program.script[round + 1]}
           ELSE [size : Sizes[program.name], how : {"a", "b", "c"}]

Read ==
  /\ phase = "read"
  /\ \E a \in Answers :
       IF a.how = "c" /\ Repetition(a.size) = 0
       THEN phase' = "trap" /\ UNCHANGED <<given, arr, todo>>
       ELSE /\ given' = Filled(a.size, a.how) /\ arr' = given'
            /\ todo' = <<First(a.size)>>
            /\ phase' = "sort"
  /\ round' = round + 1
  /\ held' = IF program.sort = "static" THEN held ELSE held + 1
  /\ UNCHANGED <<program, med>>

\* CheckSorted of a program or, for its slaves, of the master
CheckSorted(e) == \A i \in DOMAIN e : i + 1 \in DOMAIN e => e[i] <= e[i + 1]

Finish ==
  /\ phase = "sort" /\ todo = <<>>
  /\ phase' = IF program.sort = "kth" \/ CheckSorted(arr) THEN "ask" ELSE "panic"
  /\ held' = IF program.frees THEN held - 1 ELSE held
  /\ UNCHANGED <<program, round, given, arr, todo, med>>

Ask ==
  /\ phase = "ask"
  /\ phase' \in IF round = Repeats(program) THEN {"end"}
                ELSE IF program.script # <<>> THEN {"read"} ELSE {"read", "end"}
  /\ UNCHANGED <<program, round, given, arr, todo, held, med>>

Init ==
  /\ program \in AllPrograms /\ phase = "read" /\ round = 0
  /\ given = <<>> /\ arr = <<>> /\ todo = <<>> /\ held = 0 /\ med = 0

Next == Read \/ QSort \/ KthElement \/ MSort \/ Merge \/ Finish \/ Ask

Spec == Init /\ [][Next]_vars

----------------------------------------------------------------------------
Count(e, x) == Cardinality({i \in DOMAIN e : e[i] = x})
Permutation(e, g) == DOMAIN e = DOMAIN g /\ \A i \in DOMAIN g : Count(e, g[i]) = Count(g, g[i])

\* Between two rounds the programs called "noleakage" hold nothing of the
\* heap, neither the array nor the two arrays of a Merge; the others hold
\* the array of every round, and the two arrays of every Merge of the first
\* one: one Merge less than there are elements.
HeldBetweenRounds ==
  phase = "ask" =>
    CASE program.frees \/ program.sort = "static" -> held = 0
      [] program.sort = "merge" ->
           IF round = 1 THEN held = 1 + 2 * (Cardinality(DOMAIN arr) - 1) ELSE held >= round
      [] OTHER -> held = round

(* The array is at every call a permutation of the one that was filled,    *)
(* however its elements repeat and whatever pivots the clock chooses, and  *)
(* at the end of the round it is in order.  The median that ArrayStats     *)
(* shares with the master is the element that the master expects, the one  *)
(* in the middle of the array in order (arrayOperations_Master.c:162-165). *)
(* The heap holds what it should between the rounds.                       *)
ResultsAreRight ==
  /\ phase \in {"sort", "ask"} => Permutation(arr, given)
  /\ phase # "panic"
  /\ HeldBetweenRounds
  /\ phase = "ask" =>
       IF program.sort # "kth" THEN CheckSorted(arr)
       ELSE LET middle == (Cardinality(DOMAIN given) + 1) \div 2
            IN  /\ Cardinality({i \in DOMAIN given : given[i] < med}) < middle
                /\ Cardinality({i \in DOMAIN given : given[i] <= med}) >= middle
=============================================================================
