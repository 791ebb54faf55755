------------------------------ MODULE Optimal ------------------------------
(***************************************************************************)
(* The OPTIMAL strategy of kern/trap/fault_handler.c.  It replaces nothing *)
(* while the program runs: the handler records a stream of references, and *)
(* get_optimal_num_faults counts afterwards how many faults the best       *)
(* replacement would have had.  The handler sees a reference only when the *)
(* page is not present, so it takes the present bit from every page that   *)
(* is not in ActiveWorkingSet.                                             *)
(*                                                                         *)
(* The frames of pages stay where they are and are left out.  refs, every  *)
(* reference that the program made, is a ghost variable.                   *)
(*                                                                         *)
(* An operator that ends in _slip is a deliberately wrong form of the      *)
(* definition below it, which the properties must tell from the right one. *)
(***************************************************************************)
EXTENDS Naturals, FiniteSets, SequencesExt

CONSTANTS
  Pages,    \* the pages that the program refers to
  Stray,    \* pages that are not in the page file, the stack or the heap
  WSMax,    \* page_WS_max_size
  Initial,  \* the working sets, as sequences, that a program may start with
  MaxRefs   \* the bound on the number of references

OptimalAssumption ==
  /\ WSMax \in Nat \ {0} /\ MaxRefs \in Nat
  /\ Initial \subseteq Seq(Pages) /\ \A s \in Initial : Len(s) <= WSMax

VARIABLES
  ws,       \* page_WS_list, which the strategy leaves as it was
  present,  \* the pages whose entries have PERM_PRESENT
  active,   \* ActiveWorkingSet
  stream,   \* referenceStreamList
  running,  \* the program has not been made to exit
  refs

vars == <<ws, present, active, stream, running, refs>>

----------------------------------------------------------------------------
(* page_fault_handler with isPageReplacmentAlgorithmOPTIMAL                *)

\* The first fault takes the present bit from the whole working set.
AfterFirst == IF stream = <<>> THEN present \ ToSet(ws) ELSE present

ActiveFull == Len(active) >= WSMax

\* A page of the active set only gets its present bit back.  Another one is
\* recorded, and starts a new active set when this one is full.  An illegal
\* access is recorded too, and the program exits.
page_fault_handler(p) ==
  /\ running /\ p \notin present
  /\ IF p \in ToSet(active)
     THEN /\ present' = AfterFirst \cup {p}
          /\ UNCHANGED <<active, stream>>
     ELSE /\ active' = IF ActiveFull THEN <<p>> ELSE Append(active, p)
          /\ present' = (IF ActiveFull THEN AfterFirst \ ToSet(active)
                         ELSE AfterFirst) \cup {p}
          /\ stream' = Append(stream, p)
  /\ running' = (p \notin Stray)
  /\ UNCHANGED ws

\* The program refers to p, and finds it or faults.
Reference(p) ==
  /\ Len(refs) < MaxRefs
  /\ refs' = Append(refs, p)
  /\ \/ /\ running /\ p \in present
        /\ UNCHANGED <<ws, present, active, stream, running>>
     \/ page_fault_handler(p)

----------------------------------------------------------------------------
(* get_optimal_num_faults                                                  *)

Future(s, i, p) == {j \in (i + 1)..Len(s) : s[j] = p}

\* The page with the nearest reference.
Evicted_slip(w, s, i) ==
  LET next(k) == IF Future(s, i, w[k]) = {} THEN 0 ELSE Min(Future(s, i, w[k]))
  IN  CHOOSE k \in DOMAIN w : \A l \in DOMAIN w : next(l) >= next(k)

\* The position in w of the first page that has no reference after the i-th
\* of s, else of the one whose next reference is the farthest.
Evicted(w, s, i) ==
  LET never == {k \in DOMAIN w : Future(s, i, w[k]) = {}}
  IN  IF never # {} THEN Min(never)
      ELSE CHOOSE k \in DOMAIN w :
             \A l \in DOMAIN w :
               Min(Future(s, i, w[l])) <= Min(Future(s, i, w[k]))

get_optimal_num_faults(w0, s) ==
  LET step(acc, i) ==
        IF s[i] \in ToSet(acc.w) THEN acc
        ELSE [faults |-> acc.faults + 1,
              w |-> IF Len(acc.w) < WSMax THEN Append(acc.w, s[i])
                    ELSE [acc.w EXCEPT ![Evicted(acc.w, s, i)] = s[i]]]
  IN  FoldLeft(step, [faults |-> 0, w |-> w0], [i \in DOMAIN s |-> i]).faults

\* The reference definition: the fewest faults of all ways to replace.
Fewest(w0, s) ==
  LET from[i \in 1..(Len(s) + 1),
           w \in {v \in SUBSET (Pages \cup Stray) : Cardinality(v) <= WSMax}] ==
        IF i > Len(s) THEN 0
        ELSE IF s[i] \in w THEN from[i + 1, w]
        ELSE 1 + (IF Cardinality(w) < WSMax THEN from[i + 1, w \cup {s[i]}]
                  ELSE Min({from[i + 1, (w \ {v}) \cup {s[i]}] : v \in w}))
  IN  from[1, ToSet(w0)]

----------------------------------------------------------------------------
Init ==
  /\ ws \in Initial
  /\ present = ToSet(ws)
  /\ active = <<>> /\ stream = <<>> /\ refs = <<>>
  /\ running = TRUE

Next == \E p \in Pages \cup Stray : Reference(p)

Spec == Init /\ [][Next]_vars

----------------------------------------------------------------------------
(* The number that get_optimal_num_faults reports for the recorded stream  *)
(* is the fewest faults that any replacement has on it: evicting the page  *)
(* whose next reference is farthest, or the first that has none, is never  *)
(* beaten, from whatever working set the program started with.  The stream *)
(* misses references only within one active set, so the number is never    *)
(* more than the optimum of what the program really did, and never less    *)
(* than the number of pages outside the first working set.                 *)
CountsTheFewest ==
  LET reported == get_optimal_num_faults(ws, stream)
  IN  /\ reported = Fewest(ws, stream)
      /\ reported <= get_optimal_num_faults(ws, refs)
      /\ reported >= Cardinality(ToSet(refs) \ ToSet(ws))
      /\ stream # <<>> => present = ToSet(active)
============================================================================
