----------------------------- MODULE PageFault -----------------------------
(***************************************************************************)
(* Demand paging of one environment: kern/trap/fault_handler.c with the    *)
(* replacement algorithms CLOCK, LRU (aging) and modified CLOCK, the       *)
(* working set of kern/mem/working_set_manager.c, the page file of         *)
(* kern/disk/pagefile_manager.c, and the marking of heap pages by          *)
(* kern/mem/chunk_operations.c.                                            *)
(*                                                                         *)
(* Faults are handled with interrupts off, so a fault and the access that  *)
(* it interrupted are one action.  A page table is there when it is        *)
(* needed; what other environments do is left out, except that they may    *)
(* fault in between.  val, what the program has a right to read, is a      *)
(* ghost variable.                                                         *)
(*                                                                         *)
(* An operator that ends in _slip is a deliberately wrong form of the      *)
(* definition below it, which the properties must tell from the right one. *)
(***************************************************************************)
EXTENDS Naturals, FiniteSets, SequencesExt

CONSTANTS
  Code, Stack, Heap,  \* the pages of the program, its stack and its heap
  Stray,       \* pages of the user space that belong to none of them
  Forbidden,   \* pages above USER_TOP or below UTEXT
  Loaded,      \* the sequence of pages that env_create loads
  WSMax,       \* [Algorithms -> Nat]: page_WS_max_size of the environment
  PFSize,      \* the pages of this environment that the page file has room for
  Values,      \* what a page may hold; Zero and Image are among them
  Writes,      \* [pages -> subsets of Values]: what the program writes there
  Zero, Image,
  NoPage,      \* no page of the page file, no frame, no page at all
  Msb,         \* the most significant bit of time_stamp, 2^31 in the code
  Algorithms   \* the replacement algorithms to choose from

ASSUME PageFaultAssumption ==
  /\ Code \cap Stack = {} /\ Heap \cap (Code \cup Stack) = {}
  /\ Stray \cap (Code \cup Stack \cup Heap) = {}
  /\ WSMax \in [Algorithms -> Nat \ {0}] /\ PFSize \in Nat /\ Msb \in Nat \ {0}
  /\ Loaded \in Seq(Code \cup Stack) /\ \A a \in Algorithms : Len(Loaded) <= WSMax[a]
  /\ \A i, j \in DOMAIN Loaded : Loaded[i] = Loaded[j] => i = j
  /\ Writes \in [Code \cup Stack \cup Heap \cup Stray \cup Forbidden -> SUBSET Values]
  /\ {Zero, Image} \subseteq Values /\ NoPage \notin Values
  /\ Algorithms \subseteq {"CLOCK", "LRU", "MODIFIEDCLOCK"}

VARIABLES
  algo,      \* _PageRepAlgoType
  ws,        \* page_WS_list: a sequence of [va, ts]
  hand,      \* page_last_WS_element, as a position in ws, 0 for NULL
  pte,       \* [Pages -> [present, used, modified, uhpage]]
  ram,       \* [Pages -> value]: what the page's frame holds, NoPage without one
  pf,        \* [Pages -> value]: the page file, NoPage if it is not in it
  repeated,  \* the last fault's page, and num_repeated_fault
  status,    \* "running", "exit", or "unhandled" after the panic of the
             \* repeated fault
  val        \* [Pages -> Values]: what the program wrote last

vars == <<algo, ws, hand, pte, ram, pf, repeated, status, val>>

Pages == Code \cup Stack \cup Heap \cup Stray
NoFault == [va |-> NoPage, count |-> 0]
Absent == [present |-> FALSE, used |-> FALSE, modified |-> FALSE, uhpage |-> FALSE]

Running == status = "running"
Present(v) == pte[v].present
Vas == {ws[i].va : i \in DOMAIN ws}
Full == Len(ws) >= WSMax[algo]

\* A step of the environment reads or changes only what it names.
Keep == UNCHANGED <<algo>>

----------------------------------------------------------------------------
(* Choosing a victim.  The list is a ring; a position is given by its      *)
(* distance from the hand, up to Len(ws).                                  *)

Start == IF hand = 0 THEN 1 ELSE hand
At(k) == IF Start + k <= Len(ws) THEN Start + k ELSE Start + k - Len(ws)
Used(i) == pte[ws[i].va].used
UsedPos == {i \in DOMAIN ws : Used(i)}
ModifiedPos == {i \in DOMAIN ws : pte[ws[i].va].modified}

\* How far the hand gets over the elements at the positions S.
Passed(S) ==
  CHOOSE k \in 0..Len(ws) : /\ \A j \in 0..(k - 1) : At(j) \in S
                            /\ k < Len(ws) => At(k) \notin S

\* A choice: the victim's position and the elements whose used bit is reset.
Choice(k, cleared) ==
  [victim |-> At(k), cleared |-> {ws[At(j)].va : j \in cleared}]

\* The victim is the element at which the search began.
CLOCK_slip == Choice(0, 0..(Passed(UsedPos) - 1))

CLOCK ==
  LET k == Passed(UsedPos) IN Choice(k, 0..(k - 1))

\* The time stamps after update_WS_time_stamps.
Aged(i) == [ws[i] EXCEPT !.ts = (@ \div 2) + (IF Used(i) THEN Msb ELSE 0)]

\* trap_dispatch calls update_WS_time_stamps before fault_handler; then the
\* first of the smallest time stamps, or the first of all.  A time stamp
\* with all bits set is never smaller than the initial minimum.
LRU ==
  LET ts(i) == Aged(i).ts
      least == {i \in DOMAIN ws : /\ ts(i) < 2 * Msb - 1
                                  /\ \A j \in DOMAIN ws : ts(i) <= ts(j)}
  IN  [victim |-> IF least = {} THEN 1
                  ELSE CHOOSE i \in least : \A j \in least : i <= j,
       cleared |-> Vas]

\* One round for a page neither used nor modified, one for a page that is
\* not used, which resets the used bits on its way, and again.
MODIFIEDCLOCK ==
  LET n == Len(ws)
      clean == Passed(UsedPos \cup ModifiedPos)
      unused == Passed(UsedPos)
      again == Passed(ModifiedPos)
  IN  IF clean < n THEN Choice(clean, {})
      ELSE IF unused < n THEN Choice(unused, 0..(unused - 1))
      ELSE Choice(again, 0..(n - 1))

Victim == CASE algo = "CLOCK" -> CLOCK
            [] algo = "LRU" -> LRU
            [] algo = "MODIFIEDCLOCK" -> MODIFIEDCLOCK

----------------------------------------------------------------------------
(* The page file                                                           *)

InPageFile(v) == pf[v] # NoPage
FileFull == Cardinality({v \in Pages : InPageFile(v)}) >= PFSize

\* pf_update_env_page of a page that the file has no place for panics.
OutOfSpace(v) == pte[v].modified /\ ~InPageFile(v) /\ FileFull

\* Only pages that the file already has are written.
pf_update_env_page_slip(v) ==
  IF pte[v].modified /\ InPageFile(v) THEN [pf EXCEPT ![v] = ram[v]] ELSE pf

\* The page file after the eviction of v.
pf_update_env_page(v) ==
  IF pte[v].modified THEN [pf EXCEPT ![v] = ram[v]] ELSE pf

\* The contents and the entry of v once it has been brought in: read from
\* the file, which resets the modified bit, or filled with zeros.
Contents(v) == IF InPageFile(v) THEN pf[v] ELSE Zero

BroughtIn(v) ==
  [pte[v] EXCEPT !.present = TRUE, !.used = TRUE, !.modified = ~InPageFile(v)]

\* unmap_frame keeps the bits that are available to the kernel.
Unmapped(v) == [Absent EXCEPT !.uhpage = pte[v].uhpage]

\* The access itself.
Touched(p, write) == [p EXCEPT !.used = TRUE, !.modified = @ \/ write]

----------------------------------------------------------------------------
(* fault_handler                                                           *)

\* num_repeated_fault, for faults of the same environment at the same va.
Again(v) ==
  [va |-> v, count |-> IF repeated.va = v THEN repeated.count + 1 ELSE 0]

\* update_WS_time_stamps.
AgedSet == IF algo = "LRU" THEN [i \in DOMAIN ws |-> Aged(i)] ELSE ws
AgedEntries ==
  IF algo # "LRU" THEN pte
  ELSE [v \in Pages |-> [pte[v] EXCEPT !.used = @ /\ v \notin Vas]]

\* The environment does not survive the fault.
Ends(v, end) ==
  /\ status' = end /\ repeated' = Again(v)
  /\ ws' = AgedSet /\ pte' = AgedEntries
  /\ UNCHANGED <<hand, ram, pf, val>>

\* The same address faults for the third time after the first.
Unhandled(v) == Again(v).count = 3 /\ Ends(v, "unhandled")

\* Pointing to the kernel, or to a heap page that is not marked: env_exit.
Invalid(v) ==
  /\ v \in Forbidden \/ (v \in Heap /\ ~pte[v].uhpage)
  /\ Ends(v, "exit")

Valid(v) == v \notin Forbidden /\ (v \in Heap => pte[v].uhpage)

\* Nothing to read, and no page of the stack or of the heap.
Illegal(v) == ~InPageFile(v) /\ v \notin Stack \cup Heap

\* (In a full list the element of the victim already has the page, Replace.)
\* The page has a frame when the access turns out to be illegal, and the
\* working set does not have the page: env_exit does not return.
PlaceIllegal(v) ==
  /\ ~Full /\ Valid(v) /\ Illegal(v)
  /\ pte' = [AgedEntries EXCEPT ![v] = BroughtIn(v)]
  /\ ram' = [ram EXCEPT ![v] = Contents(v)]
  /\ ws' = AgedSet
  /\ status' = "exit" /\ repeated' = Again(v)
  /\ UNCHANGED <<hand, pf, val>>

Place(v, write, x) ==
  /\ ~Full /\ Valid(v) /\ ~Illegal(v)
  /\ ws' = Append(AgedSet, [va |-> v, ts |-> 0])
  /\ hand' = IF Len(ws') = WSMax[algo] THEN 1 ELSE hand
  /\ pte' = [AgedEntries EXCEPT ![v] = Touched(BroughtIn(v), write)]
  /\ ram' = [ram EXCEPT ![v] = IF write THEN x ELSE Contents(v)]
  /\ val' = IF write THEN [val EXCEPT ![v] = x] ELSE val
  /\ repeated' = Again(v)
  /\ UNCHANGED <<pf, status>>

\* The page file cannot take the victim, and pf_update_env_page panics.
ReplaceFails(v) ==
  /\ Full /\ Valid(v) /\ OutOfSpace(ws[Victim.victim].va)
  /\ Ends(v, "exit")

\* The list after the element at position i has taken v: CLOCK and modified
\* CLOCK turn the list so that the successor of i comes first.
Turned(i, v) ==
  LET n == Len(ws)
      new == [AgedSet EXCEPT ![i] = [va |-> v, ts |-> 0]]
  IN  IF algo = "LRU" THEN new
      ELSE SubSeq(new, i + 1, n) \o SubSeq(new, 1, i)

Evicted(victim, cleared) ==
  [v \in Pages |->
     IF v = victim THEN Unmapped(v)
     ELSE [pte[v] EXCEPT !.used = @ /\ v \notin cleared]]

\* After an illegal access env_exit does not return, and neither the order of
\* the list nor the hand matters any more.
Replace(v, write, x) ==
  /\ Full /\ Valid(v)
  /\ LET i == Victim.victim
         out == ws[i].va
     IN  /\ ~OutOfSpace(out)
         /\ pf' = pf_update_env_page(out)
         /\ ws' = Turned(i, v)
         /\ hand' = 1
         /\ pte' = [Evicted(out, Victim.cleared) EXCEPT
                      ![v] = IF Illegal(v) THEN BroughtIn(v)
                             ELSE Touched(BroughtIn(v), write)]
         /\ ram' = [ram EXCEPT ![out] = NoPage,
                               ![v] = IF write /\ ~Illegal(v) THEN x
                                      ELSE Contents(v)]
         /\ val' = IF write /\ ~Illegal(v) THEN [val EXCEPT ![v] = x] ELSE val
         /\ status' = IF Illegal(v) THEN "exit" ELSE status
         /\ repeated' = Again(v)

\* The program touches page v and finds it, or faults.
Access(v, write, x) ==
  /\ Running /\ v \in Pages /\ Present(v)
  /\ pte' = [pte EXCEPT ![v] = Touched(@, write)]
  /\ ram' = IF write THEN [ram EXCEPT ![v] = x] ELSE ram
  /\ val' = IF write THEN [val EXCEPT ![v] = x] ELSE val
  /\ UNCHANGED <<ws, hand, pf, repeated, status>>
  /\ Keep

fault_handler(v, write, x) ==
  /\ Running /\ (v \in Pages => ~Present(v))
  /\ \/ Unhandled(v)
     \/ /\ Again(v).count # 3
        /\ \/ Invalid(v)
           \/ PlaceIllegal(v)
           \/ Place(v, write, x)
           \/ ReplaceFails(v)
           \/ Replace(v, write, x)
  /\ Keep

----------------------------------------------------------------------------
(* The other ways in                                                       *)

\* Another environment faults.
OtherFaults ==
  /\ Running /\ repeated # NoFault
  /\ repeated' = NoFault
  /\ UNCHANGED <<ws, hand, pte, ram, pf, status, val>>
  /\ Keep

\* The clock ticks: update_WS_time_stamps.
clock_interrupt_handler ==
  /\ Running /\ algo = "LRU"
  /\ ws' = AgedSet
  /\ pte' = AgedEntries
  /\ UNCHANGED <<hand, ram, pf, repeated, status, val>>
  /\ Keep

\* allocate_user_mem marks a page of the heap.
allocate_user_mem(v) ==
  /\ Running /\ ~pte[v].uhpage
  /\ pte' = [pte EXCEPT ![v].uhpage = TRUE]
  /\ val' = [val EXCEPT ![v] = Zero]
  /\ UNCHANGED <<ws, hand, ram, pf, repeated, status>>
  /\ Keep

\* The element is not taken from the list.
env_page_ws_invalidate_slip(v) == [ws |-> ws, hand |-> hand]

\* The list and the hand without the element of v: a hand on it goes to the
\* next one, or to NULL.
env_page_ws_invalidate(v) ==
  LET at == {k \in DOMAIN ws : ws[k].va = v}
  IN  IF at = {} THEN [ws |-> ws, hand |-> hand]
      ELSE LET i == CHOOSE k \in at : TRUE
           IN  [ws |-> RemoveAt(ws, i),
                hand |-> IF hand > i THEN hand - 1
                         ELSE IF hand = i /\ i = Len(ws) THEN 0
                         ELSE hand]

pf_remove_env_page(v) == [pf EXCEPT ![v] = NoPage]

\* free_user_mem of a page that has been marked.
free_user_mem(v) ==
  /\ Running /\ pte[v].uhpage
  /\ ws' = env_page_ws_invalidate(v).ws
  /\ hand' = env_page_ws_invalidate(v).hand
  /\ pte' = [pte EXCEPT ![v] = Absent]
  /\ pf' = pf_remove_env_page(v)
  /\ ram' = [ram EXCEPT ![v] = NoPage]
  /\ val' = [val EXCEPT ![v] = Zero]
  /\ UNCHANGED <<repeated, status>>
  /\ Keep

----------------------------------------------------------------------------
\* env_create: the program is in the page file, its first pages and one page
\* of the stack are loaded; the stack's page, filled with zeros, counts as
\* modified.
Init ==
  /\ algo \in Algorithms
  /\ ws = [i \in DOMAIN Loaded |-> [va |-> Loaded[i], ts |-> 0]]
  /\ hand = IF Len(Loaded) = WSMax[algo] THEN 1 ELSE 0
  /\ val = [v \in Pages |-> IF v \in Code THEN Image ELSE Zero]
  /\ pte = [v \in Pages |->
              IF v \in ToSet(Loaded)
              THEN [Absent EXCEPT !.present = TRUE, !.used = TRUE,
                                  !.modified = v \in Stack]
              ELSE Absent]
  /\ ram = [v \in Pages |-> IF v \in ToSet(Loaded) THEN val[v] ELSE NoPage]
  /\ pf = [v \in Pages |-> IF v \in Code THEN Image
                           ELSE IF v \in ToSet(Loaded) THEN Zero ELSE NoPage]
  /\ repeated = NoFault
  /\ status = "running"

Next ==
  \/ \E v \in Pages \cup Forbidden, write \in BOOLEAN, x \in Values :
       /\ IF write THEN x \in Writes[v] ELSE x = Zero
       /\ Access(v, write, x) \/ fault_handler(v, write, x)
  \/ \E v \in Heap : allocate_user_mem(v) \/ free_user_mem(v)
  \/ OtherFaults
  \/ clock_interrupt_handler

Spec == Init /\ [][Next]_vars

----------------------------------------------------------------------------
(* Whatever is evicted, written back, freed and brought in again, a        *)
(* program reads what it wrote last: a page that is present holds it, and  *)
(* for one that is not, the page file does, or it is a page of zeros that  *)
(* the file need not hold.                                                 *)
NothingLost ==
  Running => \A v \in Pages \ Stray :
               (IF Present(v) THEN ram[v] ELSE Contents(v)) = val[v]

(* The working set is exactly the pages that are present, each once, and   *)
(* never more than page_WS_max_size of them; the hand stands in it, and a  *)
(* time stamp keeps its width.                                             *)
WorkingSetIsResident ==
  Running => /\ {v \in Pages : Present(v)} = Vas
             /\ Cardinality(Vas) = Len(ws)
             /\ Len(ws) <= WSMax[algo]
             /\ hand \in 0..Len(ws)
             /\ \A i \in DOMAIN ws : ws[i].ts < 2 * Msb

(* Under each of the three algorithms a page that has been used since its  *)
(* used bit was last reset is replaced only when every other page of the   *)
(* working set has been used as well.  A list that gets shorter has lost   *)
(* a page to free_user_mem.                                                *)
SecondChance ==
  [][\A v \in Vas :
       /\ v \notin {ws'[i].va : i \in DOMAIN ws'}
       /\ Len(ws') = Len(ws)
       /\ pte[v].used
       => \A w \in Vas : pte[w].used]_vars
============================================================================
