------------------------------- MODULE UHeap -------------------------------
(***************************************************************************)
(* The page allocator of the user heap: malloc, free, smalloc, sget and    *)
(* sfree of lib/uheap.c above DYN_ALLOC_MAX_BLOCK_SIZE, with the marking   *)
(* of pages that sys_allocate_user_mem and sys_free_user_mem do in the     *)
(* kernel.  The heap belongs to one program and every call runs to its end *)
(* on the program's behalf, so a call is one action.  The nodes of the two *)
(* lists come from the block allocator (module DynAlloc) and are not part  *)
(* of the pages here.                                                      *)
(*                                                                         *)
(* An operator that ends in _slip is a deliberately wrong form of the      *)
(* definition below it, which the properties must tell from the right one. *)
(***************************************************************************)
EXTENDS Naturals, FiniteSets, Queues, SequencesExt

CONSTANTS
  HeapTop,   \* the pages from uheapPageAllocStart to USER_HEAP_MAX: 1..HeapTop
  Sizes,     \* the sizes, in pages, that programs ask for
  Objects    \* the bound on the objects that a program holds

UHeapAssumption ==
  HeapTop \in Nat /\ Objects \in Nat /\ Sizes \subseteq Nat \ {0}

VARIABLES
  brk,      \* uheapPageAllocBreak
  allocs,   \* alloc_head: a sequence of [va, n, shared], the newest first
  holes,    \* free_head: a sequence of [va, n]
  page,     \* [Pages -> {"none", "marked", "shared"}]: the page's entry has
            \* PERM_UHPAGE, or maps a frame of a shared object
  running,  \* the kernel has not made the program exit
  lowered   \* history: free has left a listed block above the break

vars == <<brk, allocs, holes, page, running, lowered>>

Pages == 1..HeapTop
Extent(b) == b.va..(b.va + b.n - 1)
End(b) == b.va + b.n
Live == ToSet(allocs)

Set(P, x) == [p \in Pages |-> IF p \in P THEN x ELSE page[p]]

----------------------------------------------------------------------------
(* The list of free blocks                                                 *)

\* FREEblockk: kept sorted by address; a block whose address is there
\* already is dropped.
FREEblockk(h, b) ==
  IF \E i \in DOMAIN h : h[i].va = b.va THEN h
  ELSE Filter(h, {x \in ToSet(h) : x.va < b.va}) \o <<b>>
         \o Filter(h, {x \in ToSet(h) : x.va > b.va})

\* Neighbours stay apart.
MERGEE_slip(h) == h

\* MERGEE: neighbours become one block.  It sorts the list again, which is
\* sorted.
MERGEE(h) ==
  Each(LAMBDA acc, b :
         IF acc # <<>> /\ End(Last(acc)) = b.va
         THEN [acc EXCEPT ![Len(acc)].n = @ + b.n]
         ELSE Append(acc, b),
       <<>>, h)

\* EXACTTT: the first block of that size.
EXACTTT(n) == SelectInSeq(holes, LAMBDA b : b.n = n)

\* WORSTTT: the first of the longest blocks, if it is long enough.
WORSTTT(n) ==
  SelectInSeq(holes, LAMBDA b : b.n >= n /\ \A c \in ToSet(holes) : c.n <= b.n)

\* The rest of a block that is longer than needed stays in its place.
Taken(i, n) ==
  IF holes[i].n = n THEN RemoveAt(holes, i)
  ELSE [holes EXCEPT ![i] = [va |-> @.va + n, n |-> @.n - n]]

\* Where n pages go: an exact fit, else the worst fit, else the break.
CustomFit(n) ==
  LET i == IF EXACTTT(n) # 0 THEN EXACTTT(n) ELSE WORSTTT(n)
  IN  IF i # 0 THEN [va |-> holes[i].va, holes |-> Taken(i, n), brk |-> brk]
      ELSE [va |-> brk, holes |-> holes, brk |-> brk + n]

\* No block fits, and the break would pass USER_HEAP_MAX.
NoRoom(n) == EXACTTT(n) = 0 /\ WORSTTT(n) = 0 /\ brk + n > HeapTop + 1

----------------------------------------------------------------------------
(* malloc and free                                                         *)

\* sys_allocate_user_mem takes an end at USER_HEAP_MAX for an illegal one.
AtTop(b) == End(b) >= HeapTop + 1

\* The kernel makes the program exit.
Terminated == running' = FALSE /\ UNCHANGED <<allocs, page>>

malloc(n) ==
  /\ running /\ Len(allocs) < Objects /\ ~NoRoom(n)
  /\ LET f == CustomFit(n)
         b == [va |-> f.va, n |-> n, shared |-> FALSE]
     IN  /\ holes' = f.holes
         /\ \/ /\ AtTop(b)
               /\ brk' = f.brk
               /\ Terminated
            \/ /\ ~AtTop(b)
               /\ brk' = IF End(b) > f.brk THEN End(b) ELSE f.brk
               /\ allocs' = <<b>> \o allocs
               /\ page' = Set(Extent(b), "marked")
               /\ UNCHANGED running
  /\ UNCHANGED lowered

\* find_allocation: the newest object at that address.
Newest(va) == SelectInSeq(allocs, LAMBDA a : a.va = va)

\* ta7dethEL_breakTofree: the break goes down to the highest end.
BreakAfter(as) ==
  Max({1} \cup {End(a) : a \in ToSet(as)})

\* free_user_mem.
Unmarked(b) == Set(Extent(b), "none")

\* Freeing an address that malloc did not return is a panic; programs that do
\* so are left out, and so are those that call free for a shared object.
free(va) ==
  /\ running /\ Newest(va) # 0 /\ ~allocs[Newest(va)].shared
  /\ LET b == allocs[Newest(va)]
     IN  /\ allocs' = RemoveAt(allocs, Newest(va))
         /\ brk' = BreakAfter(allocs')
         /\ page' = Unmarked(b)
         /\ holes' = MERGEE(FREEblockk(holes, [va |-> b.va, n |-> b.n]))
         /\ lowered' = (lowered \/ \E h \in ToSet(holes') : End(h) > brk')
  /\ UNCHANGED running

----------------------------------------------------------------------------
(* Shared objects                                                          *)

\* A place for n pages of a shared object: unlike malloc, the break is
\* tested first, and is not raised when a block above it is taken.
MayShare(n) ==
  /\ running /\ Len(allocs) < Objects
  /\ brk + n <= HeapTop + 1

\* smalloc, and sget, whose kernel call succeeds.
Shared(n) ==
  /\ MayShare(n)
  /\ LET f == CustomFit(n)
         b == [va |-> f.va, n |-> n, shared |-> TRUE]
     IN  /\ holes' = f.holes /\ brk' = f.brk
         /\ allocs' = <<b>> \o allocs
         /\ page' = Set(Extent(b), "shared")
  /\ UNCHANGED <<running, lowered>>

\* The place is not given back.
NotShared_slip(n) ==
  /\ MayShare(n)
  /\ brk' = CustomFit(n).brk /\ holes' = CustomFit(n).holes
  /\ UNCHANGED <<allocs, page, running, lowered>>

\* The name is taken, or the object has gone: the break goes down again if
\* the place was just below it, and else the place is listed.
NotShared(n) ==
  /\ MayShare(n)
  /\ LET f == CustomFit(n)
     IN  IF f.va >= f.brk THEN brk' = f.brk /\ holes' = f.holes
         ELSE IF f.va = f.brk - n THEN brk' = f.va /\ holes' = f.holes
         ELSE /\ brk' = f.brk
              /\ holes' = MERGEE(FREEblockk(f.holes, [va |-> f.va, n |-> n]))
  /\ UNCHANGED <<allocs, page, running, lowered>>

smalloc(n) == Shared(n) \/ NotShared(n)
sget(n) == Shared(n) \/ NotShared(n)

\* The kernel has deleted the object; the break stays where it is.  A block
\* at an address that is listed already goes before it.  Marks of other
\* objects stay: when no page of a table is present, delete_shared_object
\* calls del_page_table, which looks the address up in the kernel's own
\* directory (ptr_page_directory, paging_helpers.c:223), finds no table
\* there and returns.
sfree(va) ==
  /\ running /\ Newest(va) # 0 /\ allocs[Newest(va)].shared
  /\ LET b == allocs[Newest(va)]
     IN  /\ allocs' = RemoveAt(allocs, Newest(va))
         /\ page' = Set(Extent(b), "none")
         /\ holes' = MERGEE(Filter(holes, {x \in ToSet(holes) : x.va < va})
                              \o <<[va |-> va, n |-> b.n]>>
                              \o Filter(holes, {x \in ToSet(holes) : x.va >= va}))
  /\ UNCHANGED <<brk, running, lowered>>

----------------------------------------------------------------------------
\* uheap_init
Init ==
  /\ brk = 1
  /\ allocs = <<>> /\ holes = <<>>
  /\ page = [p \in Pages |-> "none"]
  /\ running = TRUE /\ lowered = FALSE

Next ==
  \/ \E n \in Sizes : malloc(n) \/ smalloc(n) \/ sget(n)
  \/ \E va \in {a.va : a \in Live} : free(va) \/ sfree(va)

Spec == Init /\ [][Next]_vars

----------------------------------------------------------------------------
(* The types of the variables: blocks lie in the heap.                     *)
TypeOK ==
  /\ brk \in 1..(HeapTop + 1)
  /\ allocs \in Seq([va : Pages, n : Sizes, shared : BOOLEAN])
  /\ holes \in Seq([va : Pages, n : Nat \ {0}])
  /\ page \in [Pages -> {"none", "marked", "shared"}]
  /\ running \in BOOLEAN /\ lowered \in BOOLEAN

(* No page belongs to two objects of a program: what the tests of the user *)
(* heap check as "content of newly allocated spaces"                       *)
(* (user/tst_custom_fit_1.c:158).                                          *)
NoOverlap ==
  \A i, j \in DOMAIN allocs :
    i # j => Extent(allocs[i]) \cap Extent(allocs[j]) = {}

(* Whatever is allocated, freed, shared and refused, the kernel marks or    *)
(* maps no page that no object has.  Until free leaves a listed block above *)
(* the break, every page below the break is in exactly one object or one    *)
(* free block, none above it is, and the pages of all objects are marked or *)
(* mapped: no page gets lost, none is handed out unmarked.                  *)
PagesConserved ==
  /\ \A p \in Pages : page[p] # "none" => \E a \in Live : p \in Extent(a)
  /\ running /\ ~lowered =>
       /\ \A p \in Pages :
            Cardinality({i \in DOMAIN allocs : p \in Extent(allocs[i])})
              + Cardinality({i \in DOMAIN holes : p \in Extent(holes[i])})
              = IF p < brk THEN 1 ELSE 0
       /\ \A p \in Pages :
            page[p] = IF \E a \in Live : a.shared /\ p \in Extent(a) THEN "shared"
                      ELSE IF \E a \in Live : p \in Extent(a) THEN "marked"
                      ELSE "none"

(* The gaps between objects below the break.                               *)
Gaps ==
  LET unused == {p \in 1..(brk - 1) : \A a \in Live : p \notin Extent(a)}
  IN  {g \in [va : Pages, n : 1..HeapTop] :
         /\ Extent(g) \subseteq unused
         /\ g.va - 1 \notin unused /\ End(g) \notin unused}

InCustomFit ==
  LET b == allocs'[1]
      fitting == {g \in Gaps : g.n >= b.n}
  IN  IF \E g \in fitting : g.n = b.n
      THEN \E g \in fitting : g.n = b.n /\ g.va = b.va
      ELSE IF fitting # {}
      THEN \E g \in fitting : g.va = b.va /\ \A h \in Gaps : h.n <= g.n
      ELSE b.va = brk

(* Custom fit, measured by the gaps and not by the list that the allocator *)
(* keeps: a new object goes into a gap of its size if there is one, else   *)
(* into one of the longest gaps if it fits, and to the break only if it    *)
(* fits nowhere.  So holes left by any sequence of calls are merged and    *)
(* found again, until free leaves a listed block above the break.          *)
FitsCustom == [][Len(allocs') > Len(allocs) /\ ~lowered => InCustomFit]_vars
============================================================================
