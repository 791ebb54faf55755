------------------------------- MODULE KHeap -------------------------------
(***************************************************************************)
(* The kernel heap's page allocator: kern/mem/kheap.c on top of Frames.    *)
(*                                                                         *)
(* Addresses are page numbers.  The heap has the pages 1 .. HeapMax - 1:   *)
(*   1 .. Gap - 1      the block allocator's pages (module DynAlloc)       *)
(*   Gap               the page between dynAllocEnd and                    *)
(*                     kheapPageAllocStart, which belongs to neither       *)
(*   Gap + 1 .. HeapMax-1  the page allocator's                            *)
(* The user programs' pages, below the heap, compete for the same frames.  *)
(* Every call holds the spinlock Lock from its first line to its last, so  *)
(* a call is one action.  live, the allocations that callers hold, and     *)
(* ret, what the last call returned, are ghost variables.                  *)
(*                                                                         *)
(* An operator that ends in _slip is a deliberately wrong form of the      *)
(* definition below it, which the properties must tell from the right one. *)
(***************************************************************************)
EXTENDS Frames, FiniteSets, SequencesExt

CONSTANTS
  Gap,        \* the first page after the block allocator's
  HeapMax,    \* KERNEL_HEAP_MAX
  Requests,   \* the sizes, in pages, that callers ask for
  UserPages   \* the pages of user programs

ASSUME KHeapAssumption ==
  /\ Gap \in Nat /\ HeapMax \in Nat /\ 1 <= Gap /\ Gap < HeapMax
  /\ Requests \subseteq Nat \ {0}
  /\ UserPages \cap (0..HeapMax) = {}
  /\ NoFrame \notin Frames /\ IsFiniteSet(Frames)

VARIABLES
  mem,            \* the frames and page tables, see Frames
  brk,            \* kheapPageAllocBreak
  allocatedSize,  \* [pages -> Nat]: allocatedSize[], in pages
  lock,           \* Lock is held when no call is in progress
  live,           \* the page allocations handed out
  ret             \* what the last call of kmalloc returned

vars == <<mem, brk, allocatedSize, lock, live, ret>>

Start == Gap + 1       \* kheapPageAllocStart
BlockPages == 1..(Gap - 1)
HeapPages == Start..(HeapMax - 1)
Slots == BlockPages \cup HeapPages \cup UserPages
Null == 0
NoCall == [n |-> 0, va |-> Null]

Mapped(v) == mem.pt[v] # NoFrame
Extent(v, n) == v..(v + n - 1)
Free(n) == n <= Len(mem.free)

\* alloc_page of the n pages from v on, one after the other.
MapPages(v, n) ==
  LET after[i \in 0..n] ==
        IF i = 0 THEN mem ELSE alloc_page(after[i - 1], v + i - 1, v + i - 1)
  IN  after[n]

\* unmap_frame of each of them.
UnmapPages(v, n) ==
  LET after[i \in 0..n] ==
        IF i = 0 THEN mem ELSE unmap_frame(after[i - 1], v + i - 1)
  IN  after[n]

----------------------------------------------------------------------------
(* The search of kmalloc: one pass over the pages below the break, with    *)
(* the run of free pages that is open, the first run of exactly n pages    *)
(* and the first of the longest runs of at least n.                        *)

\* The last of the longest runs wins.
Close_slip(s, n) ==
  [exact |-> IF s.run = n /\ s.exact = Null THEN s.start ELSE s.exact,
   worst |-> IF s.run >= n /\ s.run >= s.longest THEN s.start ELSE s.worst,
   longest |-> IF s.run >= n /\ s.run >= s.longest THEN s.run ELSE s.longest,
   start |-> s.start,
   run |-> 0]

\* The end of a run of free pages.
Close(s, n) ==
  [exact |-> IF s.run = n /\ s.exact = Null THEN s.start ELSE s.exact,
   worst |-> IF s.run >= n /\ s.run > s.longest THEN s.start ELSE s.worst,
   longest |-> IF s.run >= n /\ s.run > s.longest THEN s.run ELSE s.longest,
   start |-> s.start,
   run |-> 0]

\* What the pass knows when it has come to page v.
Search(n) ==
  LET scan[v \in Start..HeapMax] ==
        IF v = Start
        THEN [exact |-> Null, worst |-> Null, longest |-> 0, start |-> Null, run |-> 0]
        ELSE LET s == scan[v - 1]
             IN  IF Mapped(v - 1) THEN Close(s, n)
                 ELSE [s EXCEPT !.start = IF s.run = 0 THEN v - 1 ELSE @,
                                !.run = @ + 1]
  IN  Close(scan[brk], n)

\* Exact fit, then worst fit, then the break.
Place(n) == IF Search(n).exact # Null THEN Search(n).exact
            ELSE IF Search(n).worst # Null THEN Search(n).worst
            ELSE brk

----------------------------------------------------------------------------
Unlocked == ~lock

\* The first check of the page path comes before the search.
Refused(n) == brk + n >= HeapMax

\* kmalloc(n pages) succeeds.
Allocate(n) ==
  /\ Unlocked /\ ~Refused(n) /\ Free(n)
  /\ LET v == Place(n)
     IN  /\ mem' = MapPages(v, n)
         /\ allocatedSize' = [w \in HeapPages |->
                                IF w \in Extent(v, n) THEN n ELSE allocatedSize[w]]
         /\ brk' = IF v = brk THEN brk + n ELSE brk
         /\ live' = live \cup {[va |-> v, n |-> n]}
         /\ ret' = [n |-> n, va |-> v]
  /\ UNCHANGED lock

Refuse(n) ==
  /\ Unlocked /\ Refused(n)
  /\ ret' = [n |-> n, va |-> Null]
  /\ UNCHANGED <<mem, brk, allocatedSize, lock, live>>

\* There are not enough frames: allocate_frame panics in the middle, with
\* Lock held and the pages it had got so far mapped.
Exhaust(n) ==
  /\ Unlocked /\ ~Refused(n) /\ ~Free(n)
  /\ mem' = MapPages(Place(n), Len(mem.free))
  /\ lock' = TRUE
  /\ UNCHANGED <<brk, allocatedSize, live, ret>>

kmalloc(n) == Allocate(n) \/ Refuse(n) \/ Exhaust(n)

\* The break stays.
LowerBreak_slip(m) == brk

\* The break after a kfree: down to the highest page that is mapped.
LowerBreak(m) ==
  CHOOSE v \in Start..brk :
    /\ \A w \in v..(brk - 1) : m.pt[w] = NoFrame
    /\ v = Start \/ m.pt[v - 1] # NoFrame

\* allocatedSize forgets the pages of an allocation.
ClearSizes(v, n) ==
  [w \in HeapPages |-> IF w \in Extent(v, n) THEN 0 ELSE allocatedSize[w]]

\* kfree of an address that kmalloc returned and nobody has freed since.
kfree(a) ==
  /\ Unlocked
  /\ mem' = UnmapPages(a.va, allocatedSize[a.va])
  /\ allocatedSize' = ClearSizes(a.va, allocatedSize[a.va])
  /\ brk' = LowerBreak(mem')
  /\ live' = live \ {a}
  /\ ret' = NoCall
  /\ UNCHANGED lock

\* kfree of any other address outside the block allocator: a page that is
\* not mapped, or an address outside the heap, makes it release Lock and
\* panic.  The page between the two allocators meets no case, and the
\* function returns as it is.
kfreeWild(v) ==
  /\ Unlocked
  /\ v \notin BlockPages /\ (v \in HeapPages => ~Mapped(v))
  /\ lock' = (v = Gap)
  /\ ret' = NoCall
  /\ UNCHANGED <<mem, brk, allocatedSize, live>>

\* The block allocator takes and returns its pages under the same Lock.
get_page(v) ==
  /\ Unlocked /\ ~Mapped(v) /\ Free(1)
  /\ mem' = alloc_page(mem, v, v)
  /\ ret' = NoCall
  /\ UNCHANGED <<brk, allocatedSize, lock, live>>

return_page(v) ==
  /\ Unlocked /\ Mapped(v)
  /\ mem' = unmap_frame(mem, v)
  /\ ret' = NoCall
  /\ UNCHANGED <<brk, allocatedSize, lock, live>>

\* User programs map and unmap pages of their own.
MapUser(v) ==
  /\ ~Mapped(v) /\ Free(1)
  /\ mem' = alloc_page(mem, v, v)
  /\ UNCHANGED <<brk, allocatedSize, lock, live, ret>>

UnmapUser(v) ==
  /\ Mapped(v)
  /\ mem' = unmap_frame(mem, v)
  /\ UNCHANGED <<brk, allocatedSize, lock, live, ret>>

----------------------------------------------------------------------------
\* kheap_init after initialize_paging: no page of the heap is mapped.
Init ==
  /\ mem \in {InitMemory(Slots, s) : s \in SetToSeqs(Frames)}
  /\ brk = Start
  /\ allocatedSize = [v \in HeapPages |-> 0]
  /\ lock = FALSE
  /\ live = {}
  /\ ret = NoCall

Next == \/ \E n \in Requests : kmalloc(n)
        \/ \E a \in live : kfree(a)
        \/ \E v \in 0..HeapMax : kfreeWild(v)
        \/ \E v \in BlockPages : get_page(v) \/ return_page(v)
        \/ \E v \in UserPages : MapUser(v) \/ UnmapUser(v)

Spec == Init /\ [][Next]_vars

----------------------------------------------------------------------------
(* The types of the variables: the break stays in the heap and a size in   *)
(* allocatedSize is that of a block that fits in it.                       *)
TypeOK ==
  /\ IsMemory(mem, Slots, Slots \cup {NoVa})
  /\ brk \in Start..HeapMax
  /\ allocatedSize \in [HeapPages -> Requests \cup {0}]
  /\ lock \in BOOLEAN
  /\ live \subseteq [va : HeapPages, n : Requests]
  /\ ret \in [n : Requests \cup {0}, va : HeapPages \cup {Null}]

(* The callers' allocations do not overlap, every page of each is mapped,  *)
(* and no other page of the heap is; allocatedSize says the size of the    *)
(* allocation at each of its pages, and the break is right above the last  *)
(* one: what the search of the next kmalloc and the next kfree rely on.    *)
HeapMatchesCallers ==
  ~lock =>
    /\ \A a, b \in live : a # b => Extent(a.va, a.n) \cap Extent(b.va, b.n) = {}
    /\ \A v \in HeapPages :
         LET owners == {a \in live : v \in Extent(a.va, a.n)}
         IN  /\ Mapped(v) <=> owners # {}
             /\ allocatedSize[v] = IF owners = {} THEN 0
                                   ELSE (CHOOSE a \in owners : TRUE).n
             /\ v >= brk => owners = {}
    /\ brk > Start => Mapped(brk - 1)

\* kheap_virtual_address and kheap_physical_address, in pages.
kheap_virtual_address(f) ==
  IF mem.va[f] \in 1..(HeapMax - 1) THEN mem.va[f] ELSE Null
kheap_physical_address(v) == mem.pt[v]

(* Every frame is in the free list, once, or mapped, at as many places as  *)
(* references says: none is lost and none is given out twice, whatever the *)
(* heap, the block allocator and the user programs do.  And the frame's    *)
(* cached address is never stale: the two address translations, by which   *)
(* page tables are found (memory_manager.c:245), are inverse to each other *)
(* for the pages of both allocators.                                       *)
FramesConserved ==
  /\ \A f \in Frames :
       /\ mem.refs[f] = Cardinality(Entries(mem, f))
       /\ Cardinality({i \in DOMAIN mem.free : mem.free[i] = f})
            = IF mem.refs[f] = 0 THEN 1 ELSE 0
       /\ kheap_virtual_address(f) # Null =>
            kheap_physical_address(kheap_virtual_address(f)) = f
  /\ \A v \in BlockPages \cup HeapPages :
       Mapped(v) => kheap_virtual_address(kheap_physical_address(v)) = v

\* The holes below the break: the maximal runs of pages that are not mapped.
Holes ==
  {h \in [va : HeapPages, n : 1..HeapMax] :
     /\ h.va + h.n <= brk
     /\ \A v \in Extent(h.va, h.n) : ~Mapped(v)
     /\ h.va = Start \/ Mapped(h.va - 1)
     /\ h.va + h.n = brk \/ Mapped(h.va + h.n)}

\* The first hole of exactly the size that was asked for, else the first of
\* the largest holes if it is large enough, else the break.
InCustomFit ==
  LET fits == {h \in Holes : h.n >= ret'.n}
      exact == {h \in Holes : h.n = ret'.n}
      First(S) == CHOOSE h \in S : \A g \in S : h.va <= g.va
      largest == {h \in fits : \A g \in fits : g.n <= h.n}
  IN  ret'.va = IF exact # {} THEN First(exact).va
                ELSE IF fits # {} THEN First(largest).va
                ELSE brk

(* The place that kmalloc gives to its caller follows the custom fit       *)
(* strategy (kheap.c:141-145).                                             *)
CustomFit == [][ret' # ret /\ ret'.va # Null => InCustomFit]_vars
============================================================================
