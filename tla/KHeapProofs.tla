---------------------------- MODULE KHeapProofs ----------------------------
(***************************************************************************)
(* Proofs about the allocators of the heaps.  KHeap: the heap's pages are  *)
(* those of the allocations its callers hold, no physical frame is lost or *)
(* given out twice, and kmalloc follows the custom fit strategy.  UHeap,   *)
(* as the instance U of MCUserHeap: every page below the break belongs to  *)
(* one object or to one free block, and malloc, smalloc and sget follow    *)
(* that strategy too.  DynAlloc, as the instance D: every block is held    *)
(* once or in one list, once.                                              *)
(***************************************************************************)
EXTENDS KHeap, MCUserHeap, QueueLemmas

----------------------------------------------------------------------------
(* The inductive invariant.                                                *)

\* A frame is free, once in the list and without an address, or the one of a
\* single page, whose address it has.
MemInv(m) ==
  /\ IsMemory(m, Slots, Slots \cup {NoVa})
  /\ Distinct(m.free)
  /\ \A f \in Frames :
       \/ m.refs[f] = 0 /\ Occurs(m.free, f) /\ m.va[f] = NoVa
       \/ m.refs[f] = 1 /\ ~Occurs(m.free, f) /\ m.va[f] \in Slots /\ m.pt[m.va[f]] = f
  /\ \A s \in Slots : m.pt[s] # NoFrame => m.refs[m.pt[s]] = 1 /\ m.va[m.pt[s]] = s

\* The pages of an allocation.
PagesOf(a) == Extent(a.va, a.n)

\* The pages of the heap are those of the callers' allocations, which lie
\* below the break and do not overlap, and allocatedSize says so.
HeapInv ==
  /\ \A a \in live : a.va + a.n <= brk
  /\ \A a, b \in live : a # b => PagesOf(a) \cap PagesOf(b) = {}
  /\ \A a \in live : \A v \in PagesOf(a) : Mapped(v) /\ allocatedSize[v] = a.n
  /\ \A v \in HeapPages :
       (\A a \in live : v \notin PagesOf(a)) => ~Mapped(v) /\ allocatedSize[v] = 0
  /\ brk > Start => Mapped(brk - 1)

IInv == TypeOK /\ MemInv(mem) /\ (~lock => HeapInv)

----------------------------------------------------------------------------
(* Numbers.                                                                *)

(* What the assumption says of the numbers that are pages.                 *)
LEMMA PageNumbers ==
  /\ Gap \in Nat /\ HeapMax \in Nat /\ Start \in Nat /\ Start <= HeapMax /\ 2 <= Start
  /\ HeapPages \subseteq Slots /\ BlockPages \subseteq Slots /\ UserPages \subseteq Slots
  /\ \A v \in HeapPages : v \in Nat /\ Start <= v /\ v < HeapMax
  /\ \A v \in Nat : Start <= v /\ v < HeapMax => v \in HeapPages
  /\ NoVa \notin Slots
  /\ Requests \subseteq Nat \ {0}
  /\ HeapPages \cap BlockPages = {} /\ UserPages \cap (HeapPages \cup BlockPages) = {}
  /\ NoFrame \notin Frames
BY KHeapAssumption DEF Start, HeapPages, BlockPages, Slots, NoVa

----------------------------------------------------------------------------
(* One page.                                                               *)

(* A new frame at a page that has none.                                    *)
LEMMA AllocOne ==
  ASSUME NEW m, MemInv(m), NEW s \in Slots, m.pt[s] = NoFrame, m.free # <<>>
  PROVE  LET r == alloc_page(m, s, s)
         IN  /\ MemInv(r)
             /\ r.pt[s] # NoFrame
             /\ \A t \in Slots \ {s} : r.pt[t] = m.pt[t]
             /\ Len(r.free) = Len(m.free) - 1
<1> DEFINE f == Head(m.free)
<1> DEFINE a == allocate_frame(m)
<1> DEFINE r == alloc_page(m, s, s)
<1>1. /\ m.free \in Seq(Frames) /\ m.refs \in [Frames -> Nat]
      /\ m.va \in [Frames -> Slots \cup {NoVa}] /\ m.pt \in [Slots -> Frames \cup {NoFrame}]
      /\ Distinct(m.free) /\ IsMemory(m, Slots, Slots \cup {NoVa})
  BY DEF MemInv, IsMemory
<1>2. /\ f \in Frames /\ Occurs(m.free, f) /\ Tail(m.free) \in Seq(Frames)
      /\ Distinct(Tail(m.free)) /\ \A e : Occurs(Tail(m.free), e) <=> Occurs(m.free, e) /\ e # f
      /\ Len(Tail(m.free)) = Len(m.free) - 1
  BY <1>1, OccursTail, HeadTailProperties
<1>3. m.refs[f] = 0 /\ NoFrame \notin Frames
  BY <1>2, PageNumbers DEF MemInv
<1>4. /\ r.free = Tail(m.free) /\ r.refs = [m.refs EXCEPT ![f] = 1]
      /\ r.va = [m.va EXCEPT ![f] = s] /\ r.pt = [m.pt EXCEPT ![s] = f]
      /\ IsMemory(r, Slots, Slots \cup {NoVa})
  <2> DEFINE i == initialize_frame_info(m, f)
             w == [a EXCEPT !.va[f] = s]
  <2>1. /\ i.free = m.free /\ i.refs = [m.refs EXCEPT ![f] = 0]
        /\ i.va = [m.va EXCEPT ![f] = NoVa] /\ i.pt = m.pt
        /\ IsMemory(i, Slots, Slots \cup {NoVa})
    <3> HIDE DEF f
    <3> QED BY <1>1, <1>2 DEF initialize_frame_info, IsMemory
  <2>2. a = [i EXCEPT !.free = Tail(m.free)]
    BY DEF allocate_frame
  <2>3. r = map_frame(a, f, s, s)
    BY DEF alloc_page
  <2> HIDE DEF f, r, i, a
  <2>4. /\ a.free = Tail(m.free) /\ a.refs = [m.refs EXCEPT ![f] = 0]
        /\ a.va = [m.va EXCEPT ![f] = NoVa] /\ a.pt = m.pt
        /\ IsMemory(a, Slots, Slots \cup {NoVa})
    BY <1>2, <2>1, <2>2 DEF IsMemory
  <2>5. /\ w.free = Tail(m.free) /\ w.refs = [m.refs EXCEPT ![f] = 0]
        /\ w.va = [m.va EXCEPT ![f] = s] /\ w.pt = m.pt
        /\ IsMemory(w, Slots, Slots \cup {NoVa})
    BY <1>1, <1>2, <2>4 DEF IsMemory
  <2>6. r = [w EXCEPT !.refs[f] = @ + 1, !.pt[s] = f]
    <3>1. w.pt[s] = NoFrame
      BY <2>5
    <3> HIDE DEF w
    <3>2. unmap_frame(w, s) = w
      BY <3>1 DEF unmap_frame
    <3> QED BY <1>2, <1>3, <2>3, <3>1, <3>2 DEF map_frame, w
  <2> HIDE DEF w
  <2>7. w.refs[f] + 1 = 1
    BY <1>1, <1>2, <2>5
  <2> QED BY <1>1, <1>2, <2>5, <2>6, <2>7 DEF IsMemory
<1> HIDE DEF f, a, r
<1>5. IsMemory(r, Slots, Slots \cup {NoVa})
  BY <1>4
<1>6. ASSUME NEW g \in Frames
      PROVE  \/ r.refs[g] = 0 /\ Occurs(r.free, g) /\ r.va[g] = NoVa
             \/ r.refs[g] = 1 /\ ~Occurs(r.free, g) /\ r.va[g] \in Slots /\ r.pt[r.va[g]] = g
  <2>1. CASE g = f
    BY <1>1, <1>2, <1>4, <2>1
  <2>2. CASE g # f /\ m.refs[g] = 0
    BY <1>1, <1>2, <1>4, <2>2 DEF MemInv
  <2>3. CASE g # f /\ m.refs[g] # 0
    <3>1. m.refs[g] = 1 /\ ~Occurs(m.free, g) /\ m.va[g] \in Slots /\ m.pt[m.va[g]] = g
      BY <2>3 DEF MemInv
    <3>2. m.va[g] # s
      BY <1>3, <3>1
    <3> QED BY <1>1, <1>2, <1>4, <2>3, <3>1, <3>2
  <2> QED BY <2>1, <2>2, <2>3
<1>7. ASSUME NEW t \in Slots, r.pt[t] # NoFrame
      PROVE  r.refs[r.pt[t]] = 1 /\ r.va[r.pt[t]] = t
  <2>1. CASE t = s
    BY <1>1, <1>2, <1>4, <2>1
  <2>2. CASE t # s
    <3>1. r.pt[t] = m.pt[t] /\ m.pt[t] \in Frames /\ m.refs[m.pt[t]] = 1 /\ m.va[m.pt[t]] = t
      BY <1>1, <1>4, <1>7, <2>2 DEF MemInv
    <3> QED BY <1>1, <1>3, <1>4, <3>1
  <2> QED BY <2>1, <2>2
<1>8. Distinct(r.free)
  BY <1>2, <1>4
<1>9. MemInv(r)
  BY <1>5, <1>6, <1>7, <1>8 DEF MemInv
<1>10. /\ r.pt[s] # NoFrame /\ \A t \in Slots \ {s} : r.pt[t] = m.pt[t]
       /\ Len(r.free) = Len(m.free) - 1
  BY <1>1, <1>2, <1>3, <1>4
<1> QED BY <1>9, <1>10 DEF r

(* A page gives its frame back.                                            *)
LEMMA UnmapOne ==
  ASSUME NEW m, MemInv(m), NEW s \in Slots
  PROVE  LET r == unmap_frame(m, s)
         IN  /\ MemInv(r)
             /\ r.pt[s] = NoFrame
             /\ \A t \in Slots \ {s} : r.pt[t] = m.pt[t]
<1> DEFINE f == m.pt[s]
<1> DEFINE r == unmap_frame(m, s)
<1>1. /\ m.free \in Seq(Frames) /\ m.refs \in [Frames -> Nat]
      /\ m.va \in [Frames -> Slots \cup {NoVa}] /\ m.pt \in [Slots -> Frames \cup {NoFrame}]
      /\ Distinct(m.free) /\ IsMemory(m, Slots, Slots \cup {NoVa})
  BY DEF MemInv, IsMemory
<1>2. CASE f = NoFrame
  BY <1>2 DEF unmap_frame
<1>3. CASE f # NoFrame
  <2>1. f \in Frames /\ m.refs[f] = 1 /\ m.va[f] = s /\ ~Occurs(m.free, f)
    <3>1. f \in Frames /\ m.refs[f] = 1 /\ m.va[f] = s
      BY <1>1, <1>3 DEF MemInv
    <3> QED BY <3>1 DEF MemInv
  <2>2. /\ <<f>> \o m.free \in Seq(Frames) /\ Distinct(<<f>> \o m.free)
        /\ \A e : Occurs(<<f>> \o m.free, e) <=> Occurs(m.free, e) \/ e = f
    <3> DEFINE q == <<f>>
    <3>1. q \in Seq(Frames) /\ Distinct(q) /\ \A e : Occurs(q, e) <=> e = f
      BY <2>1 DEF Distinct, Occurs
    <3> HIDE DEF q
    <3>2. /\ q \o m.free \in Seq(Frames) /\ Distinct(q \o m.free)
          /\ \A e : Occurs(q \o m.free, e) <=> Occurs(m.free, e) \/ e = f
      BY <1>1, <2>1, <3>1, OccursConcat
    <3> QED BY <3>2 DEF q
  <2>3. /\ r.free = <<f>> \o m.free /\ r.refs = [m.refs EXCEPT ![f] = 0]
        /\ r.va = [m.va EXCEPT ![f] = NoVa] /\ r.pt = [m.pt EXCEPT ![s] = NoFrame]
        /\ IsMemory(r, Slots, Slots \cup {NoVa})
    <3> DEFINE i == initialize_frame_info(m, f)
               d == free_frame(m, f)
    <3>1. /\ i.free = m.free /\ i.refs = [m.refs EXCEPT ![f] = 0]
          /\ i.va = [m.va EXCEPT ![f] = NoVa] /\ i.pt = m.pt
          /\ IsMemory(i, Slots, Slots \cup {NoVa})
      <4> HIDE DEF f
      <4> QED BY <1>1, <2>1 DEF initialize_frame_info, IsMemory
    <3>2. d = [i EXCEPT !.free = <<f>> \o m.free]
      BY <3>1 DEF free_frame
    <3>3. r = [d EXCEPT !.pt[s] = NoFrame]
      BY <1>3, <2>1 DEF unmap_frame, decrement_references
    <3> DEFINE q == <<f>> \o m.free
    <3>4. q \in Seq(Frames) /\ d = [i EXCEPT !.free = q]
      BY <2>2, <3>2
    <3> HIDE DEF f, r, i, d, q
    <3>5. /\ d.free = q /\ d.refs = [m.refs EXCEPT ![f] = 0]
          /\ d.va = [m.va EXCEPT ![f] = NoVa] /\ d.pt = m.pt
          /\ IsMemory(d, Slots, Slots \cup {NoVa})
      BY <3>1, <3>4 DEF IsMemory
    <3>6. /\ r.free = q /\ r.refs = [m.refs EXCEPT ![f] = 0]
          /\ r.va = [m.va EXCEPT ![f] = NoVa] /\ r.pt = [m.pt EXCEPT ![s] = NoFrame]
          /\ IsMemory(r, Slots, Slots \cup {NoVa})
      BY <1>1, <3>3, <3>5 DEF IsMemory
    <3> QED BY <3>6 DEF q
  <2> HIDE DEF r
  <2>4. ASSUME NEW g \in Frames
        PROVE  \/ r.refs[g] = 0 /\ Occurs(r.free, g) /\ r.va[g] = NoVa
               \/ r.refs[g] = 1 /\ ~Occurs(r.free, g) /\ r.va[g] \in Slots /\ r.pt[r.va[g]] = g
    <3>1. CASE g = f
      BY <1>1, <2>1, <2>2, <2>3, <3>1
    <3>2. CASE g # f /\ m.refs[g] = 0
      BY <1>1, <2>1, <2>2, <2>3, <3>2 DEF MemInv
    <3>3. CASE g # f /\ m.refs[g] # 0
      <4>1. m.refs[g] = 1 /\ ~Occurs(m.free, g) /\ m.va[g] \in Slots /\ m.pt[m.va[g]] = g
        BY <3>3 DEF MemInv
      <4>2. m.va[g] # s
        BY <3>3, <4>1
      <4> HIDE DEF f
      <4> QED BY <1>1, <2>1, <2>2, <2>3, <3>3, <4>1, <4>2
    <3> QED BY <3>1, <3>2, <3>3
  <2>5. ASSUME NEW t \in Slots, r.pt[t] # NoFrame
        PROVE  r.refs[r.pt[t]] = 1 /\ r.va[r.pt[t]] = t
    <3>1. t # s
      BY <1>1, <2>3, <2>5
    <3>2. r.pt[t] = m.pt[t] /\ m.pt[t] \in Frames /\ m.refs[m.pt[t]] = 1 /\ m.va[m.pt[t]] = t
      BY <1>1, <2>3, <2>5, <3>1 DEF MemInv
    <3>3. m.pt[t] # f
      BY <2>1, <3>1, <3>2
    <3> HIDE DEF f
    <3> QED BY <1>1, <2>3, <3>2, <3>3
  <2>6. Distinct(r.free)
    BY <2>2, <2>3
  <2>7. r.pt[s] = NoFrame /\ \A t \in Slots \ {s} : r.pt[t] = m.pt[t]
    BY <1>1, <2>3
  <2> QED BY <2>3, <2>4, <2>5, <2>6, <2>7 DEF MemInv, r
<1> QED BY <1>2, <1>3

(* The loop of MapPages has a result after each of its steps.              *)
LEMMA MapSteps ==
  ASSUME NEW n \in Nat, NEW v \in Nat
  PROVE  \E s :
            s = [i \in 0..n |-> IF i = 0 THEN mem ELSE alloc_page(s[i - 1], v + i - 1, v + i - 1)]
<1> DEFINE T == {k \in Nat : \E s :
          s = [i \in 0..k |-> IF i = 0 THEN mem ELSE alloc_page(s[i - 1], v + i - 1, v + i - 1)]}
<1>1. 0 \in T
  <2> DEFINE s == [i \in 0..0 |-> mem]
  <2>1. s = [i \in 0..0 |-> IF i = 0 THEN mem ELSE alloc_page(s[i - 1], v + i - 1, v + i - 1)]
    OBVIOUS
  <2> QED BY <2>1
<1>2. ASSUME NEW k \in T PROVE k + 1 \in T
  <2>1. PICK s :
        s = [i \in 0..k |-> IF i = 0 THEN mem ELSE alloc_page(s[i - 1], v + i - 1, v + i - 1)]
    OBVIOUS
  <2> DEFINE g == [i \in 0..(k + 1) |-> IF i = k + 1
                                  THEN alloc_page(s[k], v + (k + 1) - 1, v + (k + 1) - 1)
                                  ELSE s[i]]
  <2>2. ASSUME NEW i \in 0..(k + 1)
        PROVE  g[i] = IF i = 0 THEN mem ELSE alloc_page(g[i - 1], v + i - 1, v + i - 1)
    <3>1. CASE i = 0
      BY <2>1, <3>1
    <3>2. CASE i = k + 1
      <4>1. /\ g[i] = alloc_page(s[k], v + (k + 1) - 1, v + (k + 1) - 1)
            /\ i - 1 = k /\ i # 0 /\ k \in 0..(k + 1) /\ k # k + 1
        BY <3>2
      <4>2. g[k] = s[k]
        BY <4>1
      <4> QED BY <3>2, <4>1, <4>2
    <3>3. CASE i # 0 /\ i # k + 1
      <4>1. i \in 0..k /\ i - 1 \in 0..k /\ i - 1 \in 0..(k + 1) /\ i - 1 # k + 1
        BY <3>3
      <4>2. g[i] = s[i] /\ g[i - 1] = s[i - 1]
        BY <3>3, <4>1
      <4>3. s[i] = alloc_page(s[i - 1], v + i - 1, v + i - 1)
        BY <2>1, <3>3, <4>1
      <4> QED BY <3>3, <4>2, <4>3
    <3> QED BY <3>1, <3>2, <3>3
  <2>3. g = [i \in 0..(k + 1) |->
              IF i = 0 THEN mem ELSE alloc_page(g[i - 1], v + i - 1, v + i - 1)]
    BY <2>2
  <2>4. k + 1 \in Nat
    OBVIOUS
  <2> QED BY <2>3, <2>4
<1> HIDE DEF T
<1>3. Nat = T
  <2>1. T \in SUBSET Nat
    BY DEF T
  <2> QED BY <1>1, <1>2, <2>1, Induct
<1> QED BY <1>3 DEF T

(* So has that of UnmapPages.                                              *)
LEMMA UnmapSteps ==
  ASSUME NEW n \in Nat, NEW v \in Nat
  PROVE  \E s : s = [i \in 0..n |-> IF i = 0 THEN mem ELSE unmap_frame(s[i - 1], v + i - 1)]
<1> DEFINE T == {k \in Nat : \E s :
          s = [i \in 0..k |-> IF i = 0 THEN mem ELSE unmap_frame(s[i - 1], v + i - 1)]}
<1>1. 0 \in T
  <2> DEFINE s == [i \in 0..0 |-> mem]
  <2>1. s = [i \in 0..0 |-> IF i = 0 THEN mem ELSE unmap_frame(s[i - 1], v + i - 1)]
    OBVIOUS
  <2> QED BY <2>1
<1>2. ASSUME NEW k \in T PROVE k + 1 \in T
  <2>1. PICK s :
        s = [i \in 0..k |-> IF i = 0 THEN mem ELSE unmap_frame(s[i - 1], v + i - 1)]
    OBVIOUS
  <2> DEFINE g == [i \in 0..(k + 1) |-> IF i = k + 1
                                        THEN unmap_frame(s[k], v + (k + 1) - 1)
                                        ELSE s[i]]
  <2>2. ASSUME NEW i \in 0..(k + 1)
        PROVE  g[i] = IF i = 0 THEN mem ELSE unmap_frame(g[i - 1], v + i - 1)
    <3>1. CASE i = 0
      BY <2>1, <3>1
    <3>2. CASE i = k + 1
      <4>1. /\ g[i] = unmap_frame(s[k], v + (k + 1) - 1)
            /\ i - 1 = k /\ i # 0 /\ k \in 0..(k + 1) /\ k # k + 1
        BY <3>2
      <4>2. g[k] = s[k]
        BY <4>1
      <4> QED BY <3>2, <4>1, <4>2
    <3>3. CASE i # 0 /\ i # k + 1
      <4>1. i \in 0..k /\ i - 1 \in 0..k /\ i - 1 \in 0..(k + 1) /\ i - 1 # k + 1
        BY <3>3
      <4>2. g[i] = s[i] /\ g[i - 1] = s[i - 1]
        BY <3>3, <4>1
      <4>3. s[i] = unmap_frame(s[i - 1], v + i - 1)
        BY <2>1, <3>3, <4>1
      <4> QED BY <3>3, <4>2, <4>3
    <3> QED BY <3>1, <3>2, <3>3
  <2>3. g = [i \in 0..(k + 1) |-> IF i = 0 THEN mem ELSE unmap_frame(g[i - 1], v + i - 1)]
    BY <2>2
  <2>4. k + 1 \in Nat
    OBVIOUS
  <2> QED BY <2>3, <2>4
<1> HIDE DEF T
<1>3. Nat = T
  <2>1. T \in SUBSET Nat
    BY DEF T
  <2> QED BY <1>1, <1>2, <2>1, Induct
<1> QED BY <1>3 DEF T

(* The pages of an allocation get frames of their own.                     *)
LEMMA MappedPages ==
  ASSUME MemInv(mem), NEW v \in Nat, NEW n \in Nat, n <= Len(mem.free),
         \A w \in Extent(v, n) : w \in Slots /\ ~Mapped(w)
  PROVE  LET r == MapPages(v, n)
         IN  /\ MemInv(r)
             /\ \A w \in Extent(v, n) : r.pt[w] # NoFrame
             /\ \A t \in Slots \ Extent(v, n) : r.pt[t] = mem.pt[t]
<1> DEFINE after == CHOOSE s : s = [i \in 0..n |-> IF i = 0 THEN mem
                                     ELSE alloc_page(s[i - 1], v + i - 1, v + i - 1)]
<1>1. after = [i \in 0..n |-> IF i = 0 THEN mem
                             ELSE alloc_page(after[i - 1], v + i - 1, v + i - 1)]
  BY MapSteps
<1>2. MapPages(v, n) = after[n]
  BY DEF MapPages
<1> HIDE DEF after
<1> DEFINE Done(k) == /\ MemInv(after[k])
                      /\ Len(after[k].free) = Len(mem.free) - k
                      /\ \A w \in Extent(v, k) : after[k].pt[w] # NoFrame
                      /\ \A t \in Slots \ Extent(v, k) : after[k].pt[t] = mem.pt[t]
           T == {k \in Nat : k <= n => Done(k)}
<1>3. Len(mem.free) \in Nat
  BY DEF MemInv, IsMemory
<1>4. 0 \in T
  <2>1. after[0] = mem /\ Extent(v, 0) = {}
    BY <1>1 DEF Extent
  <2> QED BY <1>3, <2>1
<1>5. ASSUME NEW k \in T PROVE k + 1 \in T
  <2> SUFFICES ASSUME k + 1 <= n PROVE Done(k + 1)
    OBVIOUS
  <2>1. Done(k) /\ k \in Nat
    <3> HIDE DEF Done
    <3> QED BY SMTT(30)
  <2> DEFINE s == v + k
  <2>2. /\ s = v + (k + 1) - 1 /\ (k + 1) - 1 = k /\ k + 1 \in 0..n /\ k + 1 # 0
        /\ s \in Extent(v, n) /\ s \notin Extent(v, k)
        /\ Extent(v, k + 1) = Extent(v, k) \cup {s}
    BY <2>1 DEF Extent
  <2>3. after[k + 1] = alloc_page(after[k], s, s)
    BY <1>1, <2>2
  <2>4. s \in Slots /\ after[k].pt[s] = NoFrame
    BY <2>1, <2>2 DEF Mapped
  <2>5. after[k].free # <<>>
    <3>1. Len(after[k].free) # 0
      BY <1>3, <2>1
    <3> QED BY <3>1
  <2> HIDE DEF Done, s, T
  <2>6. MemInv(after[k])
    BY <2>1 DEF Done
  <2>7. /\ MemInv(after[k + 1]) /\ after[k + 1].pt[s] # NoFrame
        /\ \A t \in Slots \ {s} : after[k + 1].pt[t] = after[k].pt[t]
        /\ Len(after[k + 1].free) = Len(after[k].free) - 1
    BY <2>3, <2>4, <2>5, <2>6, AllocOne
  <2>8. Len(after[k + 1].free) = Len(mem.free) - (k + 1)
    BY <1>3, <2>1, <2>7 DEF Done
  <2>9. \A w \in Extent(v, k) : w \in Slots
    BY <2>1, <2>2 DEF Extent
  <2> QED BY <2>1, <2>2, <2>7, <2>8, <2>9 DEF Done
<1>6. T \in SUBSET Nat
  OBVIOUS
<1> HIDE DEF T, Done
<1>7. Nat = T
  BY <1>4, <1>5, <1>6, Induct
<1>8. Done(n)
  BY <1>7 DEF T
<1> QED BY <1>2, <1>8 DEF Done

(* The pages of an allocation give their frames back.                      *)
LEMMA UnmappedPages ==
  ASSUME MemInv(mem), NEW v \in Nat, NEW n \in Nat, Extent(v, n) \subseteq Slots
  PROVE  LET r == UnmapPages(v, n)
         IN  /\ MemInv(r)
             /\ \A w \in Extent(v, n) : r.pt[w] = NoFrame
             /\ \A t \in Slots \ Extent(v, n) : r.pt[t] = mem.pt[t]
<1> DEFINE after == CHOOSE s : s = [i \in 0..n |-> IF i = 0 THEN mem
                                     ELSE unmap_frame(s[i - 1], v + i - 1)]
<1>1. after = [i \in 0..n |-> IF i = 0 THEN mem ELSE unmap_frame(after[i - 1], v + i - 1)]
  BY UnmapSteps
<1>2. UnmapPages(v, n) = after[n]
  BY DEF UnmapPages
<1> HIDE DEF after
<1> DEFINE Done(k) == /\ MemInv(after[k])
                      /\ \A w \in Extent(v, k) : after[k].pt[w] = NoFrame
                      /\ \A t \in Slots \ Extent(v, k) : after[k].pt[t] = mem.pt[t]
           T == {k \in Nat : k <= n => Done(k)}
<1>3. 0 \in T
  <2>1. after[0] = mem /\ Extent(v, 0) = {}
    BY <1>1 DEF Extent
  <2> QED BY <2>1
<1>4. ASSUME NEW k \in T PROVE k + 1 \in T
  <2> SUFFICES ASSUME k + 1 <= n PROVE Done(k + 1)
    OBVIOUS
  <2>1. Done(k) /\ k \in Nat
    <3> HIDE DEF Done
    <3> QED BY SMTT(30)
  <2> DEFINE s == v + k
  <2>2. /\ s = v + (k + 1) - 1 /\ (k + 1) - 1 = k /\ k + 1 \in 0..n /\ k + 1 # 0
        /\ s \in Extent(v, n) /\ Extent(v, k) \subseteq Extent(v, n)
        /\ Extent(v, k + 1) = Extent(v, k) \cup {s}
    BY <2>1 DEF Extent
  <2>3. after[k + 1] = unmap_frame(after[k], s)
    BY <1>1, <2>2
  <2> HIDE DEF Done, s, T
  <2>4. MemInv(after[k])
    BY <2>1 DEF Done
  <2>5. /\ MemInv(after[k + 1]) /\ after[k + 1].pt[s] = NoFrame
        /\ \A t \in Slots \ {s} : after[k + 1].pt[t] = after[k].pt[t]
    BY <2>2, <2>3, <2>4, UnmapOne
  <2> QED BY <2>1, <2>2, <2>5 DEF Done
<1>5. T \in SUBSET Nat
  OBVIOUS
<1> HIDE DEF T, Done
<1>6. Nat = T
  BY <1>3, <1>4, <1>5, Induct
<1>7. Done(n)
  BY <1>6 DEF T
<1> QED BY <1>2, <1>7 DEF Done
----------------------------------------------------------------------------
(* The search of kmalloc.                                                  *)

\* The n pages from v on are free.
Empty(v, n) == \A w \in Extent(v, n) : ~Mapped(w)

\* The pass goes on with a free page, v.
Longer(s, v) == [s EXCEPT !.start = IF s.run = 0 THEN v ELSE @, !.run = @ + 1]
Record == [exact : Nat, worst : Nat, longest : Nat, start : Nat, run : Nat]

(* The pass keeps the types of what it knows.                              *)
LEMMA CloseRecord ==
  ASSUME NEW n \in Nat, NEW s \in Record
  PROVE  Close(s, n) \in Record
BY DEF Close, Record

LEMMA LongerRecord ==
  ASSUME NEW s \in Record, NEW v \in Nat
  PROVE  LET c == Longer(s, v)
         IN  /\ c \in Record
             /\ c.exact = s.exact /\ c.worst = s.worst /\ c.longest = s.longest
             /\ c.run = s.run + 1 /\ c.start = IF s.run = 0 THEN v ELSE s.start
<1> DEFINE c == Longer(s, v)
<1>1. /\ c.exact = s.exact /\ c.worst = s.worst /\ c.longest = s.longest
      /\ c.run = s.run + 1 /\ c.start = IF s.run = 0 THEN v ELSE s.start
  BY DEF Longer, Record
<1>2. c \in Record
  <2> DEFINE d == [s EXCEPT !.start = IF s.run = 0 THEN v ELSE s.start]
  <2>1. c = [[s EXCEPT !.start = IF s.run = 0 THEN v ELSE s.start] EXCEPT !.run = s.run + 1]
    BY DEF Longer, Record
  <2>2. d \in Record
    BY DEF Record
  <2>3. c = [d EXCEPT !.run = s.run + 1]
    BY <2>1
  <2> HIDE DEF c, d
  <2> QED BY <2>2, <2>3 DEF Record
<1> QED BY <1>1, <1>2

\* One step of the pass, to page v.
Nothing == [exact |-> Null, worst |-> Null, longest |-> 0, start |-> Null, run |-> 0]
Further(s, v, n) == IF Mapped(v - 1) THEN Close(s, n) ELSE Longer(s, v - 1)

(* The pass has a result at each page.                                     *)
LEMMA ScanSteps ==
  ASSUME NEW n \in Nat, NEW k \in Nat
  PROVE  \E s : s = [v \in Start..(Start + k) |->
                       IF v = Start THEN Nothing ELSE Further(s[v - 1], v, n)]
<1> DEFINE T == {j \in Nat : \E s : s = [v \in Start..(Start + j) |->
                               IF v = Start THEN Nothing ELSE Further(s[v - 1], v, n)]}
<1>0. Start \in Nat
  BY PageNumbers
<1>1. 0 \in T
  <2> DEFINE s == [v \in Start..(Start + 0) |-> Nothing]
  <2>1. s = [v \in Start..(Start + 0) |->
              IF v = Start THEN Nothing ELSE Further(s[v - 1], v, n)]
    BY <1>0
  <2> QED BY <2>1
<1>2. ASSUME NEW j \in T PROVE j + 1 \in T
  <2>1. PICK s : s = [v \in Start..(Start + j) |->
                        IF v = Start THEN Nothing ELSE Further(s[v - 1], v, n)]
    OBVIOUS
  <2> DEFINE l == Start + (j + 1)
             g == [v \in Start..l |-> IF v = l THEN Further(s[Start + j], v, n) ELSE s[v]]
  <2>2. ASSUME NEW v \in Start..l
        PROVE  g[v] = IF v = Start THEN Nothing ELSE Further(g[v - 1], v, n)
    <3>1. CASE v = Start
      BY <1>0, <2>1, <3>1
    <3>2. CASE v = l
      <4>1. /\ g[v] = Further(s[Start + j], v, n) /\ v - 1 = Start + j /\ v # Start
            /\ v - 1 \in Start..l /\ v - 1 # l
        BY <1>0, <3>2
      <4>2. g[v - 1] = s[v - 1]
        BY <4>1
      <4> QED BY <4>1, <4>2
    <3>3. CASE v # Start /\ v # l
      <4>1. v \in Start..(Start + j) /\ v - 1 \in Start..l /\ v - 1 # l
        BY <1>0, <3>3
      <4>2. g[v] = s[v] /\ g[v - 1] = s[v - 1]
        BY <3>3, <4>1
      <4>3. s[v] = Further(s[v - 1], v, n)
        BY <2>1, <3>3, <4>1
      <4> QED BY <3>3, <4>2, <4>3
    <3> QED BY <3>1, <3>2, <3>3
  <2>3. g = [v \in Start..l |-> IF v = Start THEN Nothing ELSE Further(g[v - 1], v, n)]
    BY <2>2
  <2>4. j + 1 \in Nat
    OBVIOUS
  <2> QED BY <2>3, <2>4
<1> HIDE DEF T
<1>3. Nat = T
  <2>1. T \in SUBSET Nat
    BY DEF T
  <2> QED BY <1>1, <1>2, <2>1, Induct
<1> QED BY <1>3 DEF T


Spans == [va : HeapPages, n : 1..HeapMax]

\* A run of free pages with no free page before it.
RunAt(h) ==
  Empty(h.va, h.n) /\ (h.va = Start \/ Mapped(h.va - 1))

\* The holes that end below page v, with a mapped page after them.
Past(v) == {h \in Spans : h.va + h.n < v /\ RunAt(h) /\ Mapped(h.va + h.n)}

\* The search has the right candidates among the holes in P.
ExactOf(s, P, n) ==
  \/ s.exact = Null /\ \A h \in P : h.n # n
  \/ \E h \in P : /\ h.n = n /\ s.exact = h.va
                  /\ \A g \in P : g.n = n => h.va <= g.va
WorstOf(s, P, n) ==
  \/ s.worst = Null /\ s.longest = 0 /\ \A h \in P : h.n < n
  \/ \E h \in P : /\ h.n >= n /\ s.worst = h.va /\ s.longest = h.n
                  /\ \A g \in P : g.n <= h.n /\ (g.n = h.n => h.va <= g.va)

\* The run that is open at page v.
Open(s, v) ==
  IF s.run = 0 THEN v = Start \/ Mapped(v - 1)
  ELSE /\ [va |-> s.start, n |-> s.run] \in Spans
       /\ s.start + s.run = v /\ RunAt([va |-> s.start, n |-> s.run])

\* The holes when the run that is open at the end has been closed.
With(s, P) == P \cup (IF s.run = 0 THEN {} ELSE {[va |-> s.start, n |-> s.run]})

(* Two runs without a mapped page between them are one.                    *)
LEMMA OneRun ==
  ASSUME NEW g \in Spans, NEW h \in Spans, RunAt(g), RunAt(h), g.va + g.n = h.va + h.n
  PROVE  g = h
<1>1. /\ g.va \in HeapPages /\ h.va \in HeapPages /\ g.n \in 1..HeapMax /\ h.n \in 1..HeapMax
      /\ g = [va |-> g.va, n |-> g.n] /\ h = [va |-> h.va, n |-> h.n]
  BY DEF Spans
<1>2. /\ g.va \in Nat /\ h.va \in Nat /\ g.n \in Nat \ {0} /\ h.n \in Nat \ {0}
      /\ Start <= g.va /\ Start <= h.va /\ Start \in Nat /\ 2 <= Start
  BY <1>1, PageNumbers
<1>3. ~(g.va < h.va)
  <2> SUFFICES ASSUME g.va < h.va PROVE FALSE
    OBVIOUS
  <2>1. h.va - 1 \in Extent(g.va, g.n)
    BY <1>2 DEF Extent
  <2>2. ~Mapped(h.va - 1)
    BY <2>1 DEF RunAt, Empty
  <2> QED BY <1>2, <2>2 DEF RunAt
<1>4. ~(h.va < g.va)
  <2> SUFFICES ASSUME h.va < g.va PROVE FALSE
    OBVIOUS
  <2>1. g.va - 1 \in Extent(h.va, h.n)
    BY <1>2 DEF Extent
  <2>2. ~Mapped(g.va - 1)
    BY <2>1 DEF RunAt, Empty
  <2> QED BY <1>2, <2>2 DEF RunAt
<1>5. g.va = h.va /\ g.n = h.n
  BY <1>2, <1>3, <1>4
<1> QED BY <1>1, <1>5

(* A run that ends at page v is the one that is open there.                *)
LEMMA RunsTo ==
  ASSUME NEW v \in Nat, NEW s \in Record, Open(s, v), NEW h \in Spans, RunAt(h),
         h.va + h.n = v
  PROVE  s.run # 0 /\ h = [va |-> s.start, n |-> s.run]
<1>1. /\ h.va \in Nat /\ h.n \in Nat \ {0} /\ Start <= h.va /\ Start \in Nat
      /\ v - 1 \in Extent(h.va, h.n)
  <2>1. h.va \in HeapPages /\ h.n \in 1..HeapMax
    BY DEF Spans
  <2> QED BY <2>1, PageNumbers DEF Extent
<1>2. ~Mapped(v - 1) /\ v # Start
  BY <1>1 DEF RunAt, Empty
<1>3. s.run # 0
  BY <1>2 DEF Open
<1> DEFINE g == [va |-> s.start, n |-> s.run]
<1>4. g \in Spans /\ RunAt(g) /\ g.va + g.n = v
  BY <1>3 DEF Open
<1> HIDE DEF g
<1>5. h = g
  BY <1>4, OneRun
<1> QED BY <1>3, <1>5 DEF g

(* Closing a run counts it among the holes.                                *)
LEMMA CloseFits ==
  ASSUME NEW n \in Nat \ {0}, NEW v \in Nat, NEW s \in Record, Open(s, v),
         ExactOf(s, Past(v), n), WorstOf(s, Past(v), n)
  PROVE  /\ ExactOf(Close(s, n), With(s, Past(v)), n)
         /\ WorstOf(Close(s, n), With(s, Past(v)), n)
<1> DEFINE c == Close(s, n)
           P == Past(v)
           o == [va |-> s.start, n |-> s.run]
<1>1. /\ c.exact = IF s.run = n /\ s.exact = Null THEN s.start ELSE s.exact
      /\ c.worst = IF s.run >= n /\ s.run > s.longest THEN s.start ELSE s.worst
      /\ c.longest = IF s.run >= n /\ s.run > s.longest THEN s.run ELSE s.longest
      /\ s.run \in Nat /\ s.start \in Nat /\ s.longest \in Nat /\ s.exact \in Nat
  BY DEF Close, Record
<1>2. \A h \in P : /\ h.va \in Nat /\ h.n \in Nat \ {0} /\ h.va >= Start /\ h.va # Null
                   /\ h.va + h.n < v
  BY PageNumbers DEF Past, Spans, Null
<1>3. CASE s.run = 0
  <2>1. With(s, P) = P /\ c.exact = s.exact /\ c.worst = s.worst /\ c.longest = s.longest
    BY <1>1, <1>3 DEF With
  <2> HIDE DEF c, P
  <2> QED BY <2>1 DEF ExactOf, WorstOf, c, P
<1>4. CASE s.run # 0
  <2>1. /\ o \in Spans /\ RunAt(o) /\ o.va = s.start /\ o.n = s.run /\ o.va + o.n = v
        /\ With(s, P) = P \cup {o}
    BY <1>4 DEF Open, With
  <2>2. \A h \in P : h.va < o.va
    <3> SUFFICES ASSUME NEW h \in P PROVE h.va < o.va
      OBVIOUS
    <3>1. Mapped(h.va + h.n) /\ h.va + h.n < v
      BY DEF Past
    <3>2. h.va + h.n \notin Extent(o.va, o.n)
      BY <2>1, <3>1 DEF RunAt, Empty
    <3>3. h.va + h.n < o.va
      BY <1>1, <1>2, <2>1, <3>1, <3>2 DEF Extent
    <3> QED BY <1>1, <1>2, <2>1, <3>3
  <2> HIDE DEF c, P, o
  <2>3. ExactOf(s, P, n) /\ WorstOf(s, P, n)
    BY DEF P
  <2>4. ExactOf(c, P \cup {o}, n)
    <3>1. CASE s.exact = Null /\ \A h \in P : h.n # n
      BY <1>1, <2>1, <3>1 DEF ExactOf
    <3>2. CASE \E h \in P : /\ h.n = n /\ s.exact = h.va
                            /\ \A g \in P : g.n = n => h.va <= g.va
      <4>1. PICK h \in P : h.n = n /\ s.exact = h.va /\ \A g \in P : g.n = n => h.va <= g.va
        BY <3>2
      <4>2. c.exact = h.va
        BY <1>1, <1>2, <4>1
      <4>3. h.va <= o.va
        BY <1>1, <1>2, <2>1, <2>2
      <4> QED BY <4>1, <4>2, <4>3 DEF ExactOf
    <3> QED BY <2>3, <3>1, <3>2 DEF ExactOf
  <2>5. WorstOf(c, P \cup {o}, n)
    <3>1. CASE s.worst = Null /\ s.longest = 0 /\ \A h \in P : h.n < n
      <4>1. CASE s.run >= n
        <5>1. c.worst = o.va /\ c.longest = o.n /\ o.n >= n
          BY <1>1, <2>1, <3>1, <4>1
        <5>2. \A g \in P \cup {o} : g.n <= o.n /\ (g.n = o.n => o.va <= g.va)
          BY <1>1, <1>2, <2>1, <3>1, <4>1
        <5> QED BY <5>1, <5>2 DEF WorstOf
      <4>2. CASE ~(s.run >= n)
        BY <1>1, <2>1, <3>1, <4>2 DEF WorstOf
      <4> QED BY <4>1, <4>2
    <3>2. CASE \E h \in P : /\ h.n >= n /\ s.worst = h.va /\ s.longest = h.n
                            /\ \A g \in P : g.n <= h.n /\ (g.n = h.n => h.va <= g.va)
      <4>1. PICK h \in P : /\ h.n >= n /\ s.worst = h.va /\ s.longest = h.n
                           /\ \A g \in P : g.n <= h.n /\ (g.n = h.n => h.va <= g.va)
        BY <3>2
      <4>2. CASE s.run > h.n
        <5>1. c.worst = o.va /\ c.longest = o.n /\ o.n >= n
          BY <1>1, <1>2, <2>1, <4>1, <4>2
        <5>2. \A g \in P \cup {o} : g.n <= o.n /\ (g.n = o.n => o.va <= g.va)
          BY <1>1, <1>2, <2>1, <4>1, <4>2
        <5> QED BY <5>1, <5>2 DEF WorstOf
      <4>3. CASE ~(s.run > h.n)
        <5>1. c.worst = h.va /\ c.longest = h.n
          BY <1>1, <4>1, <4>3
        <5>2. \A g \in P \cup {o} : g.n <= h.n /\ (g.n = h.n => h.va <= g.va)
          BY <1>1, <1>2, <2>1, <2>2, <4>1, <4>3
        <5> QED BY <4>1, <5>1, <5>2 DEF WorstOf
      <4> QED BY <4>2, <4>3
    <3> QED BY <2>3, <3>1, <3>2 DEF WorstOf
  <2> QED BY <2>1, <2>4, <2>5 DEF P, c
<1> QED BY <1>3, <1>4

\* What the search knows at page v is so.
Searching(s, v, n) ==
  s \in Record /\ Open(s, v) /\ ExactOf(s, Past(v), n) /\ WorstOf(s, Past(v), n)

(* One more page.                                                          *)
LEMMA SearchOn ==
  ASSUME NEW n \in Nat \ {0}, NEW v \in Nat, Start <= v, v < HeapMax, NEW s,
         Searching(s, v, n)
  PROVE  Searching(IF Mapped(v) THEN Close(s, n) ELSE Longer(s, v), v + 1, n)
<1>1. /\ s \in Record /\ Open(s, v) /\ ExactOf(s, Past(v), n) /\ WorstOf(s, Past(v), n)
      /\ v \in HeapPages /\ HeapMax \in Nat /\ 2 <= Start /\ Start \in Nat
  BY PageNumbers DEF Searching
<1> DEFINE o == [va |-> s.start, n |-> s.run]
<1>2. Past(v) \subseteq Past(v + 1)
  BY PageNumbers DEF Past, Spans
<1>3. \A h \in Past(v + 1) : h \in Past(v) \/ (h.va + h.n = v /\ Mapped(v) /\ RunAt(h))
  BY PageNumbers DEF Past, Spans
<1>4. CASE Mapped(v)
  <2> DEFINE r == Close(s, n)
  <2>1. Past(v + 1) = With(s, Past(v))
    <3>1. ASSUME NEW h \in Past(v + 1) PROVE h \in With(s, Past(v))
      <4>1. CASE h \in Past(v)
        BY <4>1 DEF With
      <4>2. CASE h.va + h.n = v /\ RunAt(h)
        <5>1. h \in Spans
          BY DEF Past
        <5> QED BY <1>1, <4>2, <5>1, RunsTo DEF With
      <4> QED BY <1>3, <4>1, <4>2
    <3>2. s.run # 0 => o \in Past(v + 1)
      <4> SUFFICES ASSUME s.run # 0 PROVE o \in Past(v + 1)
        OBVIOUS
      <4>1. o \in Spans /\ RunAt(o) /\ o.va + o.n = v
        BY <1>1 DEF Open
      <4> HIDE DEF o
      <4> QED BY <1>4, <4>1 DEF Past
    <3> QED BY <1>2, <3>1, <3>2 DEF With
  <2>2. ExactOf(r, Past(v + 1), n) /\ WorstOf(r, Past(v + 1), n)
    BY <1>1, <2>1, CloseFits
  <2>3. r \in Record /\ r.run = 0
    BY <1>1, CloseRecord DEF Close
  <2>4. Open(r, v + 1)
    BY <1>4, <2>3 DEF Open
  <2> QED BY <1>4, <2>2, <2>3, <2>4 DEF Searching
<1>5. CASE ~Mapped(v)
  <2> DEFINE r == Longer(s, v)
  <2>1. /\ r \in Record /\ r.exact = s.exact /\ r.worst = s.worst /\ r.longest = s.longest
        /\ r.run = s.run + 1 /\ r.start = IF s.run = 0 THEN v ELSE s.start
    BY <1>1, LongerRecord
  <2> HIDE DEF r
  <2>2. Past(v + 1) = Past(v)
    BY <1>2, <1>3, <1>5
  <2>3. ExactOf(r, Past(v + 1), n) /\ WorstOf(r, Past(v + 1), n)
    BY <1>1, <2>1, <2>2 DEF ExactOf, WorstOf
  <2>4. Open(r, v + 1)
    <3> DEFINE q == [va |-> r.start, n |-> r.run]
    <3>1. r.run # 0 /\ q.va = r.start /\ q.n = r.run
      BY <1>1, <2>1 DEF Record
    <3>2. CASE s.run = 0
      <4>1. q.va = v /\ q.n = 1 /\ q \in Spans /\ r.start + r.run = v + 1
        BY <1>1, <2>1, <3>2 DEF Spans
      <4>2. Extent(v, 1) = {v}
        BY DEF Extent
      <4>3. v = Start \/ Mapped(v - 1)
        BY <1>1, <3>2 DEF Open
      <4> HIDE DEF q
      <4>4. RunAt(q)
        BY <1>5, <4>1, <4>2, <4>3 DEF RunAt, Empty
      <4> QED BY <3>1, <4>1, <4>4 DEF Open, q
    <3>3. CASE s.run # 0
      <4>1. o \in Spans /\ s.start + s.run = v /\ RunAt(o) /\ o.va = s.start /\ o.n = s.run
        BY <1>1, <3>3 DEF Open
      <4>2. s.start \in HeapPages /\ s.run \in Nat /\ s.start \in Nat
        BY <1>1, <4>1 DEF Spans, Record
      <4>3. q.va = s.start /\ q.n = s.run + 1 /\ r.start + r.run = v + 1
        BY <1>1, <2>1, <3>3, <4>1, <4>2
      <4>4. q \in Spans
        BY <1>1, <4>1, <4>2, <4>3 DEF Spans
      <4>5. Extent(s.start, s.run + 1) = Extent(s.start, s.run) \cup {v}
        BY <4>1, <4>2 DEF Extent
      <4> HIDE DEF q, o
      <4>6. RunAt(q)
        BY <1>5, <4>1, <4>3, <4>5 DEF RunAt, Empty
      <4> QED BY <3>1, <4>3, <4>4, <4>6 DEF Open, q
    <3> QED BY <3>2, <3>3
  <2> QED BY <1>5, <2>1, <2>3, <2>4 DEF Searching, r
<1> QED BY <1>4, <1>5

(* The search finds the right candidates among the holes below the break.  *)
LEMMA Searched ==
  ASSUME NEW n \in Nat \ {0}, brk \in Start..HeapMax
  PROVE  ExactOf(Search(n), Holes, n) /\ WorstOf(Search(n), Holes, n)
<1> DEFINE scan == CHOOSE s : s = [v \in Start..HeapMax |->
                     IF v = Start THEN Nothing ELSE Further(s[v - 1], v, n)]
<1>0. Start \in Nat /\ HeapMax \in Nat /\ Start <= HeapMax /\ 2 <= Start
  BY PageNumbers
<1>1. scan = [v \in Start..HeapMax |->
                IF v = Start THEN Nothing ELSE Further(scan[v - 1], v, n)]
  <2> DEFINE k == HeapMax - Start
  <2>1. k \in Nat /\ Start + k = HeapMax
    BY <1>0
  <2>2. \E s : s = [v \in Start..(Start + k) |->
                     IF v = Start THEN Nothing ELSE Further(s[v - 1], v, n)]
    <3> HIDE DEF k
    <3> QED BY <2>1, ScanSteps
  <2> QED BY <2>1, <2>2
<1>2. Search(n) = Close(scan[brk], n)
  BY DEF Search, Nothing, Further, Longer
<1> HIDE DEF scan
<1> DEFINE T == {k \in Nat : Start + k <= HeapMax => Searching(scan[Start + k], Start + k, n)}
<1>3. 0 \in T
  <2>1. Start + 0 = Start /\ Start \in Start..HeapMax
    BY <1>0
  <2>2. scan[Start + 0] = Nothing
    BY <1>1, <2>1
  <2>3. Past(Start) = {}
    BY PageNumbers DEF Past, Spans
  <2>4. Nothing \in Record /\ Open(Nothing, Start)
    BY DEF Nothing, Record, Open, Null
  <2>5. ExactOf(Nothing, {}, n) /\ WorstOf(Nothing, {}, n)
    BY DEF Nothing, ExactOf, WorstOf
  <2> QED BY <2>1, <2>2, <2>3, <2>4, <2>5 DEF Searching
<1>4. ASSUME NEW k \in T PROVE k + 1 \in T
  <2> SUFFICES ASSUME Start + (k + 1) <= HeapMax
               PROVE  Searching(scan[Start + (k + 1)], Start + (k + 1), n)
    OBVIOUS
  <2> DEFINE v == Start + k
             s == scan[v]
             r == scan[v + 1]
  <2>1. /\ v \in Nat /\ Start <= v /\ v < HeapMax /\ v + 1 = Start + (k + 1)
        /\ v + 1 \in Start..HeapMax /\ v + 1 # Start /\ (v + 1) - 1 = v
    BY <1>0
  <2>2. Searching(s, v, n)
    BY <1>0
  <2>3. r = IF Mapped(v) THEN Close(s, n) ELSE Longer(s, v)
    BY <1>1, <2>1 DEF Further
  <2> SUFFICES Searching(r, v + 1, n)
    BY <2>1
  <2> HIDE DEF v, s, r, T
  <2> QED BY <2>1, <2>2, <2>3, SearchOn
<1>5. Nat = T
  <2>1. T \in SUBSET Nat
    OBVIOUS
  <2> HIDE DEF T
  <2> QED BY <1>3, <1>4, <2>1, Induct
<1> DEFINE s == scan[brk]
<1>6. Searching(s, brk, n)
  <2>1. brk - Start \in T /\ Start + (brk - Start) = brk /\ brk <= HeapMax
    <3> HIDE DEF T
    <3> QED BY <1>0, <1>5
  <2> QED BY <2>1
<1> HIDE DEF T, s
<1>7. s \in Record /\ Open(s, brk) /\ brk \in Nat
  BY <1>0, <1>6 DEF Searching
<1>8. Holes = With(s, Past(brk))
  <2>1. ASSUME NEW h \in Holes PROVE h \in With(s, Past(brk))
    <3>1. /\ h \in Spans /\ RunAt(h) /\ h.va + h.n <= brk
          /\ h.va + h.n = brk \/ Mapped(h.va + h.n)
      BY DEF Holes, Spans, RunAt, Empty
    <3>2. h.va \in Nat /\ h.n \in Nat
      BY <3>1, PageNumbers DEF Spans
    <3>3. CASE h.va + h.n = brk
      BY <1>7, <3>1, <3>3, RunsTo DEF With
    <3>4. CASE h.va + h.n # brk
      <4>1. h.va + h.n < brk
        BY <1>7, <3>1, <3>2, <3>4
      <4> QED BY <3>1, <3>4, <4>1 DEF Past, With
    <3> QED BY <3>3, <3>4
  <2>2. ASSUME NEW h \in Past(brk) PROVE h \in Holes
    <3>1. h \in Spans /\ h.va + h.n < brk /\ RunAt(h) /\ Mapped(h.va + h.n)
      BY DEF Past
    <3>2. h.va \in Nat /\ h.n \in Nat
      BY <3>1, PageNumbers DEF Spans
    <3>3. h.va + h.n <= brk
      BY <1>7, <3>1, <3>2
    <3> QED BY <3>1, <3>3 DEF Holes, Spans, RunAt, Empty
  <2>3. s.run # 0 => [va |-> s.start, n |-> s.run] \in Holes
    <3> DEFINE h == [va |-> s.start, n |-> s.run]
    <3> SUFFICES ASSUME s.run # 0 PROVE h \in Holes
      OBVIOUS
    <3>1. h \in Spans /\ RunAt(h) /\ h.va + h.n = brk
      BY <1>7 DEF Open
    <3> HIDE DEF h
    <3> QED BY <1>7, <3>1 DEF Holes, Spans, RunAt, Empty
  <2> QED BY <2>1, <2>2, <2>3 DEF With
<1>9. ExactOf(Close(s, n), With(s, Past(brk)), n) /\ WorstOf(Close(s, n), With(s, Past(brk)), n)
  BY <1>6, <1>7, CloseFits DEF Searching
<1> QED BY <1>2, <1>8, <1>9 DEF s

(* kmalloc takes pages that nobody has: of a hole below the break, or from *)
(* the break on.                                                           *)
LEMMA PlaceFree ==
  ASSUME NEW n \in Nat \ {0}, brk \in Start..HeapMax
  PROVE  \/ Place(n) = brk
         \/ /\ Place(n) \in Nat /\ Start <= Place(n) /\ Place(n) + n <= brk
            /\ Empty(Place(n), n)
<1> DEFINE v == Place(n)
<1>1. ASSUME NEW h \in Holes, h.n >= n, v = h.va
      PROVE  v \in Nat /\ Start <= v /\ v + n <= brk /\ Empty(v, n)
  <2> HIDE DEF v
  <2>1. /\ h.va \in HeapPages /\ h.n \in Nat /\ h.va + h.n <= brk /\ Empty(h.va, h.n)
        /\ brk \in Nat /\ h.va \in Nat /\ Start <= h.va
    BY PageNumbers DEF Holes, Empty
  <2>2. Extent(v, n) \subseteq Extent(h.va, h.n)
    BY <1>1, <2>1 DEF Extent
  <2> QED BY <1>1, <2>1, <2>2 DEF Empty
<1>2. CASE Search(n).exact # Null
  <2>1. PICK h \in Holes : h.n = n /\ v = h.va
    BY <1>2, Searched DEF ExactOf, Place
  <2> QED BY <1>1, <2>1
<1>3. CASE Search(n).exact = Null /\ Search(n).worst # Null
  <2>1. PICK h \in Holes : h.n >= n /\ v = h.va
    BY <1>3, Searched DEF WorstOf, Place
  <2> QED BY <1>1, <2>1
<1>4. CASE Search(n).exact = Null /\ Search(n).worst = Null
  BY <1>4 DEF Place
<1> QED BY <1>2, <1>3, <1>4

(* The break comes down to the highest mapped page.                        *)
LEMMA Lowered ==
  ASSUME NEW m, brk \in Start..HeapMax
  PROVE  LET v == LowerBreak(m)
         IN  /\ v \in Start..brk
             /\ \A w \in v..(brk - 1) : m.pt[w] = NoFrame
             /\ v = Start \/ m.pt[v - 1] # NoFrame
<1> DEFINE Above(v) == \A w \in v..(brk - 1) : m.pt[w] = NoFrame
           Right(v) == Above(v) /\ (v = Start \/ m.pt[v - 1] # NoFrame)
           T == {k \in Nat : Start + k <= brk /\ Above(Start + k)
                               => \E v \in Start..brk : Right(v)}
<1>0. Start \in Nat /\ HeapMax \in Nat
  BY PageNumbers
<1>1. 0 \in T
  <2>1. Start + 0 = Start /\ Start \in Start..brk
    BY <1>0
  <2> QED BY <2>1
<1>2. ASSUME NEW k \in T PROVE k + 1 \in T
  <2> SUFFICES ASSUME Start + (k + 1) <= brk, Above(Start + (k + 1))
               PROVE  \E v \in Start..brk : Right(v)
    OBVIOUS
  <2>1. /\ Start + (k + 1) \in Start..brk /\ (Start + (k + 1)) - 1 = Start + k
        /\ Start + k <= brk
    BY <1>0
  <2>2. CASE m.pt[Start + k] = NoFrame
    <3>1. Above(Start + k)
      <4> SUFFICES ASSUME NEW w \in (Start + k)..(brk - 1) PROVE m.pt[w] = NoFrame
        OBVIOUS
      <4>1. w = Start + k \/ w \in (Start + (k + 1))..(brk - 1)
        BY <1>0
      <4> QED BY <2>2, <4>1
    <3> HIDE DEF Above, Right
    <3> QED BY <2>1, <3>1
  <2>3. CASE m.pt[Start + k] # NoFrame
    <3>1. Right(Start + (k + 1))
      BY <2>1, <2>3
    <3> HIDE DEF Right
    <3> QED BY <2>1, <3>1
  <2> QED BY <2>2, <2>3
<1>3. Nat = T
  <2>1. T \in SUBSET Nat
    OBVIOUS
  <2> HIDE DEF T
  <2> QED BY <1>1, <1>2, <2>1, Induct
<1>4. \E v \in Start..brk : Right(v)
  <2>1. brk - Start \in Nat /\ Start + (brk - Start) = brk
    BY <1>0
  <2>2. Above(brk)
    BY <1>0
  <2>3. brk - Start \in T
    <3> HIDE DEF T
    <3> QED BY <1>3, <2>1
  <2> HIDE DEF Above, Right
  <2> QED BY <1>0, <2>1, <2>2, <2>3
<1>5. LowerBreak(m) \in Start..brk /\ Right(LowerBreak(m))
  BY <1>4 DEF LowerBreak
<1> QED BY <1>5
----------------------------------------------------------------------------
(* The steps.                                                              *)

(* The allocations lie between the start of the heap and the break.        *)
LEMMA LiveBelow ==
  ASSUME IInv, ~lock
  PROVE  /\ brk \in Nat /\ Start <= brk /\ brk <= HeapMax
         /\ \A a \in live :
              /\ a.va \in HeapPages /\ a.n \in Requests /\ a.va \in Nat /\ a.n \in Nat \ {0}
              /\ Start <= a.va /\ a.va + a.n <= brk
              /\ PagesOf(a) \subseteq HeapPages
              /\ \A w \in PagesOf(a) : w < brk
<1>1. brk \in Nat /\ Start <= brk /\ brk <= HeapMax
  BY PageNumbers DEF IInv, TypeOK
<1>2. ASSUME NEW a \in live
      PROVE  /\ a.va \in HeapPages /\ a.n \in Requests /\ a.va \in Nat /\ a.n \in Nat \ {0}
             /\ Start <= a.va /\ a.va + a.n <= brk
  <2>1. a.va \in HeapPages /\ a.n \in Requests /\ a.va + a.n <= brk
    BY DEF IInv, TypeOK, HeapInv
  <2> QED BY <2>1, PageNumbers
<1>3. ASSUME NEW a \in live, NEW w \in PagesOf(a) PROVE w \in HeapPages /\ w < brk
  <2>1. w \in Nat /\ a.va <= w /\ w < a.va + a.n
    BY <1>2 DEF PagesOf, Extent
  <2> QED BY <1>1, <1>2, <2>1, PageNumbers
<1> QED BY <1>1, <1>2, <1>3

(* Where kmalloc goes there is nobody.                                     *)
LEMMA PlaceInHeap ==
  ASSUME IInv, ~lock, NEW n \in Requests, ~Refused(n)
  PROVE  LET v == Place(n)
         IN  /\ v \in Nat /\ n \in Nat \ {0} /\ Start <= v /\ v + n < HeapMax
             /\ v # brk => v + n <= brk
             /\ Extent(v, n) \subseteq HeapPages
             /\ \A w \in Extent(v, n) : w \in Slots /\ ~Mapped(w)
<1> DEFINE v == Place(n)
<1>1. brk \in Nat /\ brk \in Start..HeapMax /\ brk + n < HeapMax /\ n \in Nat \ {0} /\ HeapInv
  BY LiveBelow, PageNumbers DEF Refused, IInv, TypeOK
<1>2. v = brk \/ (v \in Nat /\ Start <= v /\ v + n <= brk /\ Empty(v, n))
  BY <1>1, PlaceFree
<1> HIDE DEF v
<1>3. v \in Nat /\ Start <= v /\ v + n < HeapMax /\ (v # brk => v + n <= brk)
  BY <1>1, <1>2, PageNumbers
<1>4. Extent(v, n) \subseteq HeapPages /\ HeapPages \subseteq Slots
  BY <1>1, <1>3, PageNumbers DEF Extent
<1>5. ASSUME NEW w \in Extent(v, n) PROVE ~Mapped(w)
  <2>1. CASE v = brk
    <3>1. w \in HeapPages /\ w \in Nat /\ ~(w < brk)
      BY <1>1, <1>4, <2>1 DEF Extent
    <3>2. \A a \in live : w \notin PagesOf(a)
      BY <3>1, LiveBelow
    <3> QED BY <1>1, <3>1, <3>2 DEF HeapInv
  <2>2. CASE v # brk
    BY <1>2, <2>2 DEF Empty
  <2> QED BY <2>1, <2>2
<1>6. \A w \in Extent(v, n) : w \in Slots /\ ~Mapped(w)
  BY <1>4, <1>5
<1> QED BY <1>1, <1>3, <1>4, <1>6 DEF v

(* The heap's part of the invariant looks at the heap's pages only.        *)
LEMMA HeapKept ==
  ASSUME IInv, ~lock, UNCHANGED <<brk, allocatedSize, live>>,
         \A v \in HeapPages : mem'.pt[v] = mem.pt[v]
  PROVE  HeapInv'
<1> USE DEF IInv, TypeOK
<1>1. \A a \in live : PagesOf(a) \subseteq HeapPages
  BY LiveBelow
<1>2. brk > Start => brk - 1 \in HeapPages
  BY PageNumbers
<1>3. \A v \in HeapPages : Mapped(v)' <=> Mapped(v)
  BY DEF Mapped
<1>4. \A a : PagesOf(a)' = PagesOf(a)
  BY DEF PagesOf
<1> QED BY <1>1, <1>2, <1>3, <1>4 DEF HeapInv

(* The block allocator and the user programs have pages of their own.      *)
LEMMA OtherPages ==
  ASSUME IInv, NEW s \in BlockPages \cup UserPages,
         \/ ~Mapped(s) /\ Free(1) /\ mem' = alloc_page(mem, s, s)
         \/ mem' = unmap_frame(mem, s),
         UNCHANGED <<brk, allocatedSize, lock, live>>, ret' \in {ret, NoCall}
  PROVE  IInv'
<1> USE DEF IInv
<1>1. s \in Slots /\ s \notin HeapPages /\ HeapPages \subseteq Slots
  BY PageNumbers
<1>2. MemInv(mem') /\ \A t \in Slots \ {s} : mem'.pt[t] = mem.pt[t]
  <2>1. CASE ~Mapped(s) /\ Free(1) /\ mem' = alloc_page(mem, s, s)
    <3>1. mem.free # <<>> /\ mem.pt[s] = NoFrame
      BY <2>1 DEF Free, Mapped
    <3> QED BY <1>1, <2>1, <3>1, AllocOne
  <2>2. CASE mem' = unmap_frame(mem, s)
    BY <1>1, <2>2, UnmapOne
  <2> QED BY <2>1, <2>2
<1>3. TypeOK'
  BY <1>2 DEF TypeOK, MemInv, NoCall, Null
<1>4. ~lock => HeapInv'
  BY <1>1, <1>2, HeapKept
<1>5. MemInv(mem)'
  BY <1>2
<1> QED BY <1>3, <1>4, <1>5

(* An allocation takes free pages, below the break or from it on.          *)
LEMMA AllocateStep ==
  ASSUME IInv, NEW n \in Requests, Allocate(n)
  PROVE  IInv'
<1> USE DEF IInv
<1> DEFINE v == Place(n)
           new == [va |-> v, n |-> n]
<1>1. /\ mem' = MapPages(v, n) /\ live' = live \cup {new} /\ lock' = lock /\ ~lock
      /\ allocatedSize' = [w \in HeapPages |->
                             IF w \in Extent(v, n) THEN n ELSE allocatedSize[w]]
      /\ brk' = IF v = brk THEN brk + n ELSE brk
      /\ ret' = [n |-> n, va |-> v] /\ n <= Len(mem.free) /\ brk + n < HeapMax
      /\ n \in Nat \ {0} /\ brk \in Start..HeapMax /\ HeapInv /\ MemInv(mem)
  BY PageNumbers DEF Allocate, Refused, Free, Unlocked, TypeOK
<1>2. /\ v \in Nat /\ Start <= v /\ v + n < HeapMax /\ (v # brk => v + n <= brk)
      /\ Extent(v, n) \subseteq HeapPages /\ \A w \in Extent(v, n) : w \in Slots /\ ~Mapped(w)
  BY <1>1, PlaceInHeap DEF Allocate
<1> HIDE DEF v
<1>3. v + n <= brk' /\ v \in Extent(v, n)
  BY <1>1, <1>2, PageNumbers DEF Extent
<1>6. /\ MemInv(mem')
      /\ \A w \in Extent(v, n) : mem'.pt[w] # NoFrame
      /\ \A t \in Slots \ Extent(v, n) : mem'.pt[t] = mem.pt[t]
  BY <1>1, <1>2, MappedPages
<1>7. TypeOK'
  BY <1>1, <1>2, <1>3, <1>6, PageNumbers DEF TypeOK, MemInv
<1>8. HeapInv'
  <2>1. PagesOf(new) = Extent(v, n) /\ new.va = v /\ new.n = n
    BY DEF PagesOf
  <2>2. \A a \in live : PagesOf(a) \cap Extent(v, n) = {}
    BY <1>1, <1>2 DEF HeapInv
  <2>3. \A w \in HeapPages \ Extent(v, n) :
          /\ mem'.pt[w] = mem.pt[w] /\ allocatedSize'[w] = allocatedSize[w]
    BY <1>1, <1>6, PageNumbers
  <2>4. \A w \in Extent(v, n) : mem'.pt[w] # NoFrame /\ allocatedSize'[w] = n
    BY <1>1, <1>2, <1>6
  <2>5. \A a \in live : PagesOf(a) \subseteq HeapPages /\ a.va \in Nat /\ a.n \in Nat
    BY <1>1, LiveBelow
  <2> HIDE DEF new
  <2>6. \A a \in live' : a.va + a.n <= brk'
    BY <1>1, <1>3, <2>1, <2>5 DEF HeapInv
  <2>7. \A a, b \in live' : a # b => PagesOf(a) \cap PagesOf(b) = {}
    BY <1>1, <2>1, <2>2 DEF HeapInv
  <2>8. \A a \in live' : \A w \in PagesOf(a) : mem'.pt[w] # NoFrame /\ allocatedSize'[w] = a.n
    <3> SUFFICES ASSUME NEW a \in live', NEW w \in PagesOf(a)
                 PROVE  mem'.pt[w] # NoFrame /\ allocatedSize'[w] = a.n
      OBVIOUS
    <3>1. CASE a = new
      BY <2>1, <2>4, <3>1
    <3>2. CASE a \in live
      <4>1. w \in HeapPages \ Extent(v, n)
        BY <2>2, <2>5, <3>2
      <4>2. Mapped(w) /\ allocatedSize[w] = a.n
        BY <1>1, <3>2 DEF HeapInv
      <4> QED BY <2>3, <4>1, <4>2 DEF Mapped
    <3> QED BY <1>1, <3>1, <3>2
  <2>9. \A w \in HeapPages : (\A a \in live' : w \notin PagesOf(a))
                                => mem'.pt[w] = NoFrame /\ allocatedSize'[w] = 0
    <3> SUFFICES ASSUME NEW w \in HeapPages, \A a \in live' : w \notin PagesOf(a)
                 PROVE  mem'.pt[w] = NoFrame /\ allocatedSize'[w] = 0
      OBVIOUS
    <3>1. w \notin Extent(v, n) /\ \A a \in live : w \notin PagesOf(a)
      BY <1>1, <2>1
    <3> QED BY <1>1, <2>3, <3>1 DEF HeapInv, Mapped
  <2>10. brk' > Start => mem'.pt[brk' - 1] # NoFrame
    <3>1. CASE v = brk
      <4>1. brk' - 1 \in Extent(v, n)
        BY <1>1, <1>2, <3>1 DEF Extent
      <4> QED BY <1>6, <4>1
    <3>2. CASE v # brk
      <4>1. brk' = brk /\ brk > Start /\ brk - 1 \in HeapPages
        BY <1>1, <1>2, <3>2, PageNumbers, SMTT(30)
      <4>2. Mapped(brk - 1)
        BY <1>1, <4>1 DEF HeapInv
      <4>3. brk - 1 \notin Extent(v, n)
        BY <1>2, <4>2
      <4> QED BY <2>3, <4>1, <4>2, <4>3 DEF Mapped
    <3> QED BY <3>1, <3>2
  <2>11. \A a : PagesOf(a)' = PagesOf(a)
    BY DEF PagesOf
  <2> QED BY <2>6, <2>7, <2>8, <2>9, <2>10, <2>11 DEF HeapInv, Mapped
<1>9. MemInv(mem)'
  BY <1>6
<1> QED BY <1>7, <1>8, <1>9

(* The frames run out in the middle: what was mapped stays so.             *)
LEMMA ExhaustStep ==
  ASSUME IInv, NEW n \in Requests, Exhaust(n)
  PROVE  IInv'
<1> USE DEF IInv
<1> DEFINE v == Place(n)
           k == Len(mem.free)
<1>1. /\ mem' = MapPages(v, k) /\ lock' = TRUE /\ ~lock /\ brk + n < HeapMax
      /\ UNCHANGED <<brk, allocatedSize, live, ret>>
      /\ n \in Nat \ {0} /\ brk \in Start..HeapMax /\ HeapInv /\ MemInv(mem)
      /\ k \in Nat /\ k < n
  BY PageNumbers DEF Exhaust, Refused, Free, Unlocked, TypeOK, IsMemory
<1>2. /\ v \in Nat /\ v + n < HeapMax
      /\ \A w \in Extent(v, n) : w \in Slots /\ ~Mapped(w)
  BY <1>1, PlaceInHeap DEF Exhaust
<1> HIDE DEF v, k
<1>6. MemInv(mem')
  <2>1. \A w \in Extent(v, k) : w \in Slots /\ ~Mapped(w)
    BY <1>1, <1>2 DEF Extent
  <2>2. k <= Len(mem.free)
    BY <1>1 DEF k
  <2> QED BY <1>1, <1>2, <2>1, <2>2, MappedPages
<1>7. TypeOK'
  BY <1>1, <1>6 DEF TypeOK, MemInv
<1>8. MemInv(mem)'
  BY <1>6
<1> QED BY <1>1, <1>7, <1>8
(* A caller gives its pages back, and the break comes down.                *)
LEMMA FreeStep ==
  ASSUME IInv, NEW a \in live, kfree(a)
  PROVE  IInv'
<1> USE DEF IInv
<1>1. /\ ~lock /\ lock' = lock /\ HeapInv /\ MemInv(mem) /\ live' = live \ {a}
      /\ ret' = NoCall /\ brk' = LowerBreak(mem') /\ brk \in Start..HeapMax
  BY DEF kfree, Unlocked, TypeOK
<1>2. /\ brk \in Nat /\ a.va \in HeapPages /\ a.va \in Nat /\ a.n \in Nat \ {0}
      /\ a.va + a.n <= brk /\ PagesOf(a) \subseteq HeapPages
  BY <1>1, LiveBelow
<1>3. allocatedSize[a.va] = a.n
  <2>1. a.va \in PagesOf(a)
    BY <1>2 DEF PagesOf, Extent
  <2> QED BY <1>1, <2>1 DEF HeapInv
<1>4. /\ mem' = UnmapPages(a.va, a.n)
      /\ allocatedSize' = [w \in HeapPages |->
                             IF w \in PagesOf(a) THEN 0 ELSE allocatedSize[w]]
  BY <1>3 DEF kfree, ClearSizes, PagesOf
<1>5. /\ MemInv(mem')
      /\ \A w \in PagesOf(a) : mem'.pt[w] = NoFrame
      /\ \A t \in Slots \ PagesOf(a) : mem'.pt[t] = mem.pt[t]
  <2>1. Extent(a.va, a.n) \subseteq Slots
    BY <1>2, PageNumbers DEF PagesOf
  <2> QED BY <1>1, <1>2, <1>4, <2>1, UnmappedPages DEF PagesOf
<1>6. /\ brk' \in Start..brk
      /\ \A w \in brk'..(brk - 1) : mem'.pt[w] = NoFrame
      /\ brk' = Start \/ mem'.pt[brk' - 1] # NoFrame
  BY <1>1, Lowered
<1>7. TypeOK'
  <2>1. brk' \in Start..HeapMax
    BY <1>1, <1>2, <1>6, PageNumbers
  <2> QED BY <1>1, <1>4, <1>5, <2>1 DEF TypeOK, MemInv, NoCall, Null
<1>8. HeapInv'
  <2>1. \A w \in HeapPages \ PagesOf(a) :
          mem'.pt[w] = mem.pt[w] /\ allocatedSize'[w] = allocatedSize[w]
    BY <1>4, <1>5, PageNumbers
  <2>2. \A w \in PagesOf(a) : mem'.pt[w] = NoFrame /\ allocatedSize'[w] = 0
    BY <1>2, <1>4, <1>5
  <2>3. \A b \in live' : b \in live /\ PagesOf(b) \subseteq HeapPages \ PagesOf(a)
    BY <1>1, LiveBelow DEF HeapInv
  <2>4. \A b \in live' : \A w \in PagesOf(b) : mem'.pt[w] # NoFrame /\ allocatedSize'[w] = b.n
    BY <1>1, <2>1, <2>3 DEF HeapInv, Mapped
  <2>5. ASSUME NEW b \in live' PROVE b.va + b.n <= brk'
    <3>1. b.va \in Nat /\ b.n \in Nat \ {0} /\ b.va + b.n <= brk
      BY <1>1, <2>3, LiveBelow
    <3> DEFINE w == b.va + b.n - 1
    <3>2. w \in PagesOf(b) /\ w \in Nat /\ w <= brk - 1
      BY <1>2, <3>1 DEF PagesOf, Extent
    <3>3. mem'.pt[w] # NoFrame
      BY <2>4, <3>2
    <3>4. w \notin brk'..(brk - 1)
      BY <1>6, <3>3
    <3>5. brk' \in Nat
      BY <1>6, PageNumbers
    <3>6. w < brk'
      BY <1>2, <3>2, <3>4, <3>5
    <3> QED BY <3>1, <3>5, <3>6
  <2>6. \A b, c \in live' : b # c => PagesOf(b) \cap PagesOf(c) = {}
    BY <1>1 DEF HeapInv
  <2>7. ASSUME NEW w \in HeapPages, \A b \in live' : w \notin PagesOf(b)
        PROVE  mem'.pt[w] = NoFrame /\ allocatedSize'[w] = 0
    <3>1. CASE w \in PagesOf(a)
      BY <2>2, <3>1
    <3>2. CASE w \notin PagesOf(a)
      <4>1. \A b \in live : w \notin PagesOf(b)
        BY <1>1, <2>7, <3>2
      <4> QED BY <1>1, <2>1, <3>2, <4>1 DEF HeapInv, Mapped
    <3> QED BY <3>1, <3>2
  <2>8. brk' > Start => mem'.pt[brk' - 1] # NoFrame
    BY <1>6, PageNumbers
  <2>9. \A b : PagesOf(b)' = PagesOf(b)
    BY DEF PagesOf
  <2> QED BY <2>4, <2>5, <2>6, <2>7, <2>8, <2>9 DEF HeapInv, Mapped
<1>9. MemInv(mem)'
  BY <1>5
<1> QED BY <1>7, <1>8, <1>9

(* The free list that kheap_init finds has every frame, once.              *)
LEMMA InitInv == Init => IInv
<1> SUFFICES ASSUME Init PROVE IInv
  OBVIOUS
<1>1. PICK s \in SetToSeqs(Frames) : mem = InitMemory(Slots, s)
  BY DEF Init
<1> DEFINE n == Cardinality(Frames)
<1>2. IsFiniteSet(Frames) /\ n \in Nat /\ NoFrame \notin Frames
  BY KHeapAssumption, FS_CardinalityType
<1>3. /\ s \in [1..n -> Frames] /\ \A i, j \in 1..n : i # j => s[i] # s[j]
  BY DEF SetToSeqs
<1>4. s \in Seq(Frames) /\ Distinct(s) /\ DOMAIN s = 1..n
  <2> HIDE DEF n
  <2> QED BY <1>2, <1>3 DEF Distinct
<1>5. \A f \in Frames : Occurs(s, f)
  <2>1. s \in Injection(1..n, Frames)
    BY <1>3 DEF Injection, IsInjective
  <2>2. Cardinality(1..n) = n
    BY <1>2, UpTo
  <2>3. s \in Surjection(1..n, Frames)
    BY <1>2, <2>1, <2>2, FS_Injection
  <2> QED BY <1>4, <2>3 DEF Surjection, Occurs
<1>6. /\ mem.free = s /\ mem.refs = [f \in Frames |-> 0]
      /\ mem.va = [f \in Frames |-> NoVa] /\ mem.pt = [t \in Slots |-> NoFrame]
  BY <1>1 DEF InitMemory
<1>7. IsMemory(mem, Slots, Slots \cup {NoVa})
  BY <1>1, <1>4 DEF InitMemory, IsMemory
<1>8. MemInv(mem)
  BY <1>2, <1>4, <1>5, <1>6, <1>7 DEF MemInv
<1>9. TypeOK
  <2>1. ret \in [n : Requests \cup {0}, va : HeapPages \cup {Null}]
    BY DEF Init, NoCall
  <2>2. brk \in Start..HeapMax
    BY PageNumbers DEF Init
  <2> QED BY <1>7, <2>1, <2>2 DEF Init, TypeOK
<1>10. HeapInv
  BY <1>6, PageNumbers DEF Init, HeapInv, Mapped
<1> QED BY <1>8, <1>9, <1>10 DEF IInv

LEMMA NextInv == IInv /\ [Next]_vars => IInv'
<1> SUFFICES ASSUME IInv, [Next]_vars PROVE IInv'
  OBVIOUS
<1>1. ASSUME NEW n \in Requests, Refuse(n) PROVE IInv'
  <2>1. UNCHANGED <<mem, brk, allocatedSize, lock, live>> /\ ret' \in [n : {n}, va : {Null}]
    BY <1>1 DEF Refuse
  <2>2. TypeOK' /\ MemInv(mem)'
    BY <2>1 DEF IInv, TypeOK
  <2>3. ~lock => HeapInv'
    BY <2>1, HeapKept
  <2> QED BY <2>1, <2>2, <2>3 DEF IInv
<1>2. ASSUME NEW v \in 0..HeapMax, kfreeWild(v) PROVE IInv'
  <2>1. UNCHANGED <<mem, brk, allocatedSize, live>> /\ ret' = NoCall /\ ~lock /\ lock' \in BOOLEAN
    BY <1>2 DEF kfreeWild, Unlocked
  <2>2. TypeOK' /\ MemInv(mem)'
    BY <2>1 DEF IInv, TypeOK, NoCall, Null
  <2>3. HeapInv'
    BY <2>1, HeapKept
  <2> QED BY <2>1, <2>2, <2>3 DEF IInv
<1>3. ASSUME NEW v \in BlockPages, get_page(v) PROVE IInv'
  BY <1>3, OtherPages DEF get_page
<1>4. ASSUME NEW v \in BlockPages, return_page(v) PROVE IInv'
  BY <1>4, OtherPages DEF return_page
<1>5. ASSUME NEW v \in UserPages, MapUser(v) PROVE IInv'
  BY <1>5, OtherPages DEF MapUser
<1>6. ASSUME NEW v \in UserPages, UnmapUser(v) PROVE IInv'
  BY <1>6, OtherPages DEF UnmapUser
<1>7. CASE UNCHANGED vars
  <2>1. UNCHANGED <<mem, brk, allocatedSize, lock, live, ret>>
    BY <1>7 DEF vars
  <2>2. TypeOK' /\ MemInv(mem)'
    BY <2>1 DEF IInv, TypeOK
  <2>3. ~lock => HeapInv'
    BY <2>1, HeapKept
  <2> QED BY <2>1, <2>2, <2>3 DEF IInv
<1> QED BY <1>1, <1>2, <1>3, <1>4, <1>5, <1>6, <1>7, AllocateStep, ExhaustStep, FreeStep
     DEF Next, kmalloc

THEOREM Invariance == Spec => []IInv
BY InitInv, NextInv, PTL DEF Spec

----------------------------------------------------------------------------
(* What it gives.                                                          *)

(* The variables of the page allocator keep their types: the break stays   *)
(* in the heap, and a size is that of a block somebody asked for.          *)
THEOREM TypeCorrect == Spec => []TypeOK
<1>1. IInv => TypeOK
  BY DEF IInv
<1> QED BY <1>1, Invariance, PTL

(* The callers' blocks do not overlap, the heap's pages are theirs and     *)
(* nobody else's, allocatedSize knows the size of each, and the break is   *)
(* right above the last, after any sequence of kmalloc and kfree.          *)
THEOREM HeapMatches == Spec => []HeapMatchesCallers
<1>1. ASSUME IInv PROVE HeapMatchesCallers
  <2> SUFFICES ASSUME ~lock PROVE HeapMatchesCallers
    BY DEF HeapMatchesCallers
  <2>1. HeapInv
    BY <1>1 DEF IInv
  <2>2. \A a, b \in live : a # b => Extent(a.va, a.n) \cap Extent(b.va, b.n) = {}
    BY <2>1 DEF HeapInv, PagesOf
  <2> DEFINE Owners(v) == {a \in live : v \in Extent(a.va, a.n)}
  <2>3. ASSUME NEW v \in HeapPages
        PROVE  /\ Mapped(v) <=> Owners(v) # {}
               /\ allocatedSize[v] = IF Owners(v) = {} THEN 0
                                     ELSE (CHOOSE a \in Owners(v) : TRUE).n
               /\ v >= brk => Owners(v) = {}
    <3>1. CASE Owners(v) = {}
      <4>1. \A a \in live : v \notin PagesOf(a)
        BY <3>1 DEF PagesOf
      <4> QED BY <2>1, <3>1, <4>1 DEF HeapInv
    <3>2. CASE Owners(v) # {}
      <4> DEFINE o == CHOOSE a \in Owners(v) : TRUE
      <4>1. o \in Owners(v)
        BY <3>2
      <4> HIDE DEF o
      <4>2. o \in live /\ v \in PagesOf(o)
        BY <4>1 DEF PagesOf
      <4>3. Mapped(v) /\ allocatedSize[v] = o.n
        BY <2>1, <4>2 DEF HeapInv
      <4>4. v < brk /\ brk \in Nat /\ v \in Nat
        BY <1>1, <4>2, LiveBelow, PageNumbers
      <4> QED BY <3>2, <4>3, <4>4 DEF o
    <3> QED BY <3>1, <3>2
  <2>4. brk > Start => Mapped(brk - 1)
    BY <2>1 DEF HeapInv
  <2> QED BY <2>2, <2>3, <2>4 DEF HeapMatchesCallers
<1> QED BY <1>1, Invariance, PTL

(* No frame is lost or given out twice, and the two address translations   *)
(* are inverse to each other, whoever allocates and frees pages.           *)
THEOREM FramesKept == Spec => []FramesConserved
<1>1. ASSUME IInv PROVE FramesConserved
  <2>1. MemInv(mem) /\ Distinct(mem.free) /\ IsMemory(mem, Slots, Slots \cup {NoVa})
    BY <1>1 DEF IInv, MemInv
  <2>2. mem.pt \in [Slots -> Frames \cup {NoFrame}] /\ NoVa \notin Slots /\ NoFrame \notin Frames
    BY <2>1, PageNumbers DEF IsMemory
  <2>3. ASSUME NEW f \in Frames
        PROVE  /\ mem.refs[f] = Cardinality(Entries(mem, f))
               /\ Cardinality({i \in DOMAIN mem.free : mem.free[i] = f})
                    = IF mem.refs[f] = 0 THEN 1 ELSE 0
               /\ kheap_virtual_address(f) # Null =>
                    kheap_physical_address(kheap_virtual_address(f)) = f
    <3>1. Cardinality(Places(mem.free, f)) = IF Occurs(mem.free, f) THEN 1 ELSE 0
      BY <2>1, OnceInQueue
    <3>2. CASE mem.refs[f] = 0 /\ Occurs(mem.free, f) /\ mem.va[f] = NoVa
      <4>1. Entries(mem, f) = {}
        BY <2>1, <2>2, <3>2 DEF Entries, MemInv
      <4>2. kheap_virtual_address(f) = Null
        BY <3>2 DEF kheap_virtual_address, NoVa
      <4> QED BY <3>1, <3>2, <4>1, <4>2, FS_EmptySet DEF Places
    <3>3. CASE /\ mem.refs[f] = 1 /\ ~Occurs(mem.free, f) /\ mem.va[f] \in Slots
               /\ mem.pt[mem.va[f]] = f
      <4>1. Entries(mem, f) = {mem.va[f]}
        BY <2>1, <2>2, <3>3 DEF Entries, MemInv
      <4>2. Cardinality(Entries(mem, f)) = 1
        BY <4>1, FS_Singleton
      <4>3. kheap_virtual_address(f) # Null => kheap_virtual_address(f) = mem.va[f]
        BY DEF kheap_virtual_address
      <4> QED BY <3>1, <3>3, <4>2, <4>3 DEF Places, kheap_physical_address
    <3> QED BY <2>1, <3>2, <3>3 DEF MemInv
  <2>4. ASSUME NEW v \in BlockPages \cup HeapPages, Mapped(v)
        PROVE  kheap_virtual_address(kheap_physical_address(v)) = v
    <3>1. v \in Slots /\ mem.va[mem.pt[v]] = v
      BY <2>1, <2>4, PageNumbers DEF MemInv, Mapped
    <3>2. v \in 1..(HeapMax - 1)
      BY PageNumbers, KHeapAssumption DEF BlockPages, HeapPages, Start
    <3> QED BY <3>1, <3>2 DEF kheap_virtual_address, kheap_physical_address
  <2> QED BY <2>3, <2>4 DEF FramesConserved
<1> QED BY <1>1, Invariance, PTL

(* kmalloc follows the custom fit strategy: no hole that the code's single *)
(* pass over the pages leaves out would have been the better one.          *)
THEOREM FollowsCustomFit == Spec => CustomFit
<1>1. ASSUME IInv, [Next]_vars, ret' # ret, ret'.va # Null PROVE InCustomFit
  <2>1. PICK n \in Requests : Allocate(n)
    BY <1>1 DEF Next, kmalloc, Refuse, Exhaust, kfree, kfreeWild, get_page, return_page,
       MapUser, UnmapUser, NoCall, vars
  <2>2. /\ ret'.n = n /\ ret'.va = Place(n) /\ n \in Nat \ {0} /\ brk \in Start..HeapMax
    BY <1>1, <2>1, PageNumbers DEF Allocate, IInv, TypeOK
  <2>3. ExactOf(Search(n), Holes, n) /\ WorstOf(Search(n), Holes, n)
    BY <2>2, Searched
  <2>4. \A h \in Holes : h.va \in Nat /\ h.n \in Nat /\ h.va # Null
    BY PageNumbers DEF Holes, Null
  <2> DEFINE First(S) == CHOOSE h \in S : \A g \in S : h.va <= g.va
             fits == {h \in Holes : h.n >= n}
             exact == {h \in Holes : h.n = n}
             largest == {h \in fits : \A g \in fits : g.n <= h.n}
  <2>5. ASSUME NEW S \in SUBSET Holes, NEW h \in S, \A g \in S : h.va <= g.va
        PROVE  First(S).va = h.va
    <3>1. First(S) \in S /\ First(S).va <= h.va
      BY <2>5
    <3> QED BY <2>4, <2>5, <3>1
  <2> HIDE DEF First
  <2>6. CASE Search(n).exact # Null
    <3>1. PICK h \in exact : Search(n).exact = h.va /\ \A g \in exact : h.va <= g.va
      BY <2>3, <2>6 DEF ExactOf
    <3>2. First(exact).va = h.va /\ exact # {}
      BY <2>5, <3>1
    <3> QED BY <2>2, <2>6, <3>1, <3>2 DEF InCustomFit, First, Place
  <2>7. CASE Search(n).exact = Null /\ Search(n).worst # Null
    <3>1. exact = {}
      BY <2>3, <2>4, <2>7 DEF ExactOf
    <3>2. PICK h \in Holes : /\ h.n >= n /\ Search(n).worst = h.va
                             /\ \A g \in Holes : g.n <= h.n /\ (g.n = h.n => h.va <= g.va)
      BY <2>3, <2>7 DEF WorstOf
    <3>3. h \in fits /\ h \in largest /\ \A g \in largest : h.va <= g.va
      BY <2>4, <3>2
    <3>4. First(largest).va = h.va /\ fits # {}
      BY <2>5, <3>3
    <3> QED BY <2>2, <2>7, <3>1, <3>2, <3>4 DEF InCustomFit, First, Place
  <2>8. CASE Search(n).exact = Null /\ Search(n).worst = Null
    <3>1. exact = {} /\ fits = {}
      BY <2>2, <2>3, <2>4, <2>8 DEF ExactOf, WorstOf
    <3> QED BY <2>2, <2>8, <3>1 DEF InCustomFit, Place
  <2> QED BY <2>6, <2>7, <2>8
<1>2. IInv /\ [Next]_vars => [ret' # ret /\ ret'.va # Null => InCustomFit]_vars
  BY <1>1
<1> QED BY <1>2, Invariance, PTL DEF Spec, CustomFit
----------------------------------------------------------------------------
(* The heap of a program (module UHeap), for any top, sizes and number of  *)
(* objects.                                                                *)

----------------------------------------------------------------------------
(* Sequences of blocks.                                                    *)

Block == [va : Nat \ {0}, n : Nat \ {0}]
Covers(s, p) == \E i \in DOMAIN s : p \in U!Extent(s[i])

\* Blocks in the order of their addresses: some may touch, or none does.
InOrder(s) == \A i, j \in DOMAIN s : i < j => U!End(s[i]) <= s[j].va
Sorted(s) == \A i, j \in DOMAIN s : i < j => U!End(s[i]) < s[j].va

(* RemoveAt: the elements behind the one that leaves move up.              *)
LEMMA Removed ==
  ASSUME NEW T, NEW s \in Seq(T), NEW i \in 1..Len(s)
  PROVE  LET r == U!RemoveAt(s, i)
         IN  /\ r \in Seq(T) /\ Len(r) = Len(s) - 1
             /\ \A j \in 1..(Len(s) - 1) : r[j] = IF j < i THEN s[j] ELSE s[j + 1]
<1> DEFINE a == SubSeq(s, 1, i - 1)
           b == SubSeq(s, i + 1, Len(s))
<1>1. Len(s) \in Nat /\ i \in Nat /\ \A j \in 1..Len(s) : s[j] \in T
  BY LenProperties, ElementOfSeq
<1>2. a \in Seq(T) /\ Len(a) = i - 1 /\ \A j \in 1..(i - 1) : a[j] = s[j]
  <2>1. \A j \in 1..(i - 1) : s[j] \in T
    BY <1>1
  <2>2. a = [j \in 1..(i - 1) |-> s[j]]
    BY <1>1
  <2>3. i - 1 \in Nat
    BY <1>1
  <2> HIDE DEF a
  <2> QED BY <2>1, <2>2, <2>3, IsASeq
<1>3. /\ b \in Seq(T) /\ Len(b) = Len(s) - i
      /\ \A j \in 1..(Len(s) - i) : b[j] = s[i + j]
  <2>1. \A j \in 1..(Len(s) - i) : s[i + j] \in T
    BY <1>1
  <2>2. b = [j \in 1..(Len(s) - i) |-> s[i + j]]
    <3>1. b = [j \in 1..(Len(s) - (i + 1) + 1) |-> s[(i + 1) + j - 1]]
      BY <1>1
    <3>2. Len(s) - (i + 1) + 1 = Len(s) - i /\ \A j \in 1..(Len(s) - i) : (i + 1) + j - 1 = i + j
      BY <1>1
    <3> HIDE DEF b
    <3> QED BY <3>1, <3>2
  <2>3. Len(s) - i \in Nat
    BY <1>1
  <2> HIDE DEF b
  <2> QED BY <2>1, <2>2, <2>3, IsASeq
<1> HIDE DEF a, b
<1>4. /\ a \o b \in Seq(T) /\ Len(a \o b) = Len(a) + Len(b)
      /\ \A j \in 1..(Len(a) + Len(b)) :
           (a \o b)[j] = IF j <= Len(a) THEN a[j] ELSE b[j - Len(a)]
  BY <1>2, <1>3, ConcatProperties
<1>5. U!RemoveAt(s, i) = a \o b
  BY DEF U!RemoveAt, a, b
<1>6. Len(a) + Len(b) = Len(s) - 1
  BY <1>1, <1>2, <1>3
<1>7. ASSUME NEW j \in 1..(Len(s) - 1)
      PROVE  (a \o b)[j] = IF j < i THEN s[j] ELSE s[j + 1]
  <2>1. CASE j < i
    BY <1>1, <1>2, <1>4, <1>6, <2>1
  <2>2. CASE ~(j < i)
    <3>1. j - (i - 1) \in 1..(Len(s) - i) /\ i + (j - (i - 1)) = j + 1
      BY <1>1, <2>2
    <3>2. (a \o b)[j] = b[j - (i - 1)]
      BY <1>1, <1>2, <1>4, <1>6, <2>2
    <3> QED BY <1>3, <2>2, <3>1, <3>2
  <2> QED BY <2>1, <2>2
<1> QED BY <1>4, <1>5, <1>6, <1>7

(* The places of the elements that stay: r is s without the one at i.      *)
Without(s, i, r) ==
  \E f \in [DOMAIN r -> DOMAIN s] :
    /\ \A j \in DOMAIN r : f[j] # i /\ r[j] = s[f[j]]
    /\ \A j, k \in DOMAIN r : (j # k => f[j] # f[k]) /\ (j < k => f[j] < f[k])
    /\ \A l \in DOMAIN s : l # i => \E j \in DOMAIN r : f[j] = l

LEMMA WithoutOne ==
  ASSUME NEW T, NEW s \in Seq(T), NEW i \in DOMAIN s
  PROVE  U!RemoveAt(s, i) \in Seq(T) /\ Without(s, i, U!RemoveAt(s, i))
<1> DEFINE n == Len(s)
           r == U!RemoveAt(s, i)
           f == [j \in 1..(n - 1) |-> IF j < i THEN j ELSE j + 1]
<1>1. n \in Nat /\ DOMAIN s = 1..n /\ i \in 1..n
  BY LenProperties
<1>2. r \in Seq(T) /\ DOMAIN r = 1..(n - 1) /\ \A j \in 1..(n - 1) : r[j] = s[f[j]]
  <2>1. /\ r \in Seq(T) /\ Len(r) = n - 1
        /\ \A j \in 1..(n - 1) : r[j] = IF j < i THEN s[j] ELSE s[j + 1]
    BY <1>1, Removed
  <2> HIDE DEF n, r
  <2>2. DOMAIN r = 1..(n - 1)
    BY <2>1, LenProperties
  <2> QED BY <2>1, <2>2
<1> HIDE DEF n, r
<1>3. f \in [1..(n - 1) -> 1..n] /\ \A j \in 1..(n - 1) : f[j] # i
  BY <1>1
<1>4. \A j, k \in 1..(n - 1) : (j # k => f[j] # f[k]) /\ (j < k => f[j] < f[k])
  BY <1>1
<1>5. ASSUME NEW l \in 1..n, l # i PROVE \E j \in 1..(n - 1) : f[j] = l
  <2>1. CASE l < i
    <3>1. l \in 1..(n - 1) /\ f[l] = l
      BY <1>1, <2>1
    <3> QED BY <3>1
  <2>2. CASE ~(l < i)
    <3>1. l - 1 \in 1..(n - 1) /\ ~(l - 1 < i) /\ (l - 1) + 1 = l
      BY <1>1, <1>5, <2>2
    <3>2. f[l - 1] = l
      BY <3>1
    <3> QED BY <3>1, <3>2
  <2> QED BY <2>1, <2>2
<1> HIDE DEF f
<1>6. /\ f \in [DOMAIN r -> DOMAIN s]
      /\ \A j \in DOMAIN r : f[j] # i /\ r[j] = s[f[j]]
      /\ \A j, k \in DOMAIN r : (j # k => f[j] # f[k]) /\ (j < k => f[j] < f[k])
      /\ \A l \in DOMAIN s : l # i => \E j \in DOMAIN r : f[j] = l
  BY <1>1, <1>2, <1>3, <1>4, <1>5
<1> QED BY <1>2, <1>6 DEF Without, r

(* An element in front of the others.                                      *)
LEMMA HeadAndRest ==
  ASSUME NEW T, NEW s \in Seq(T), NEW b \in T
  PROVE  LET c == <<b>> \o s
             n == Len(s)
         IN  /\ c \in Seq(T) /\ n \in Nat /\ DOMAIN s = 1..n /\ DOMAIN c = 1..(n + 1)
             /\ c[1] = b /\ 1 \in 1..(n + 1)
             /\ \A i \in 1..n : c[i + 1] = s[i] /\ i + 1 \in 1..(n + 1) /\ i + 1 # 1
             /\ \A i \in 1..(n + 1) : i = 1 \/ \E j \in 1..n : i = j + 1
<1> DEFINE o == <<b>>
           n == Len(s)
           c == o \o s
<1>1. n \in Nat /\ DOMAIN s = 1..n
  BY LenProperties
<1>2. o \in Seq(T) /\ Len(o) = 1 /\ o[1] = b
  OBVIOUS
<1> HIDE DEF o
<1>3. /\ c \in Seq(T) /\ Len(c) = Len(o) + n
      /\ \A i \in 1..(Len(o) + n) : c[i] = IF i <= Len(o) THEN o[i] ELSE s[i - Len(o)]
  BY <1>2, ConcatProperties
<1> HIDE DEF c, n
<1>4. DOMAIN c = 1..(n + 1)
  <2>1. Len(c) = n + 1
    BY <1>1, <1>2, <1>3
  <2> QED BY <1>3, <2>1, LenProperties
<1>5. c[1] = b /\ 1 \in 1..(n + 1)
  BY <1>1, <1>2, <1>3
<1>6. ASSUME NEW i \in 1..n PROVE c[i + 1] = s[i] /\ i + 1 \in 1..(n + 1) /\ i + 1 # 1
  <2>1. i + 1 \in 1..(1 + n) /\ ~(i + 1 <= 1) /\ (i + 1) - 1 = i /\ i + 1 \in 1..(n + 1)
    BY <1>1
  <2> QED BY <1>2, <1>3, <2>1
<1>7. ASSUME NEW i \in 1..(n + 1) PROVE i = 1 \/ \E j \in 1..n : i = j + 1
  <2>1. i = 1 \/ (i - 1 \in 1..n /\ i = (i - 1) + 1)
    BY <1>1
  <2> QED BY <2>1
<1> QED BY <1>1, <1>3, <1>4, <1>5, <1>6, <1>7 DEF c, n, o

(* What Filter keeps stays in order.                                       *)
LEMMA NthGrows ==
  ASSUME NEW n \in Nat, NEW P \in SUBSET (1..n),
         NEW j \in 1..Cardinality(P), NEW k \in 1..Cardinality(P), j < k
  PROVE  Nth(P, j) < Nth(P, k)
<1>1. /\ Nth(P, j) \in P /\ Rank(P, Nth(P, j)) = j
      /\ Nth(P, k) \in P /\ Rank(P, Nth(P, k)) = k
  BY NthType
<1>2. Cardinality(P) \in Nat
  BY UpTo
<1>3. j \in Int /\ k \in Int /\ Nth(P, j) \in Int /\ Nth(P, k) \in Int
  <2>1. P \subseteq Int
    OBVIOUS
  <2>2. j \in Int /\ k \in Int
    BY <1>2
  <2>3. Nth(P, j) \in Int /\ Nth(P, k) \in Int
    BY <1>1, <2>1
  <2> QED BY <2>2, <2>3
<1>4. CASE Nth(P, k) < Nth(P, j)
  <2>1. k < j
    BY <1>1, <1>4, RankGrows
  <2> QED BY <1>3, <2>1
<1>5. CASE Nth(P, k) = Nth(P, j)
  BY <1>1, <1>3, <1>5
<1> QED BY <1>3, <1>4, <1>5

LEMMA Kept ==
  ASSUME NEW h \in Seq(Block), InOrder(h), NEW S
  PROVE  /\ Filter(h, S) \in Seq(Block) /\ InOrder(Filter(h, S))
         /\ \A i \in DOMAIN Filter(h, S) :
              Filter(h, S)[i] \in S /\ \E j \in DOMAIN h : Filter(h, S)[i] = h[j]
         /\ \A j \in DOMAIN h : h[j] \in S => \E i \in DOMAIN Filter(h, S) : Filter(h, S)[i] = h[j]
<1> DEFINE P == PlacesOf(h, S)
           r == Filter(h, S)
<1>1. P \in SUBSET (1..Len(h)) /\ Len(h) \in Nat /\ DOMAIN r = 1..Cardinality(P)
  BY PlacesType DEF Filter
<1>2. r \in Seq(Block)
  BY FilterType
<1>3. \A k \in DOMAIN r : Nth(P, k) \in DOMAIN h /\ r[k] = h[Nth(P, k)] /\ r[k] \in S
  BY FilterElement
<1>4. InOrder(r)
  <2> SUFFICES ASSUME NEW i \in DOMAIN r, NEW j \in DOMAIN r, i < j
               PROVE  U!End(r[i]) <= r[j].va
    BY DEF InOrder
  <2>1. Nth(P, i) < Nth(P, j)
    BY <1>1, NthGrows
  <2> QED BY <1>3, <2>1 DEF InOrder
<1>5. ASSUME NEW j \in DOMAIN h, h[j] \in S PROVE \E i \in DOMAIN r : r[i] = h[j]
  <2>1. Occurs(r, h[j])
    BY <1>5, FilterOccurs DEF Occurs
  <2> QED BY <2>1 DEF Occurs
<1> HIDE DEF r, P
<1>6. \A i \in DOMAIN r : r[i] \in S /\ \E j \in DOMAIN h : r[i] = h[j]
  BY <1>3
<1> QED BY <1>2, <1>4, <1>5, <1>6 DEF r

(* Two lists of which the second comes after the first.                    *)
LEMMA Joined ==
  ASSUME NEW s \in Seq(Block), NEW t \in Seq(Block), InOrder(s), InOrder(t),
         \A i \in DOMAIN s, j \in DOMAIN t : U!End(s[i]) <= t[j].va
  PROVE  /\ s \o t \in Seq(Block) /\ InOrder(s \o t)
         /\ \A i \in DOMAIN (s \o t) : \/ \E j \in DOMAIN s : (s \o t)[i] = s[j]
                                      \/ \E j \in DOMAIN t : (s \o t)[i] = t[j]
         /\ \A p : Covers(s \o t, p) <=> Covers(s, p) \/ Covers(t, p)
<1> DEFINE c == s \o t
           m == Len(s)
           n == Len(t)
<1>1. /\ c \in Seq(Block) /\ Len(c) = m + n /\ m \in Nat /\ n \in Nat
      /\ \A i \in 1..(m + n) : c[i] = IF i <= m THEN s[i] ELSE t[i - m]
  BY ConcatProperties, LenProperties
<1>2. DOMAIN c = 1..(m + n) /\ DOMAIN s = 1..m /\ DOMAIN t = 1..n
  BY <1>1, LenProperties
<1> HIDE DEF c, m, n
<1>3. \A i \in 1..m : i \in 1..(m + n) /\ c[i] = s[i]
  BY <1>1
<1>4. \A i \in 1..n : m + i \in 1..(m + n) /\ c[m + i] = t[i]
  BY <1>1
<1>5. \A i \in 1..(m + n) : \/ i \in 1..m /\ c[i] = s[i]
                            \/ i > m /\ i - m \in 1..n /\ c[i] = t[i - m]
  BY <1>1
<1>6. InOrder(c)
  <2> SUFFICES ASSUME NEW i \in 1..(m + n), NEW j \in 1..(m + n), i < j
               PROVE  U!End(c[i]) <= c[j].va
    BY <1>2 DEF InOrder
  <2>1. CASE i \in 1..m /\ j \in 1..m
    BY <1>2, <1>3, <2>1 DEF InOrder
  <2>2. CASE i \in 1..m /\ j - m \in 1..n /\ c[j] = t[j - m]
    BY <1>2, <1>3, <2>2
  <2>3. CASE i - m \in 1..n /\ c[i] = t[i - m] /\ j - m \in 1..n /\ c[j] = t[j - m]
    <3>1. i - m < j - m
      BY <1>1
    <3> QED BY <1>2, <2>3, <3>1 DEF InOrder
  <2>4. j \in 1..m => i \in 1..m
    BY <1>1
  <2> QED BY <1>5, <2>1, <2>2, <2>3, <2>4
<1>7. ASSUME NEW p PROVE Covers(c, p) <=> Covers(s, p) \/ Covers(t, p)
  BY <1>2, <1>3, <1>4, <1>5 DEF Covers
<1>8. \A i \in DOMAIN c : (\E j \in DOMAIN s : c[i] = s[j]) \/ (\E j \in DOMAIN t : c[i] = t[j])
  BY <1>2, <1>5
<1> QED BY <1>1, <1>6, <1>7, <1>8 DEF c

(* The pages of a block; two blocks without a common page.                 *)
LEMMA PagesOfBlock ==
  ASSUME NEW a \in Block, NEW b \in Block
  PROVE  /\ U!Extent(a) \subseteq Nat \ {0} /\ a.va \in U!Extent(a) /\ U!End(a) \in Nat
         /\ \A p \in Int : p \in U!Extent(a) <=> a.va <= p /\ p < U!End(a)
         /\ U!Extent(a) \cap U!Extent(b) = {} =>
              /\ a.va # b.va
              /\ a.va < b.va => U!End(a) <= b.va
              /\ a.va > b.va => U!End(b) <= a.va
<1>1. a.va \in Nat \ {0} /\ a.n \in Nat \ {0} /\ b.va \in Nat \ {0} /\ b.n \in Nat \ {0}
  BY DEF Block
<1>2. \A p \in Int : p \in U!Extent(a) <=> a.va <= p /\ p < U!End(a)
  BY <1>1 DEF U!Extent, U!End
<1>3. \A p \in Int : p \in U!Extent(b) <=> b.va <= p /\ p < U!End(b)
  BY <1>1 DEF U!Extent, U!End
<1>4. /\ U!End(a) \in Nat /\ U!End(b) \in Nat /\ U!End(a) > a.va /\ U!End(b) > b.va
      /\ U!Extent(a) \subseteq Nat \ {0}
  BY <1>1 DEF U!End, U!Extent
<1>5. a.va \in U!Extent(a) /\ b.va \in U!Extent(b)
  BY <1>1, <1>2, <1>3, <1>4
<1>6. ASSUME U!Extent(a) \cap U!Extent(b) = {}
      PROVE  /\ a.va # b.va
             /\ a.va < b.va => U!End(a) <= b.va
             /\ a.va > b.va => U!End(b) <= a.va
  <2>1. b.va \notin U!Extent(a) /\ a.va \notin U!Extent(b)
    BY <1>5, <1>6
  <2> QED BY <1>1, <1>2, <1>3, <1>4, <1>5, <2>1
<1> QED BY <1>2, <1>4, <1>5, <1>6

(* FREEblockk and sfree put a block between those before and after it.     *)
LEMMA Inserted ==
  ASSUME NEW h \in Seq(Block), Sorted(h), NEW b \in Block,
         \A i \in DOMAIN h : U!Extent(h[i]) \cap U!Extent(b) = {},
         NEW L, \A i \in DOMAIN h : h[i] \in L <=> h[i].va < b.va,
         NEW R, \A i \in DOMAIN h : h[i] \in R <=> h[i].va > b.va
  PROVE  LET r == Filter(h, L) \o <<b>> \o Filter(h, R)
         IN  /\ r \in Seq(Block) /\ InOrder(r)
             /\ \A p : Covers(r, p) <=> Covers(h, p) \/ p \in U!Extent(b)
<1> DEFINE l == Filter(h, L)
           t == Filter(h, R)
           o == <<b>>
<1>1. \A i \in DOMAIN h : h[i] \in Block
  BY ElementOfSeq
<1>2. InOrder(h)
  <2>1. \A i \in DOMAIN h : U!End(h[i]) \in Nat /\ h[i].va \in Nat
    BY <1>1, PagesOfBlock DEF Block
  <2> QED BY <2>1 DEF Sorted, InOrder
<1>3. /\ l \in Seq(Block) /\ InOrder(l)
      /\ \A i \in DOMAIN l : l[i] \in L /\ \E j \in DOMAIN h : l[i] = h[j]
      /\ \A j \in DOMAIN h : h[j] \in L => \E i \in DOMAIN l : l[i] = h[j]
  BY <1>2, Kept
<1>4. /\ t \in Seq(Block) /\ InOrder(t)
      /\ \A i \in DOMAIN t : t[i] \in R /\ \E j \in DOMAIN h : t[i] = h[j]
      /\ \A j \in DOMAIN h : h[j] \in R => \E i \in DOMAIN t : t[i] = h[j]
  BY <1>2, Kept
<1>5. o \in Seq(Block) /\ DOMAIN o = {1} /\ o[1] = b /\ InOrder(o)
      /\ \A p : Covers(o, p) <=> p \in U!Extent(b)
  <2>1. o \in Seq(Block) /\ DOMAIN o = {1} /\ o[1] = b
    OBVIOUS
  <2> HIDE DEF o
  <2>2. InOrder(o)
    BY <2>1 DEF InOrder
  <2> QED BY <2>1, <2>2 DEF Covers
<1> HIDE DEF l, t, o
<1>6. \A i \in DOMAIN h : /\ h[i].va # b.va
                          /\ h[i].va < b.va => U!End(h[i]) <= b.va
                          /\ h[i].va > b.va => U!End(b) <= h[i].va
  BY <1>1, PagesOfBlock
<1>7. \A i \in DOMAIN l : U!End(l[i]) <= b.va
  BY <1>3, <1>6
<1>8. \A i \in DOMAIN t : U!End(b) <= t[i].va
  BY <1>4, <1>6
<1>9. /\ l \o o \in Seq(Block) /\ InOrder(l \o o)
      /\ \A i \in DOMAIN (l \o o) : \/ \E j \in DOMAIN l : (l \o o)[i] = l[j]
                                    \/ \E j \in DOMAIN o : (l \o o)[i] = o[j]
      /\ \A p : Covers(l \o o, p) <=> Covers(l, p) \/ Covers(o, p)
  <2>1. \A i \in DOMAIN l, j \in DOMAIN o : U!End(l[i]) <= o[j].va
    BY <1>5, <1>7
  <2> QED BY <1>3, <1>5, <2>1, Joined
<1> DEFINE q == l \o o
<1> HIDE DEF q
<1>10. \A i \in DOMAIN q, j \in DOMAIN t : U!End(q[i]) <= t[j].va
  <2> SUFFICES ASSUME NEW i \in DOMAIN q, NEW j \in DOMAIN t PROVE U!End(q[i]) <= t[j].va
    OBVIOUS
  <2>1. U!End(b) <= t[j].va /\ t[j].va \in Int /\ b.va <= U!End(b) /\ b.va \in Int
          /\ U!End(b) \in Int
    <3>1. t[j] \in Block
      BY <1>4, ElementOfSeq
    <3>2. b.va \in U!Extent(b) /\ U!End(b) \in Nat /\ b.va \in Nat
            /\ \A p \in Int : p \in U!Extent(b) <=> b.va <= p /\ p < U!End(b)
      BY PagesOfBlock DEF Block
    <3> QED BY <1>8, <3>1, <3>2 DEF Block
  <2>2. (\E k \in DOMAIN l : q[i] = l[k]) \/ q[i] = b
    BY <1>5, <1>9 DEF q
  <2>3. ASSUME NEW k \in DOMAIN l, q[i] = l[k] PROVE U!End(q[i]) <= t[j].va
    <3>1. U!End(l[k]) \in Int
      <4>1. l[k] \in Block
        BY <1>3, ElementOfSeq
      <4> QED BY <4>1, PagesOfBlock
    <3> QED BY <1>7, <2>1, <2>3, <3>1
  <2> QED BY <2>1, <2>2, <2>3
<1>11. /\ q \o t \in Seq(Block) /\ InOrder(q \o t)
       /\ \A p : Covers(q \o t, p) <=> Covers(q, p) \/ Covers(t, p)
  <2>1. q \in Seq(Block) /\ InOrder(q)
    BY <1>9 DEF q
  <2> QED BY <1>4, <1>10, <2>1, Joined
<1>12. ASSUME NEW p PROVE Covers(h, p) <=> Covers(l, p) \/ Covers(t, p)
  <2>1. ASSUME NEW j \in DOMAIN h, p \in U!Extent(h[j]) PROVE Covers(l, p) \/ Covers(t, p)
    <3>1. h[j].va \in Int /\ b.va \in Int /\ h[j].va # b.va
      BY <1>1, <1>6 DEF Block
    <3>2. h[j] \in L \/ h[j] \in R
      BY <3>1
    <3> QED BY <1>3, <1>4, <2>1, <3>2 DEF Covers
  <2>2. Covers(l, p) \/ Covers(t, p) => Covers(h, p)
    BY <1>3, <1>4 DEF Covers
  <2> QED BY <2>1, <2>2 DEF Covers
<1>13. \A p : Covers(q \o t, p) <=> Covers(h, p) \/ p \in U!Extent(b)
  BY <1>5, <1>9, <1>11, <1>12 DEF q
<1> QED BY <1>11, <1>13 DEF q, l, t, o

(* MERGEE, one block: it becomes part of the last one, or the last.        *)
MergeOne(a, b) ==
  IF a # <<>> /\ U!End(U!Last(a)) = b.va
  THEN [a EXCEPT ![Len(a)].n = @ + b.n]
  ELSE Append(a, b)

LEMMA MergeStep ==
  ASSUME NEW a \in Seq(Block), Sorted(a), NEW b \in Block,
         \A j \in DOMAIN a : U!End(a[j]) <= b.va
  PROVE  LET c == MergeOne(a, b)
         IN  /\ c \in Seq(Block) /\ Sorted(c)
             /\ \A p \in Int : Covers(c, p) <=> Covers(a, p) \/ p \in U!Extent(b)
             /\ \A j \in DOMAIN c : U!End(c[j]) <= U!End(b)
<1> DEFINE n == Len(a)
           c == MergeOne(a, b)
<1>1. /\ n \in Nat /\ DOMAIN a = 1..n
      /\ \A i \in 1..n : a[i] \in Block /\ a[i].va \in Nat \ {0} /\ a[i].n \in Nat \ {0}
                           /\ U!End(a[i]) = a[i].va + a[i].n
  <2>1. n \in Nat /\ DOMAIN a = 1..n
    BY LenProperties
  <2>2. \A i \in 1..n : a[i] \in Block
    BY <2>1, ElementOfSeq
  <2> QED BY <2>1, <2>2 DEF Block, U!End
<1>2. b.va \in Nat \ {0} /\ b.n \in Nat \ {0} /\ U!End(b) = b.va + b.n
  BY DEF Block, U!End
<1>3. \A i \in 1..n : U!End(a[i]) <= b.va
  BY <1>1
<1> HIDE DEF n
<1>4. CASE a # <<>> /\ U!End(U!Last(a)) = b.va
  <2>1. n \in 1..n /\ U!Last(a) = a[n]
    BY <1>1, <1>4, EmptySeq DEF U!Last, n
  <2> DEFINE m == [a[n] EXCEPT !.n = @ + b.n]
  <2>2. m \in Block /\ m.va = a[n].va /\ m.n = a[n].n + b.n /\ a[n].va + a[n].n = b.va
    <3>1. a[n].n + b.n \in Nat \ {0}
      BY <1>1, <1>2, <2>1
    <3>2. a[n].va + a[n].n = b.va
      BY <1>1, <1>4, <2>1
    <3> QED BY <1>1, <2>1, <3>1, <3>2 DEF Block
  <2>3. c = [a EXCEPT ![n] = m]
    BY <1>4, <2>1 DEF MergeOne, n
  <2> HIDE DEF m
  <2>4. /\ c \in Seq(Block) /\ DOMAIN c = 1..n
        /\ \A i \in 1..n : c[i] = IF i = n THEN m ELSE a[i]
    <3>1. DOMAIN c = 1..n /\ \A i \in 1..n : c[i] = IF i = n THEN m ELSE a[i]
      BY <1>1, <2>3
    <3>2. [a EXCEPT ![n] = m] \in Seq(Block)
      BY <2>1, <2>2, ExceptSeq DEF n
    <3> QED BY <2>3, <3>1, <3>2
  <2> HIDE DEF c
  <2>5. U!End(m) = U!End(b)
    BY <1>1, <1>2, <2>1, <2>2 DEF U!End
  <2>6. Sorted(c)
    <3> SUFFICES ASSUME NEW i \in 1..n, NEW j \in 1..n, i < j PROVE U!End(c[i]) < c[j].va
      BY <2>4 DEF Sorted
    <3>1. i # n
      BY <1>1
    <3>2. U!End(a[i]) < a[j].va
      BY <1>1 DEF Sorted
    <3>3. CASE j = n
      BY <2>2, <2>4, <3>1, <3>2, <3>3
    <3>4. CASE j # n
      BY <2>4, <3>1, <3>2, <3>4
    <3> QED BY <3>3, <3>4
  <2>7. ASSUME NEW p \in Int PROVE Covers(c, p) <=> Covers(a, p) \/ p \in U!Extent(b)
    <3>1. p \in U!Extent(m) <=> p \in U!Extent(a[n]) \/ p \in U!Extent(b)
      <4>1. /\ a[n].va \in Nat /\ a[n].n \in Nat \ {0} /\ b.va \in Nat /\ b.n \in Nat \ {0}
            /\ a[n].va + a[n].n = b.va
        BY <1>1, <1>2, <2>1, <2>2
      <4>2. m.va = a[n].va /\ U!End(m) = U!End(b) /\ U!End(a[n]) = b.va /\ b.va < U!End(b)
              /\ a[n].va < b.va /\ U!End(b) \in Int
        BY <1>2, <2>2, <2>5, <4>1 DEF U!End
      <4>3. /\ p \in U!Extent(m) <=> m.va <= p /\ p < U!End(m)
            /\ p \in U!Extent(a[n]) <=> a[n].va <= p /\ p < U!End(a[n])
            /\ p \in U!Extent(b) <=> b.va <= p /\ p < U!End(b)
        BY <1>1, <2>1, <2>2, PagesOfBlock
      <4> QED BY <4>1, <4>2, <4>3
    <3> QED BY <1>1, <2>1, <2>4, <3>1 DEF Covers
  <2>8. \A j \in 1..n : U!End(c[j]) <= U!End(b)
    <3> SUFFICES ASSUME NEW j \in 1..n PROVE U!End(c[j]) <= U!End(b)
      OBVIOUS
    <3>1. CASE j = n
      <4>1. U!End(c[j]) = U!End(b)
        BY <2>4, <2>5, <3>1
      <4> QED BY <1>2, <4>1
    <3>2. CASE j # n
      <4>1. c[j] = a[j]
        BY <2>4, <3>2
      <4> QED BY <1>1, <1>2, <1>3, <4>1
    <3> QED BY <3>1, <3>2
  <2> QED BY <2>4, <2>6, <2>7, <2>8 DEF c, n
<1>5. CASE ~(a # <<>> /\ U!End(U!Last(a)) = b.va)
  <2>1. c = Append(a, b)
    BY <1>5 DEF MergeOne
  <2>2. /\ c \in Seq(Block) /\ DOMAIN c = 1..(n + 1)
        /\ \A i \in 1..n : c[i] = a[i]
        /\ c[n + 1] = b
    <3>1. Append(a, b) \in Seq(Block) /\ Len(Append(a, b)) = n + 1
      BY AppendProperties DEF n
    <3>2. DOMAIN Append(a, b) = 1..(n + 1)
      BY <3>1, LenProperties
    <3>3. /\ \A i \in 1..n : Append(a, b)[i] = a[i]
          /\ Append(a, b)[n + 1] = b
      BY AppendProperties DEF n
    <3> HIDE DEF c
    <3> QED BY <2>1, <3>1, <3>2, <3>3
  <2> HIDE DEF c
  <2>3. \A i \in 1..(n + 1) : i \in 1..n \/ i = n + 1
    BY <1>1
  <2>4. \A i \in 1..n : U!End(a[i]) < b.va
    <3> SUFFICES ASSUME NEW i \in 1..n PROVE U!End(a[i]) < b.va
      OBVIOUS
    <3>1. n \in 1..n /\ a # <<>>
      BY <1>1, EmptySeq
    <3>2. U!End(a[n]) < b.va
      <4>1. U!End(a[n]) # b.va
        BY <1>5, <3>1 DEF U!Last, n
      <4>2. U!End(a[n]) \in Int /\ b.va \in Int /\ U!End(a[n]) <= b.va
        BY <1>1, <1>2, <1>3, <3>1
      <4> QED BY <4>1, <4>2
    <3>3. CASE i = n
      BY <3>2, <3>3
    <3>4. CASE i # n
      <4>1. i < n
        BY <1>1, <3>4
      <4>2. U!End(a[i]) < a[n].va
        BY <1>1, <3>1, <4>1 DEF Sorted
      <4>3. U!End(a[n]) \in Int /\ b.va \in Int /\ U!End(a[i]) \in Int /\ a[n].va < U!End(a[n])
              /\ a[n].va \in Int
        <5>1. \A k \in 1..n : U!End(a[k]) \in Int /\ a[k].va < U!End(a[k]) /\ a[k].va \in Int
          BY <1>1
        <5> QED BY <1>2, <3>1, <5>1
      <4> QED BY <3>2, <4>2, <4>3
    <3> QED BY <3>3, <3>4
  <2>5. Sorted(c)
    <3> SUFFICES ASSUME NEW i \in 1..(n + 1), NEW j \in 1..(n + 1), i < j
                 PROVE  U!End(c[i]) < c[j].va
      BY <2>2 DEF Sorted
    <3>1. i \in 1..n
      BY <1>1
    <3>2. CASE j = n + 1
      BY <2>2, <2>4, <3>1, <3>2
    <3>3. CASE j \in 1..n
      BY <1>1, <2>2, <3>1, <3>3 DEF Sorted
    <3> QED BY <2>3, <3>2, <3>3
  <2>6. ASSUME NEW p \in Int PROVE Covers(c, p) <=> Covers(a, p) \/ p \in U!Extent(b)
    <3>1. n + 1 \in 1..(n + 1) /\ \A i \in 1..n : i \in 1..(n + 1)
      BY <1>1
    <3> QED BY <1>1, <2>2, <2>3, <3>1 DEF Covers
  <2>7. \A j \in 1..(n + 1) : U!End(c[j]) <= U!End(b)
    <3> SUFFICES ASSUME NEW j \in 1..(n + 1) PROVE U!End(c[j]) <= U!End(b)
      OBVIOUS
    <3>1. CASE j = n + 1
      BY <1>2, <2>2, <3>1
    <3>2. CASE j \in 1..n
      <4>1. c[j] = a[j]
        BY <2>2, <3>2
      <4> QED BY <1>1, <1>2, <1>3, <3>2, <4>1
    <3> QED BY <1>1, <3>1, <3>2, SMTT(30)
  <2> QED BY <2>2, <2>5, <2>6, <2>7 DEF c, n
<1> QED BY <1>4, <1>5

(* MERGEE: blocks that touch become one.                                   *)
LEMMA Merged ==
  ASSUME NEW h \in Seq(Block), InOrder(h)
  PROVE  LET r == U!MERGEE(h)
         IN  /\ r \in Seq(Block) /\ Sorted(r)
             /\ \A p \in Int : Covers(r, p) <=> Covers(h, p)
<1> DEFINE n == Len(h)
           V == Seq(Block)
           sofar(a, i) ==
             /\ Sorted(a)
             /\ \A p \in Int : Covers(a, p) <=> \E j \in 1..i : p \in U!Extent(h[j])
             /\ \A j \in DOMAIN a, k \in (i + 1)..n : U!End(a[j]) <= h[k].va
           Q == [i \in 0..n |-> {a \in V : sofar(a, i)}]
           G == [i \in 1..n |-> [a \in V |-> MergeOne(a, h[i])]]
           after == CHOOSE f : f = [i \in 0..n |-> IF i = 0 THEN <<>> ELSE MergeOne(f[i - 1], h[i])]
           r == U!MERGEE(h)
<1>1. /\ n \in Nat /\ DOMAIN h = 1..n
      /\ \A i \in 1..n : h[i] \in Block /\ h[i].va \in Nat /\ U!End(h[i]) \in Nat
  <2>1. n \in Nat /\ DOMAIN h = 1..n
    BY LenProperties
  <2>2. \A i \in 1..n : h[i] \in Block
    BY <2>1, ElementOfSeq
  <2> QED BY <2>1, <2>2, PagesOfBlock DEF Block
<1>2. r = after[n]
  BY DEF U!MERGEE, U!Each, MergeOne
<1> HIDE DEF r
<1>3. Q \in [0..n -> SUBSET V]
  OBVIOUS
<1> HIDE DEF V
<1>4. <<>> \in Q[0]
  <2>1. <<>> \in V /\ Sorted(<<>>) /\ (\A p : ~Covers(<<>>, p)) /\ DOMAIN <<>> = {}
    BY DEF Sorted, Covers, V
  <2> QED BY <1>1, <2>1
<1>5. ASSUME NEW i \in 1..n, NEW a \in Q[i - 1] PROVE G[i][a] \in Q[i]
  <2>1. /\ i \in Nat \ {0} /\ i - 1 \in 0..n /\ i \in 0..n /\ (i - 1) + 1 = i
        /\ i \in i..n /\ 1..i = 1..(i - 1) \cup {i}
    BY <1>1
  <2>2. a \in V /\ sofar(a, i - 1)
    BY <2>1
  <2> DEFINE c == MergeOne(a, h[i])
  <2>3. G[i][a] = c
    BY <2>2
  <2> HIDE DEF G, Q
  <2>4. /\ c \in V /\ Sorted(c)
        /\ \A p \in Int : Covers(c, p) <=> Covers(a, p) \/ p \in U!Extent(h[i])
        /\ \A j \in DOMAIN c : U!End(c[j]) <= U!End(h[i])
    <3>1. \A j \in DOMAIN a : U!End(a[j]) <= h[i].va
      BY <2>1, <2>2
    <3>2. h[i] \in Block /\ a \in Seq(Block) /\ Sorted(a)
      BY <1>1, <2>2 DEF V
    <3> HIDE DEF sofar
    <3> QED BY <3>1, <3>2, MergeStep DEF V
  <2>5. \A p \in Int : Covers(c, p) <=> \E j \in 1..i : p \in U!Extent(h[j])
    BY <2>1, <2>2, <2>4
  <2>6. ASSUME NEW j \in DOMAIN c, NEW k \in (i + 1)..n PROVE U!End(c[j]) <= h[k].va
    <3>1. k \in 1..n /\ i < k
      BY <1>1, <2>1
    <3>2. U!End(h[i]) <= h[k].va
      BY <1>1, <3>1 DEF InOrder
    <3>3. U!End(c[j]) \in Int
      <4>1. c[j] \in Block
        BY <2>4, ElementOfSeq DEF V
      <4> QED BY <4>1, PagesOfBlock
    <3>4. U!End(h[i]) \in Int /\ h[k].va \in Int /\ U!End(c[j]) <= U!End(h[i])
      BY <1>1, <2>4, <3>1
    <3> QED BY <3>2, <3>3, <3>4
  <2>7. sofar(c, i)
    BY <2>4, <2>5, <2>6
  <2>8. c \in Q[i]
    <3> HIDE DEF sofar, c
    <3> QED BY <2>1, <2>4, <2>7 DEF Q
  <2> QED BY <2>3, <2>8 DEF c
<1>6. /\ \E f \in [0..n -> V] : f[0] = <<>> /\ \A i \in 1..n : f[i] = G[i][f[i - 1]]
      /\ \A f : (/\ f[0] = <<>>
                 /\ \A i \in 1..n : f[i - 1] \in V => f[i] = G[i][f[i - 1]])
                => f[n] \in Q[n]
  <2>1. n \in Nat /\ \A i \in 1..n : \A a \in Q[i - 1] : G[i][a] \in Q[i]
    BY <1>1, <1>5
  <2> HIDE DEF G, n, after, Q
  <2>2. Leads(n, V, Q, G, <<>>)
    BY <1>3, <1>4, <2>1 DEF Leads
  <2> QED BY <2>2, Chain
<1>7. after = [i \in 0..n |-> IF i = 0 THEN <<>> ELSE MergeOne(after[i - 1], h[i])]
  <2>1. PICK f \in [0..n -> V] : f[0] = <<>> /\ \A i \in 1..n : f[i] = G[i][f[i - 1]]
    BY <1>6
  <2> HIDE DEF Q
  <2>2. ASSUME NEW i \in 0..n PROVE f[i] = IF i = 0 THEN <<>> ELSE MergeOne(f[i - 1], h[i])
    <3>1. CASE i = 0
      BY <2>1, <3>1
    <3>2. CASE i # 0
      <4>1. i \in 1..n /\ i - 1 \in 0..n
        BY <1>1, <3>2
      <4>2. f[i - 1] \in V
        BY <4>1
      <4> QED BY <2>1, <3>2, <4>1, <4>2
    <3> QED BY <3>1, <3>2
  <2> HIDE DEF G
  <2>3. f = [i \in 0..n |-> IF i = 0 THEN <<>> ELSE MergeOne(f[i - 1], h[i])]
    BY <2>2
  <2> QED BY <2>3
<1>8. /\ after[0] = <<>>
      /\ \A i \in 1..n : after[i - 1] \in V => after[i] = G[i][after[i - 1]]
  <2>1. ASSUME NEW i \in 1..n, after[i - 1] \in V PROVE after[i] = G[i][after[i - 1]]
    <3>1. i \in 0..n /\ i # 0
      BY <1>1
    <3>2. after[i] = MergeOne(after[i - 1], h[i])
      <4> HIDE DEF after, G, Q
      <4> QED BY <1>7, <3>1
    <3> HIDE DEF after
    <3> QED BY <2>1, <3>2
  <2>2. after[0] = <<>>
    <3>1. 0 \in 0..n
      BY <1>1
    <3> HIDE DEF after, G, Q
    <3> QED BY <1>7, <3>1
  <2> QED BY <2>1, <2>2
<1>9. after[n] \in Q[n]
  <2> HIDE DEF after, G, Q
  <2> QED BY <1>6, <1>8
<1>10. after[n] \in V /\ sofar(after[n], n)
  <2>1. n \in 0..n
    BY <1>1
  <2> HIDE DEF after, sofar
  <2> QED BY <1>9, <2>1
<1> HIDE DEF after
<1> QED BY <1>1, <1>2, <1>10 DEF Covers, V, r

(* A set of numbers has a least one.                                       *)
LEMMA Least ==
  ASSUME NEW S \in SUBSET Nat, S # {}
  PROVE  \E m \in S : \A j \in S : m <= j
<1> DEFINE R == OpToRel(<, Nat)
<1>1. PICK m \in S : \A j \in S : ~(<<j, m>> \in R)
  <2>1. IsWellFoundedOn(R, Nat)
    BY NatLessThanWellFounded
  <2> HIDE DEF R
  <2> QED BY <2>1, WFMin
<1>2. ASSUME NEW j \in S PROVE m <= j
  <2>1. j \in Nat /\ m \in Nat
    OBVIOUS
  <2>2. ~(j < m)
    BY <1>1, <2>1 DEF OpToRel
  <2> QED BY <2>1, <2>2
<1> QED BY <1>2

(* The first place of a set, as SelectInSeq finds it, and the largest      *)
(* number of a set.                                                        *)
LEMMA FirstPlace ==
  ASSUME NEW n \in Nat, NEW I \in SUBSET (1..n), I # {}
  PROVE  U!Min(I) \in I /\ \A j \in I : U!Min(I) <= j
<1>1. I \in SUBSET Nat
  OBVIOUS
<1>2. PICK m \in I : \A j \in I : m <= j
  BY <1>1, Least
<1> QED BY <1>2 DEF U!Min

LEMMA BoundedMax ==
  ASSUME NEW k \in Nat, NEW S \in SUBSET Nat, S # {}, \A y \in S : y <= k
  PROVE  U!Max(S) \in S
<1> DEFINE R == {k - y : y \in S}
<1>1. R \in SUBSET Nat /\ R # {}
  <2>1. \A y \in S : k - y \in Nat
    <3> SUFFICES ASSUME NEW y \in S PROVE k - y \in Nat
      OBVIOUS
    <3>1. y \in Nat /\ y <= k
      OBVIOUS
    <3> QED BY <3>1
  <2> QED BY <2>1
<1>2. PICK m \in R : \A j \in R : m <= j
  <2> HIDE DEF R
  <2> QED BY <1>1, Least
<1>3. PICK x \in S : m = k - x
  OBVIOUS
<1>4. \A y \in S : x >= y
  <2> SUFFICES ASSUME NEW y \in S PROVE x >= y
    OBVIOUS
  <2>1. k - x <= k - y
    BY <1>2, <1>3
  <2> QED BY <2>1
<1> QED BY <1>4 DEF U!Max

LEMMA LargestIs ==
  ASSUME NEW S \in SUBSET Int, NEW m \in S, \A y \in S : y <= m
  PROVE  U!Max(S) = m
<1>1. \E x \in S : \A y \in S : x >= y
  OBVIOUS
<1>2. U!Max(S) \in S /\ \A y \in S : U!Max(S) >= y
  BY <1>1 DEF U!Max
<1>3. \A x \in S, y \in S : x >= y /\ y >= x => x = y
  OBVIOUS
<1> QED BY <1>2, <1>3

----------------------------------------------------------------------------
(* The objects of a program and the free blocks between them.              *)

UserObject == [va : Nat \ {0}, n : Nat \ {0}, shared : BOOLEAN]

\* Every page below k is in one object of os or one free block of h, none
\* above it is; the free blocks are sorted and apart.
Tiled(k, os, h) ==
  /\ k \in Nat \ {0} /\ os \in Seq(UserObject) /\ h \in Seq(Block)
  /\ Sorted(h)
  /\ \A i, j \in DOMAIN os : i # j => U!Extent(os[i]) \cap U!Extent(os[j]) = {}
  /\ \A p \in Int : Covers(os, p) \/ Covers(h, p) <=> 1 <= p /\ p < k
  /\ \A p \in Int : ~(Covers(os, p) /\ Covers(h, p))

\* What the kernel's table says of the pages of the objects.
Marked(m, os) ==
  \A p \in U!Pages :
    m[p] = IF \E i \in DOMAIN os : os[i].shared /\ p \in U!Extent(os[i]) THEN "shared"
           ELSE IF Covers(os, p) THEN "marked" ELSE "none"

\* The list h2 and the break k2 after b was placed between those of k and h.
Placed(k, h, b, k2, h2) ==
  \/ /\ k2 = k /\ h2 \in Seq(Block) /\ Sorted(h2)
     /\ \A p \in Int : p \in U!Extent(b) => Covers(h, p)
     /\ \A p \in Int : Covers(h2, p) <=> Covers(h, p) /\ p \notin U!Extent(b)
  \/ b.va = k /\ k2 = k + b.n /\ h2 = h

(* The pages of an object, and of one below the break.                     *)
LEMMA ObjectPages ==
  ASSUME NEW a, a.va \in Nat \ {0}, a.n \in Nat \ {0}
  PROVE  /\ U!End(a) \in Nat /\ a.va < U!End(a) /\ U!End(a) = a.va + a.n
         /\ \A p \in Int : p \in U!Extent(a) <=> a.va <= p /\ p < U!End(a)
         /\ a.va \in U!Extent(a) /\ U!End(a) - 1 \in U!Extent(a)
         /\ U!Extent(a) \subseteq Int
<1>1. /\ U!End(a) \in Nat /\ a.va < U!End(a) /\ U!End(a) = a.va + a.n
      /\ \A p \in Int : p \in U!Extent(a) <=> a.va <= p /\ p < U!End(a)
      /\ U!Extent(a) \subseteq Int
  BY DEF U!Extent, U!End
<1>2. a.va \in Int /\ U!End(a) - 1 \in Int /\ a.va <= U!End(a) - 1 /\ U!End(a) - 1 < U!End(a)
  BY <1>1
<1> QED BY <1>1, <1>2

LEMMA BelowBreak ==
  ASSUME NEW k, NEW os, NEW h, Tiled(k, os, h)
  PROVE  /\ \A i \in DOMAIN os : /\ os[i] \in UserObject
                                 /\ os[i].va \in Nat \ {0} /\ os[i].n \in Nat \ {0}
                                 /\ U!End(os[i]) \in Nat /\ U!End(os[i]) <= k
         /\ \A i \in DOMAIN h : /\ h[i] \in Block
                                /\ h[i].va \in Nat \ {0} /\ h[i].n \in Nat \ {0}
                                /\ U!End(h[i]) \in Nat /\ U!End(h[i]) <= k
         /\ \A i \in DOMAIN h, j \in DOMAIN os : U!Extent(h[i]) \cap U!Extent(os[j]) = {}
<1>1. /\ \A i \in DOMAIN os : os[i] \in UserObject
      /\ \A i \in DOMAIN h : h[i] \in Block
  <2>1. os \in Seq(UserObject) /\ h \in Seq(Block)
    BY DEF Tiled
  <2>2. DOMAIN os = 1..Len(os) /\ DOMAIN h = 1..Len(h)
    BY <2>1, LenProperties
  <2>3. \A i \in DOMAIN os : os[i] \in UserObject
    BY <2>1, <2>2, ElementOfSeq
  <2>4. \A i \in DOMAIN h : h[i] \in Block
    BY <2>1, <2>2, ElementOfSeq
  <2> QED BY <2>3, <2>4
<1> DEFINE covered == \A p \in Int : Covers(os, p) \/ Covers(h, p) => p < k
<1>2. covered /\ k \in Int
  <2>1. k \in Nat \ {0} /\ \A p \in Int : Covers(os, p) \/ Covers(h, p) <=> 1 <= p /\ p < k
    BY Zenon DEF Tiled
  <2> QED BY <2>1
<1>3. ASSUME NEW i \in DOMAIN os
      PROVE  /\ os[i].va \in Nat \ {0} /\ os[i].n \in Nat \ {0}
             /\ U!End(os[i]) \in Nat /\ U!End(os[i]) <= k
  <2>1. os[i].va \in Nat \ {0} /\ os[i].n \in Nat \ {0}
    BY <1>1 DEF UserObject
  <2>2. U!End(os[i]) \in Nat /\ U!End(os[i]) - 1 \in U!Extent(os[i])
    BY <2>1, ObjectPages
  <2> DEFINE e == U!End(os[i])
  <2> HIDE DEF e
  <2>3. e - 1 \in Int /\ Covers(os, e - 1)
    <3>1. e \in Nat /\ e - 1 \in U!Extent(os[i])
      BY <2>2 DEF e
    <3>2. Covers(os, e - 1)
      BY <3>1 DEF Covers
    <3> QED BY <3>1, <3>2
  <2>4. e - 1 < k
    BY <1>2, <2>3
  <2>5. e <= k
    <3>1. e \in Int /\ k \in Int
      BY <1>2, <2>2 DEF e
    <3> QED BY <2>4, <3>1
  <2> QED BY <2>1, <2>2, <2>5 DEF e
<1>4. ASSUME NEW i \in DOMAIN h
      PROVE  /\ h[i].va \in Nat \ {0} /\ h[i].n \in Nat \ {0}
             /\ U!End(h[i]) \in Nat /\ U!End(h[i]) <= k
  <2>1. h[i].va \in Nat \ {0} /\ h[i].n \in Nat \ {0}
    BY <1>1 DEF Block
  <2>2. U!End(h[i]) \in Nat /\ U!End(h[i]) - 1 \in U!Extent(h[i])
    BY <2>1, ObjectPages
  <2> DEFINE e == U!End(h[i])
  <2> HIDE DEF e
  <2>3. e - 1 \in Int /\ Covers(h, e - 1)
    <3>1. e \in Nat /\ e - 1 \in U!Extent(h[i])
      BY <2>2 DEF e
    <3>2. Covers(h, e - 1)
      BY <3>1 DEF Covers
    <3> QED BY <3>1, <3>2
  <2>4. e - 1 < k
    BY <1>2, <2>3
  <2>5. e <= k
    <3>1. e \in Int /\ k \in Int
      BY <1>2, <2>2 DEF e
    <3> QED BY <2>4, <3>1
  <2> QED BY <2>1, <2>2, <2>5 DEF e
<1>5. ASSUME NEW i \in DOMAIN h, NEW j \in DOMAIN os
      PROVE  U!Extent(h[i]) \cap U!Extent(os[j]) = {}
  <2>1. U!Extent(h[i]) \subseteq Int
    BY <1>4, ObjectPages
  <2> QED BY <2>1 DEF Tiled, Covers
<1> QED BY <1>1, <1>3, <1>4, <1>5

(* A new object, at the head of the list.                                  *)
LEMMA ObjectAdded ==
  ASSUME NEW k, NEW os, NEW h, Tiled(k, os, h), NEW b \in UserObject,
         NEW k2, NEW h2, Placed(k, h, b, k2, h2)
  PROVE  Tiled(k2, <<b>> \o os, h2) /\ k <= k2 /\ k2 \in Nat /\ U!End(b) <= k2
<1> DEFINE n == Len(os)
           c == <<b>> \o os
<1>1. /\ k \in Nat \ {0} /\ os \in Seq(UserObject) /\ h \in Seq(Block)
      /\ n \in Nat /\ DOMAIN os = 1..n
  BY LenProperties DEF Tiled
<1>2. b.va \in Nat \ {0} /\ b.n \in Nat \ {0}
  BY DEF UserObject
<1>3. /\ c \in Seq(UserObject) /\ DOMAIN c = 1..(n + 1)
      /\ c[1] = b /\ 1 \in 1..(n + 1)
      /\ \A i \in 1..n : c[i + 1] = os[i] /\ i + 1 \in 1..(n + 1) /\ i + 1 # 1
      /\ \A i \in 1..(n + 1) : i = 1 \/ \E j \in 1..n : i = j + 1
  BY <1>1, HeadAndRest
<1> HIDE DEF c, n
<1>4. \A i \in 1..(n + 1) : i = 1 \/ (\E j \in 1..n : i = j + 1 /\ c[i] = os[j])
  BY <1>3
<1>5. \A p : Covers(c, p) <=> p \in U!Extent(b) \/ Covers(os, p)
  BY <1>1, <1>3, <1>4 DEF Covers
<1>6. /\ U!Extent(b) \subseteq Int /\ U!End(b) \in Nat /\ b.va < U!End(b)
      /\ U!End(b) = b.va + b.n /\ U!End(b) - 1 \in U!Extent(b)
      /\ \A p \in Int : p \in U!Extent(b) <=> b.va <= p /\ p < U!End(b)
  BY <1>2, ObjectPages
<1>7. \A p \in Int : p \in U!Extent(b) => ~Covers(os, p)
  <2>1. CASE \A p \in Int : p \in U!Extent(b) => Covers(h, p)
    BY <2>1 DEF Tiled
  <2>2. CASE b.va = k
    <3> SUFFICES ASSUME NEW p \in Int, p \in U!Extent(b) PROVE ~Covers(os, p)
      OBVIOUS
    <3>1. k <= p
      BY <1>6, <2>2
    <3>2. ~(p < k)
      BY <1>1, <3>1
    <3> QED BY <3>2 DEF Tiled
  <2> QED BY <2>1, <2>2 DEF Placed
<1>8. \A i, j \in 1..(n + 1) : i # j => U!Extent(c[i]) \cap U!Extent(c[j]) = {}
  <2>1. \A i \in 1..n : U!Extent(b) \cap U!Extent(os[i]) = {}
    BY <1>1, <1>6, <1>7 DEF Covers
  <2> SUFFICES ASSUME NEW i \in 1..(n + 1), NEW j \in 1..(n + 1), i # j
               PROVE  U!Extent(c[i]) \cap U!Extent(c[j]) = {}
    OBVIOUS
  <2>2. CASE i = 1 /\ j = 1
    BY <2>2
  <2>3. CASE i = 1 /\ \E l \in 1..n : c[j] = os[l]
    BY <1>3, <2>1, <2>3
  <2>4. CASE j = 1 /\ \E l \in 1..n : c[i] = os[l]
    BY <1>3, <2>1, <2>4
  <2>5. ASSUME NEW l \in 1..n, i = l + 1, NEW m \in 1..n, j = m + 1
        PROVE  U!Extent(c[i]) \cap U!Extent(c[j]) = {}
    <3>1. l # m
      BY <2>5
    <3>2. \A x, y \in DOMAIN os : x # y => U!Extent(os[x]) \cap U!Extent(os[y]) = {}
      BY Zenon DEF Tiled
    <3> QED BY <1>1, <1>3, <2>5, <3>1, <3>2
  <2> QED BY <1>4, <2>2, <2>3, <2>4, <2>5, SMTT(30)
<1>9. CASE b.va = k /\ k2 = k + b.n /\ h2 = h
  <2>1. k2 \in Nat \ {0} /\ k <= k2 /\ U!End(b) = k2
    BY <1>1, <1>2, <1>6, <1>9
  <2>2. ASSUME NEW p \in Int PROVE Covers(c, p) \/ Covers(h2, p) <=> 1 <= p /\ p < k2
    <3>1. p \in U!Extent(b) <=> k <= p /\ p < k2
      BY <1>6, <1>9, <2>1
    <3>2. Covers(os, p) \/ Covers(h, p) <=> 1 <= p /\ p < k
      BY DEF Tiled
    <3>3. (k <= p /\ p < k2) \/ (1 <= p /\ p < k) <=> 1 <= p /\ p < k2
      BY <1>1, <2>1
    <3> QED BY <1>5, <1>9, <3>1, <3>2, <3>3
  <2>3. ASSUME NEW p \in Int PROVE ~(Covers(c, p) /\ Covers(h2, p))
    <3>1. p \in U!Extent(b) => ~(p < k)
      BY <1>1, <1>6, <1>9
    <3> QED BY <1>5, <1>9, <3>1 DEF Tiled
  <2>5. Sorted(h2) /\ h2 \in Seq(Block)
    BY <1>9 DEF Tiled
  <2>6. k2 <= k2
    BY <2>1
  <2> QED BY <1>3, <1>8, <2>1, <2>2, <2>3, <2>5, <2>6 DEF Tiled, c
<1>10. CASE /\ k2 = k /\ h2 \in Seq(Block) /\ Sorted(h2)
            /\ \A p \in Int : p \in U!Extent(b) => Covers(h, p)
            /\ \A p \in Int : Covers(h2, p) <=> Covers(h, p) /\ p \notin U!Extent(b)
  <2>1. k2 \in Nat \ {0} /\ k <= k2 /\ U!End(b) <= k2
    <3>1. U!End(b) - 1 < k
      BY <1>6, <1>10 DEF Tiled
    <3> QED BY <1>1, <1>6, <1>10, <3>1
  <2>2. ASSUME NEW p \in Int PROVE Covers(c, p) \/ Covers(h2, p) <=> 1 <= p /\ p < k2
    <3>1. Covers(os, p) \/ Covers(h, p) <=> 1 <= p /\ p < k2
      BY <1>10 DEF Tiled
    <3>2. Covers(c, p) \/ Covers(h2, p) <=> Covers(os, p) \/ Covers(h, p)
      BY <1>5, <1>10
    <3> QED BY <3>1, <3>2
  <2>3. \A p \in Int : ~(Covers(c, p) /\ Covers(h2, p))
    BY <1>5, <1>10 DEF Tiled
  <2> QED BY <1>3, <1>8, <1>10, <2>1, <2>2, <2>3 DEF Tiled, c
<1> QED BY <1>9, <1>10 DEF Placed

(* An object leaves, and its pages go to the free blocks.                  *)
LEMMA ObjectRemoved ==
  ASSUME NEW k, NEW os, NEW h, Tiled(k, os, h), NEW i \in DOMAIN os,
         NEW h2 \in Seq(Block), Sorted(h2),
         \A p \in Int : Covers(h2, p) <=> Covers(h, p) \/ p \in U!Extent(os[i])
  PROVE  Tiled(k, U!RemoveAt(os, i), h2)
<1> DEFINE n == Len(os)
           c == U!RemoveAt(os, i)
<1>1. /\ k \in Nat \ {0} /\ os \in Seq(UserObject)
      /\ n \in Nat /\ DOMAIN os = 1..n /\ i \in 1..n
  BY LenProperties DEF Tiled
<1>2. c \in Seq(UserObject) /\ Without(os, i, c)
  BY <1>1, WithoutOne
<1> HIDE DEF c, n
<1>3. PICK f \in [DOMAIN c -> 1..n] :
        /\ \A j \in DOMAIN c : f[j] # i /\ c[j] = os[f[j]]
        /\ \A j, m \in DOMAIN c : (j # m => f[j] # f[m]) /\ (j < m => f[j] < f[m])
        /\ \A l \in 1..n : l # i => \E j \in DOMAIN c : f[j] = l
  BY <1>1, <1>2 DEF Without
<1>4. \A m \in 1..n : m # i => \E j \in DOMAIN c : c[j] = os[m]
  BY <1>3
<1>5. \A p : Covers(c, p) <=> \E m \in 1..n : m # i /\ p \in U!Extent(os[m])
  BY <1>3, <1>4 DEF Covers
<1>6. \A p : Covers(os, p) <=> Covers(c, p) \/ p \in U!Extent(os[i])
  BY <1>1, <1>5 DEF Covers
<1>7. \A p : ~(Covers(c, p) /\ p \in U!Extent(os[i]))
  <2>1. \A m \in 1..n : m # i => U!Extent(os[m]) \cap U!Extent(os[i]) = {}
    BY <1>1 DEF Tiled
  <2> QED BY <1>5, <2>1
<1>8. \A j, m \in DOMAIN c : j # m => U!Extent(c[j]) \cap U!Extent(c[m]) = {}
  <2>1. \A j, m \in 1..n : j # m => U!Extent(os[j]) \cap U!Extent(os[m]) = {}
    BY <1>1 DEF Tiled
  <2> SUFFICES ASSUME NEW j \in DOMAIN c, NEW m \in DOMAIN c, j # m
               PROVE  U!Extent(c[j]) \cap U!Extent(c[m]) = {}
    OBVIOUS
  <2>2. f[j] \in 1..n /\ f[m] \in 1..n /\ f[j] # f[m]
    BY <1>3
  <2>3. c[j] = os[f[j]] /\ c[m] = os[f[m]]
    BY <1>3
  <2> QED BY <2>1, <2>2, <2>3
<1>9. /\ \A p \in Int : Covers(os, p) \/ Covers(h, p) <=> 1 <= p /\ p < k
      /\ \A p \in Int : ~(Covers(os, p) /\ Covers(h, p))
  BY Zenon DEF Tiled
<1>10. \A p \in Int : Covers(c, p) \/ Covers(h2, p) <=> 1 <= p /\ p < k
  <2> SUFFICES ASSUME NEW p \in Int
               PROVE  Covers(c, p) \/ Covers(h2, p) <=> 1 <= p /\ p < k
    OBVIOUS
  <2>1. Covers(c, p) \/ Covers(h2, p) <=> Covers(os, p) \/ Covers(h, p)
    BY <1>6
  <2> QED BY <1>9, <2>1
<1>11. \A p \in Int : ~(Covers(c, p) /\ Covers(h2, p))
  BY <1>6, <1>7, <1>9
<1> QED BY <1>1, <1>2, <1>8, <1>10, <1>11, Zenon DEF Tiled, c

(* The marks that go with a new object and with one that leaves.           *)
LEMMA MarkedAdded ==
  ASSUME NEW k, NEW os, NEW h, Tiled(k, os, h), Marked(page, os),
         NEW b \in UserObject, NEW k2, NEW h2, Placed(k, h, b, k2, h2)
  PROVE  Marked(U!Set(U!Extent(b), IF b.shared THEN "shared" ELSE "marked"), <<b>> \o os)
<1> DEFINE c == <<b>> \o os
           m == U!Set(U!Extent(b), IF b.shared THEN "shared" ELSE "marked")
           n == Len(os)
<1>1. Tiled(k2, c, h2)
  BY ObjectAdded
<1>2. os \in Seq(UserObject)
  BY DEF Tiled
<1>3. /\ n \in Nat /\ DOMAIN os = 1..n /\ DOMAIN c = 1..(n + 1)
      /\ c[1] = b /\ 1 \in 1..(n + 1)
      /\ \A i \in 1..n : c[i + 1] = os[i] /\ i + 1 \in 1..(n + 1) /\ i + 1 # 1
      /\ \A i \in 1..(n + 1) : i = 1 \/ \E j \in 1..n : i = j + 1
  BY <1>2, HeadAndRest
<1> HIDE DEF c, n
<1>4. /\ \A i \in DOMAIN c : c[i] = b \/ \E j \in DOMAIN os : c[i] = os[j]
      /\ \A j \in DOMAIN os : \E i \in DOMAIN c : c[i] = os[j]
      /\ \E i \in DOMAIN c : c[i] = b
  <2>1. \A i \in 1..(n + 1) : c[i] = b \/ \E j \in 1..n : c[i] = os[j]
    <3> TAKE i \in 1..(n + 1)
    <3>1. CASE i = 1
      BY <1>3, <3>1, Zenon
    <3>2. ASSUME NEW j \in 1..n, i = j + 1
          PROVE  c[i] = os[j]
      BY <1>3, <3>2, Zenon
    <3> QED BY <1>3, <3>1, <3>2, Zenon
  <2>2. \A j \in 1..n : \E i \in 1..(n + 1) : c[i] = os[j]
    BY <1>3, Zenon
  <2>3. \E i \in 1..(n + 1) : c[i] = b
    BY <1>3, Zenon
  <2> QED BY <1>3, <2>1, <2>2, <2>3, Zenon
<1>5. \A j \in DOMAIN os : U!Extent(os[j]) \cap U!Extent(b) = {}
  <2>1. \A j, l \in DOMAIN c : j # l => U!Extent(c[j]) \cap U!Extent(c[l]) = {}
    BY <1>1, Zenon DEF Tiled
  <2> QED BY <1>3, <2>1
<1> SUFFICES ASSUME NEW p \in U!Pages
             PROVE  m[p] = IF \E j \in DOMAIN c : c[j].shared /\ p \in U!Extent(c[j])
                           THEN "shared"
                           ELSE IF Covers(c, p) THEN "marked" ELSE "none"
  BY DEF Marked, c
<1>6. CASE p \in U!Extent(b)
  <2>1. m[p] = IF b.shared THEN "shared" ELSE "marked"
    BY <1>6 DEF U!Set
  <2>2. \A j \in DOMAIN os : p \notin U!Extent(os[j])
    BY <1>5, <1>6
  <2>3. Covers(c, p)
    BY <1>4, <1>6, Zenon DEF Covers
  <2>4. (\E j \in DOMAIN c : c[j].shared /\ p \in U!Extent(c[j])) <=> b.shared
    BY <1>4, <1>6, <2>2, Zenon
  <2> HIDE DEF m
  <2> QED BY <2>1, <2>3, <2>4
<1>7. CASE p \notin U!Extent(b)
  <2>1. m[p] = page[p]
    BY <1>7 DEF U!Set
  <2>2. Covers(c, p) <=> Covers(os, p)
    BY <1>4, <1>7, Zenon DEF Covers
  <2>3. (\E j \in DOMAIN c : c[j].shared /\ p \in U!Extent(c[j]))
          <=> \E j \in DOMAIN os : os[j].shared /\ p \in U!Extent(os[j])
    BY <1>4, <1>7, Zenon
  <2>4. page[p] = IF \E j \in DOMAIN os : os[j].shared /\ p \in U!Extent(os[j]) THEN "shared"
                  ELSE IF Covers(os, p) THEN "marked" ELSE "none"
    BY DEF Marked
  <2> HIDE DEF m
  <2> QED BY <2>1, <2>2, <2>3, <2>4
<1> QED BY <1>6, <1>7

LEMMA MarkedRemoved ==
  ASSUME NEW k, NEW os, NEW h, Tiled(k, os, h), Marked(page, os), NEW i \in DOMAIN os
  PROVE  Marked(U!Set(U!Extent(os[i]), "none"), U!RemoveAt(os, i))
<1> DEFINE c == U!RemoveAt(os, i)
           m == U!Set(U!Extent(os[i]), "none")
<1>1. /\ \A j \in DOMAIN c : \E l \in DOMAIN os : l # i /\ c[j] = os[l]
      /\ \A l \in DOMAIN os : l # i => \E j \in DOMAIN c : c[j] = os[l]
  <2>1. os \in Seq(UserObject)
    BY DEF Tiled
  <2>2. Without(os, i, c)
    BY <2>1, WithoutOne
  <2> HIDE DEF c
  <2> QED BY <2>2 DEF Without
<1> HIDE DEF c
<1>2. \A l \in DOMAIN os : l # i => U!Extent(os[l]) \cap U!Extent(os[i]) = {}
  BY Zenon DEF Tiled
<1> SUFFICES ASSUME NEW p \in U!Pages
             PROVE  m[p] = IF \E j \in DOMAIN c : c[j].shared /\ p \in U!Extent(c[j])
                           THEN "shared"
                           ELSE IF Covers(c, p) THEN "marked" ELSE "none"
  BY DEF Marked, c
<1>3. CASE p \in U!Extent(os[i])
  <2>1. m[p] = "none"
    BY <1>3 DEF U!Set
  <2>2. \A j \in DOMAIN c : p \notin U!Extent(c[j])
    BY <1>1, <1>2, <1>3
  <2> HIDE DEF m
  <2> QED BY <2>1, <2>2 DEF Covers
<1>4. CASE p \notin U!Extent(os[i])
  <2>1. m[p] = page[p]
    BY <1>4 DEF U!Set
  <2>2. Covers(c, p) <=> Covers(os, p)
    BY <1>1, <1>4 DEF Covers
  <2>3. (\E j \in DOMAIN c : c[j].shared /\ p \in U!Extent(c[j]))
          <=> \E j \in DOMAIN os : os[j].shared /\ p \in U!Extent(os[j])
    BY <1>1, <1>4
  <2>4. page[p] = IF \E j \in DOMAIN os : os[j].shared /\ p \in U!Extent(os[j]) THEN "shared"
                  ELSE IF Covers(os, p) THEN "marked" ELSE "none"
    BY DEF Marked
  <2> HIDE DEF m
  <2> QED BY <2>1, <2>2, <2>3, <2>4
<1> QED BY <1>3, <1>4

----------------------------------------------------------------------------
(* Where an object goes.                                                   *)

(* Among blocks that are no longer than k there is a longest.              *)
LEMMA LongestBlock ==
  ASSUME NEW h \in Seq(Block), h # <<>>, NEW k \in Nat, \A i \in DOMAIN h : h[i].n <= k
  PROVE  \E i \in DOMAIN h : \A j \in DOMAIN h : h[j].n <= h[i].n
<1> DEFINE R == OpToRel(<, Nat)
           S == {k - h[i].n : i \in DOMAIN h}
<1>1. \A i \in DOMAIN h : h[i].n \in Nat /\ h[i].n <= k
  <2>1. DOMAIN h = 1..Len(h)
    BY LenProperties
  <2>2. \A i \in DOMAIN h : h[i] \in Block
    BY <2>1, ElementOfSeq
  <2> QED BY <2>2 DEF Block
<1>2. S \subseteq Nat
  BY <1>1
<1>3. S # {}
  <2>1. DOMAIN h = 1..Len(h) /\ Len(h) \in Nat /\ Len(h) # 0
    BY LenProperties, EmptySeq
  <2>2. 1 \in DOMAIN h
    BY <2>1
  <2> QED BY <2>2
<1>4. PICK m \in S : \A j \in S : ~(<<j, m>> \in R)
  <2>1. IsWellFoundedOn(R, Nat)
    BY NatLessThanWellFounded
  <2> HIDE DEF R, S
  <2> QED BY <1>2, <1>3, <2>1, WFMin
<1>5. PICK i \in DOMAIN h : m = k - h[i].n
  OBVIOUS
<1>6. ASSUME NEW j \in DOMAIN h PROVE h[j].n <= h[i].n
  <2>1. k - h[j].n \in S /\ k - h[j].n \in Nat /\ m \in Nat
    BY <1>2
  <2>2. ~(k - h[j].n < m)
    BY <1>4, <2>1 DEF OpToRel
  <2>3. h[j].n \in Nat /\ h[i].n \in Nat
    BY <1>1
  <2> QED BY <1>5, <2>1, <2>2, <2>3
<1> QED BY <1>6

\* The block that EXACTTT and WORSTTT find.
Chosen(n) == IF U!EXACTTT(n) # 0 THEN U!EXACTTT(n) ELSE U!WORSTTT(n)

(* It has the size that is asked for, if one has, and else is one of the   *)
(* longest; and none fits if there is none.                                *)
LEMMA ChosenFits ==
  ASSUME holes \in Seq(Block), NEW k \in Nat, \A i \in DOMAIN holes : holes[i].n <= k,
         NEW n \in Nat \ {0}
  PROVE  /\ Chosen(n) = 0 => /\ \A j \in DOMAIN holes : holes[j].n < n
                             /\ U!EXACTTT(n) = 0 /\ U!WORSTTT(n) = 0
         /\ Chosen(n) # 0 =>
              LET i == Chosen(n)
              IN  /\ i \in DOMAIN holes /\ n <= holes[i].n
                  /\ \/ holes[i].n = n
                     \/ \A j \in DOMAIN holes : holes[j].n # n /\ holes[j].n <= holes[i].n
<1> DEFINE l == Len(holes)
           E == {i \in 1..l : holes[i].n = n}
           W == {i \in 1..l : holes[i].n >= n /\ \A c \in U!ToSet(holes) : c.n <= holes[i].n}
<1>1. l \in Nat /\ DOMAIN holes = 1..l
  BY LenProperties
<1>2. U!ToSet(holes) = {holes[j] : j \in 1..l}
  BY <1>1 DEF U!ToSet
<1>3. U!EXACTTT(n) = IF E # {} THEN U!Min(E) ELSE 0
  BY DEF U!EXACTTT, U!SelectInSeq
<1>4. U!WORSTTT(n) = IF W # {} THEN U!Min(W) ELSE 0
  BY DEF U!WORSTTT, U!SelectInSeq
<1>5. \A i \in 1..l : holes[i].n \in Nat /\ holes[i].n <= k
  <2>1. \A i \in 1..l : holes[i] \in Block
    BY ElementOfSeq
  <2> QED BY <1>1, <2>1 DEF Block
<1>6. \A i \in W : \A j \in 1..l : holes[j].n <= holes[i].n
  BY <1>2
<1>7. E \in SUBSET (1..l) /\ W \in SUBSET (1..l)
      /\ (\A i \in E : holes[i].n = n) /\ (\A i \in W : holes[i].n >= n)
      /\ (\A i \in 1..l : holes[i].n = n => i \in E)
  OBVIOUS
<1>8. ASSUME W = {} PROVE \A j \in 1..l : holes[j].n < n
  <2>1. CASE holes = <<>>
    <3>1. DOMAIN holes = {}
      BY <2>1
    <3> QED BY <1>1, <3>1
  <2>2. CASE holes # <<>>
    <3>1. PICK i \in 1..l : \A j \in 1..l : holes[j].n <= holes[i].n
      BY <1>1, <2>2, LongestBlock
    <3>2. ~(holes[i].n >= n)
      BY <1>2, <1>8, <3>1
    <3> QED BY <1>5, <3>1, <3>2
  <2> QED BY <2>1, <2>2
<1> HIDE DEF E, W, l
<1>9. CASE E # {}
  <2> DEFINE m == U!Min(E)
  <2>1. m \in E
    BY <1>1, <1>7, <1>9, FirstPlace
  <2> HIDE DEF m
  <2>2. m \in 1..l /\ m # 0
    <3>1. E \subseteq 1..l
      BY <1>7
    <3>2. m \in 1..l
      BY <2>1, <3>1
    <3> QED BY <1>1, <3>2
  <2>3. Chosen(n) = m
    BY <1>3, <1>9, <2>2 DEF Chosen, m
  <2>4. holes[m].n = n /\ n <= holes[m].n
    <3>1. holes[m].n = n
      BY <1>7, <2>1
    <3> QED BY <3>1
  <2> HIDE DEF m
  <2> QED BY <1>1, <2>2, <2>3, <2>4
<1>10. CASE E = {} /\ W # {}
  <2> DEFINE m == U!Min(W)
  <2>1. m \in W
    BY <1>1, <1>7, <1>10, FirstPlace
  <2> HIDE DEF m
  <2>2. m \in 1..l /\ m # 0
    <3>1. W \subseteq 1..l
      BY <1>7
    <3>2. m \in 1..l
      BY <2>1, <3>1
    <3> QED BY <1>1, <3>2
  <2>3. Chosen(n) = m
    BY <1>3, <1>4, <1>10 DEF Chosen, m
  <2>4. holes[m].n >= n /\ \A j \in 1..l : holes[j].n <= holes[m].n
    BY <1>6, <1>7, <2>1
  <2>5. \A j \in 1..l : holes[j].n # n
    BY <1>7, <1>10
  <2>6. n <= holes[m].n
    BY <1>5, <2>2, <2>4
  <2> HIDE DEF m
  <2> QED BY <1>1, <2>2, <2>3, <2>4, <2>5, <2>6
<1>11. CASE E = {} /\ W = {}
  <2>1. U!EXACTTT(n) = 0 /\ U!WORSTTT(n) = 0 /\ Chosen(n) = 0
    BY <1>3, <1>4, <1>11 DEF Chosen
  <2> QED BY <1>1, <1>8, <1>11, <2>1
<1> QED BY <1>9, <1>10, <1>11

(* The first n pages of a block are taken; the others stay.                *)
LEMMA BlockTaken ==
  ASSUME holes \in Seq(Block), Sorted(holes), NEW i \in DOMAIN holes,
         NEW n \in Nat \ {0}, n <= holes[i].n, NEW b, b.va = holes[i].va, b.n = n
  PROVE  /\ U!Taken(i, n) \in Seq(Block) /\ Sorted(U!Taken(i, n))
         /\ \A p \in Int : p \in U!Extent(b) => Covers(holes, p)
         /\ \A p \in Int : Covers(U!Taken(i, n), p) <=> Covers(holes, p) /\ p \notin U!Extent(b)
<1> DEFINE l == Len(holes)
           c == holes[i]
           r == U!Taken(i, n)
<1>1. /\ l \in Nat /\ DOMAIN holes = 1..l
      /\ \A j \in 1..l : /\ holes[j] \in Block /\ holes[j].va \in Nat \ {0} /\ holes[j].n \in Nat \ {0}
                         /\ U!End(holes[j]) \in Nat /\ U!End(holes[j]) = holes[j].va + holes[j].n
                         /\ holes[j].va < U!End(holes[j])
                         /\ \A p \in Int : p \in U!Extent(holes[j])
                                             <=> holes[j].va <= p /\ p < U!End(holes[j])
  <2>1. l \in Nat /\ DOMAIN holes = 1..l
    BY LenProperties
  <2>2. \A j \in 1..l : holes[j] \in Block /\ holes[j].va \in Nat \ {0} /\ holes[j].n \in Nat \ {0}
    <3>1. \A j \in 1..l : holes[j] \in Block
      BY ElementOfSeq
    <3> QED BY <3>1 DEF Block
  <2> QED BY <2>1, <2>2, ObjectPages
<1>2. /\ c.va \in Nat \ {0} /\ c.n \in Nat \ {0} /\ U!End(c) = c.va + c.n
      /\ \A p \in Int : p \in U!Extent(c) <=> c.va <= p /\ p < U!End(c)
  BY <1>1
<1>3. /\ \A p \in Int : p \in U!Extent(b) <=> c.va <= p /\ p < c.va + n
      /\ U!End(b) = c.va + n
  <2>1. b.va \in Nat \ {0} /\ b.n \in Nat \ {0}
    BY <1>2
  <2> QED BY <2>1, ObjectPages
<1>4. \A p \in Int : p \in U!Extent(b) => p \in U!Extent(c)
  BY <1>2, <1>3
<1>5. \A p \in Int : p \in U!Extent(b) => Covers(holes, p)
  BY <1>4 DEF Covers
<1>6. \A j, k \in 1..l : j < k => U!End(holes[j]) < holes[k].va
  BY <1>1 DEF Sorted
<1>7. ASSUME NEW j \in 1..l, j # i, NEW p \in Int, p \in U!Extent(holes[j]) PROVE p \notin U!Extent(c)
  <2>1. holes[j].va <= p /\ p < U!End(holes[j])
    BY <1>1, <1>7
  <2>2. i \in Int /\ j \in Int /\ i \in 1..l
    BY <1>1
  <2>3. CASE j < i
    <3>1. U!End(holes[j]) < c.va
      BY <1>6, <2>2, <2>3
    <3>2. U!End(holes[j]) \in Int
      BY <1>1
    <3> QED BY <1>2, <2>1, <3>1, <3>2
  <2>4. CASE i < j
    <3>1. U!End(c) < holes[j].va
      BY <1>6, <2>2, <2>4
    <3>2. U!End(c) \in Int /\ holes[j].va \in Int
      BY <1>1
    <3> QED BY <1>2, <2>1, <3>1, <3>2
  <2> QED BY <1>7, <2>2, <2>3, <2>4
<1>8. CASE c.n = n
  <2>1. r = U!RemoveAt(holes, i)
    BY <1>8 DEF U!Taken
  <2>2. r \in Seq(Block) /\ Without(holes, i, r)
    BY <2>1, WithoutOne
  <2> HIDE DEF r, c, l
  <2>3. PICK f \in [DOMAIN r -> DOMAIN holes] :
          /\ \A j \in DOMAIN r : f[j] # i /\ r[j] = holes[f[j]]
          /\ \A j, k \in DOMAIN r : (j # k => f[j] # f[k]) /\ (j < k => f[j] < f[k])
          /\ \A m \in DOMAIN holes : m # i => \E j \in DOMAIN r : f[j] = m
    BY <2>2 DEF Without
  <2>4. Sorted(r)
    <3> SUFFICES ASSUME NEW j \in DOMAIN r, NEW k \in DOMAIN r, j < k
                 PROVE  U!End(r[j]) < r[k].va
      BY DEF Sorted
    <3>1. f[j] \in 1..l /\ f[k] \in 1..l /\ f[j] < f[k] /\ r[j] = holes[f[j]] /\ r[k] = holes[f[k]]
      BY <1>1, <2>3
    <3> QED BY <1>6, <3>1
  <2>5. \A p \in Int : p \in U!Extent(b) <=> p \in U!Extent(c)
    BY <1>2, <1>3, <1>8
  <2>6. ASSUME NEW p \in Int PROVE Covers(r, p) <=> Covers(holes, p) /\ p \notin U!Extent(c)
    <3>1. ASSUME NEW j \in DOMAIN r, p \in U!Extent(r[j])
          PROVE  Covers(holes, p) /\ p \notin U!Extent(c)
      <4>1. f[j] \in 1..l /\ f[j] # i /\ r[j] = holes[f[j]]
        BY <1>1, <2>3
      <4> QED BY <1>1, <1>7, <3>1, <4>1 DEF Covers
    <3>2. ASSUME NEW m \in 1..l, p \in U!Extent(holes[m]), p \notin U!Extent(c)
          PROVE  Covers(r, p)
      <4>1. m # i
        BY <3>2 DEF c
      <4>2. PICK j \in DOMAIN r : f[j] = m
        BY <1>1, <2>3, <4>1
      <4> QED BY <2>3, <3>2, <4>2 DEF Covers
    <3> QED BY <1>1, <3>1, <3>2 DEF Covers
  <2> QED BY <1>5, <2>2, <2>4, <2>5, <2>6 DEF r
<1>9. CASE c.n # n
  <2> DEFINE d == [va |-> c.va + n, n |-> c.n - n]
  <2>1. d \in Block /\ d.va = c.va + n /\ d.n = c.n - n /\ c.n - n > 0
    <3>1. c.n - n \in Nat \ {0} /\ c.va + n \in Nat \ {0}
      BY <1>2, <1>9
    <3> HIDE DEF c
    <3> QED BY <3>1 DEF Block
  <2>2. r = [holes EXCEPT ![i] = d]
    BY <1>9 DEF U!Taken
  <2> HIDE DEF d
  <2>3. r \in Seq(Block) /\ DOMAIN r = 1..l /\ \A j \in 1..l : r[j] = IF j = i THEN d ELSE holes[j]
    <3>1. DOMAIN r = 1..l /\ \A j \in 1..l : r[j] = IF j = i THEN d ELSE holes[j]
      BY <1>1, <2>2
    <3>2. [holes EXCEPT ![i] = d] \in Seq(Block)
      BY <1>1, <2>1, ExceptSeq
    <3> QED BY <2>2, <3>1, <3>2
  <2> HIDE DEF r, c
  <2>4. /\ U!End(d) = U!End(c) /\ c.va < d.va
        /\ \A p \in Int : p \in U!Extent(d) <=> c.va + n <= p /\ p < U!End(c)
    <3>1. d.va \in Nat \ {0} /\ d.n \in Nat \ {0}
      BY <2>1 DEF Block
    <3>2. U!End(d) = d.va + d.n /\ \A p \in Int : p \in U!Extent(d) <=> d.va <= p /\ p < U!End(d)
      BY <3>1, ObjectPages
    <3>3. /\ c.va \in Int /\ c.n \in Int /\ n \in Int /\ n > 0
          /\ d.va = c.va + n /\ d.n = c.n - n /\ U!End(c) = c.va + c.n
      BY <1>2, <2>1
    <3>4. U!End(d) = U!End(c) /\ c.va < d.va
      BY <3>2, <3>3
    <3> QED BY <3>2, <3>3, <3>4
  <2>5. Sorted(r)
    <3> SUFFICES ASSUME NEW j \in 1..l, NEW k \in 1..l, j < k
                 PROVE  U!End(r[j]) < r[k].va
      BY <2>3 DEF Sorted
    <3>1. U!End(holes[j]) < holes[k].va /\ U!End(holes[j]) \in Int /\ holes[k].va \in Int
      BY <1>1, <1>6
    <3>2. U!End(r[j]) = U!End(holes[j])
      BY <2>3, <2>4 DEF c
    <3>3. holes[k].va <= r[k].va /\ r[k].va \in Int
      <4>1. CASE k = i
        <5>1. r[k] = d /\ holes[k] = c
          BY <2>3, <4>1 DEF c
        <5> QED BY <1>2, <2>1, <2>4, <5>1
      <4>2. CASE k # i
        <5>1. r[k] = holes[k]
          BY <2>3, <4>2
        <5> QED BY <3>1, <5>1
      <4> QED BY <4>1, <4>2
    <3> QED BY <3>1, <3>2, <3>3
  <2>6. ASSUME NEW p \in Int PROVE Covers(r, p) <=> Covers(holes, p) /\ p \notin U!Extent(b)
    <3>1. p \in U!Extent(d) <=> p \in U!Extent(c) /\ p \notin U!Extent(b)
      <4>1. c.va \in Int /\ n \in Int /\ U!End(c) \in Int /\ 0 < n
        BY <1>2
      <4>2. (c.va <= p /\ p < U!End(c)) /\ ~(c.va <= p /\ p < c.va + n)
              <=> c.va + n <= p /\ p < U!End(c)
        BY <4>1
      <4> QED BY <1>2, <1>3, <2>4, <4>2
    <3>2. ASSUME NEW j \in 1..l, p \in U!Extent(r[j]) PROVE Covers(holes, p) /\ p \notin U!Extent(b)
      <4>1. CASE j = i
        BY <1>1, <2>3, <3>1, <3>2, <4>1 DEF Covers, c
      <4>2. CASE j # i
        BY <1>1, <1>4, <1>7, <2>3, <3>2, <4>2 DEF Covers
      <4> QED BY <4>1, <4>2
    <3>3. ASSUME NEW j \in 1..l, p \in U!Extent(holes[j]), p \notin U!Extent(b) PROVE Covers(r, p)
      <4>1. CASE j = i
        BY <1>1, <2>3, <3>1, <3>3, <4>1 DEF Covers, c
      <4>2. CASE j # i
        BY <1>1, <2>3, <3>3, <4>2 DEF Covers
      <4> QED BY <4>1, <4>2
    <3> QED BY <1>1, <2>3, <3>2, <3>3 DEF Covers
  <2> QED BY <1>5, <2>3, <2>5, <2>6 DEF r
<1> QED BY <1>8, <1>9

\* Custom fit, by the list: the block of the size that is asked for, else one
\* of the longest, else the break.
BestFit(va, n) ==
  \/ va = userBrk /\ \A j \in DOMAIN holes : holes[j].n < n
  \/ \E i \in DOMAIN holes :
       /\ holes[i].va = va /\ n <= holes[i].n
       /\ \/ holes[i].n = n
          \/ \A j \in DOMAIN holes : holes[j].n # n /\ holes[j].n <= holes[i].n

(* customFit: where the next n pages go, and what it leaves.               *)
LEMMA CustomFitPlaces ==
  ASSUME Tiled(userBrk, allocs, holes), NEW n \in Nat \ {0},
         NEW b, b.va = U!CustomFit(n).va, b.n = n
  PROVE  LET f == U!CustomFit(n)
         IN  /\ b.va \in Nat \ {0}
             /\ Placed(userBrk, holes, b, f.brk, f.holes) /\ BestFit(b.va, n)
             /\ \/ f.brk = userBrk /\ \A p \in Int : p \in U!Extent(b) => Covers(holes, p)
                \/ /\ f.brk = userBrk + n /\ f.va = userBrk /\ f.holes = holes
                   /\ U!EXACTTT(n) = 0 /\ U!WORSTTT(n) = 0
<1> DEFINE f == U!CustomFit(n)
           i == Chosen(n)
<1>1. /\ userBrk \in Nat \ {0} /\ holes \in Seq(Block) /\ Sorted(holes)
      /\ \A j \in DOMAIN holes : /\ holes[j].va \in Nat \ {0} /\ holes[j].n \in Nat \ {0}
                                 /\ holes[j].n <= userBrk
  <2>1. \A j \in DOMAIN holes : /\ holes[j].va \in Nat \ {0} /\ holes[j].n \in Nat \ {0}
                                /\ U!End(holes[j]) <= userBrk
    BY BelowBreak
  <2>2. userBrk \in Nat \ {0} /\ holes \in Seq(Block) /\ Sorted(holes)
    BY Zenon DEF Tiled
  <2> QED BY <2>1, <2>2 DEF U!End
<1>2. f = IF i # 0 THEN [va |-> holes[i].va, holes |-> U!Taken(i, n), brk |-> userBrk]
          ELSE [va |-> userBrk, holes |-> holes, brk |-> userBrk + n]
  BY DEF U!CustomFit, Chosen
<1>3. /\ i = 0 => /\ \A j \in DOMAIN holes : holes[j].n < n
                  /\ U!EXACTTT(n) = 0 /\ U!WORSTTT(n) = 0
      /\ i # 0 => /\ i \in DOMAIN holes /\ n <= holes[i].n
                  /\ \/ holes[i].n = n
                     \/ \A j \in DOMAIN holes : holes[j].n # n /\ holes[j].n <= holes[i].n
  BY <1>1, ChosenFits
<1>4. b.va = f.va
  OBVIOUS
<1> HIDE DEF f, i
<1>5. CASE i # 0
  <2>1. f.va = holes[i].va /\ f.holes = U!Taken(i, n) /\ f.brk = userBrk
    BY <1>2, <1>5
  <2>2. i \in DOMAIN holes /\ n <= holes[i].n
    BY <1>3, <1>5
  <2>3. b.va = holes[i].va /\ b.va \in Nat \ {0}
    BY <1>1, <1>4, <2>1, <2>2
  <2>4. /\ f.holes \in Seq(Block) /\ Sorted(f.holes)
        /\ \A p \in Int : p \in U!Extent(b) => Covers(holes, p)
        /\ \A p \in Int : Covers(f.holes, p) <=> Covers(holes, p) /\ p \notin U!Extent(b)
    BY <1>1, <2>1, <2>2, <2>3, BlockTaken
  <2>5. BestFit(b.va, n)
    BY <1>3, <1>5, <2>3, Zenon DEF BestFit
  <2>6. Placed(userBrk, holes, b, f.brk, f.holes)
    BY <2>1, <2>4, Zenon DEF Placed
  <2> QED BY <2>1, <2>3, <2>4, <2>5, <2>6 DEF f
<1>6. CASE i = 0
  <2>1. f.va = userBrk /\ f.holes = holes /\ f.brk = userBrk + n
    BY <1>2, <1>6
  <2>2. BestFit(b.va, n)
    BY <1>3, <1>4, <1>6, <2>1, Zenon DEF BestFit
  <2>3. Placed(userBrk, holes, b, f.brk, f.holes)
    BY <1>4, <2>1 DEF Placed
  <2> QED BY <1>1, <1>3, <1>4, <1>6, <2>1, <2>2, <2>3 DEF f
<1> QED BY <1>5, <1>6

(* The operators on lists mean the same in every module.                   *)
LEMMA SameFilter == \A s, S : U!Filter(s, S) = Filter(s, S)
<1> SUFFICES ASSUME NEW s, NEW S PROVE U!Filter(s, S) = Filter(s, S)
  OBVIOUS
<1> QED BY Zenon DEF U!Filter, U!PlacesOf, U!Nth, U!Rank, Filter, PlacesOf, Nth, Rank,
                     U!Cardinality, Cardinality, U!IsFiniteSet, IsFiniteSet

\* What FREEblockk and sfree make of the list when b is given back.
Relisted(h, b) ==
  {U!MERGEE(U!FREEblockk(h, b)),
   U!MERGEE(U!Filter(h, {x \in U!ToSet(h) : x.va < b.va}) \o <<b>>
              \o U!Filter(h, {x \in U!ToSet(h) : x.va >= b.va}))}

(* A block that is given back lies between the others, and joins those     *)
(* that it touches.                                                        *)
LEMMA FreedBlock ==
  ASSUME NEW h \in Seq(Block), Sorted(h), NEW b \in Block,
         \A i \in DOMAIN h : U!Extent(h[i]) \cap U!Extent(b) = {},
         NEW r \in Relisted(h, b)
  PROVE  /\ r \in Seq(Block) /\ Sorted(r)
         /\ \A p \in Int : Covers(r, p) <=> Covers(h, p) \/ p \in U!Extent(b)
<1> DEFINE L == {x \in U!ToSet(h) : x.va < b.va}
           R == {x \in U!ToSet(h) : x.va > b.va}
           E == {x \in U!ToSet(h) : x.va >= b.va}
<1>1. \A i \in DOMAIN h : /\ h[i] \in Block /\ h[i].va \in Nat /\ h[i].va # b.va
                          /\ h[i] \in U!ToSet(h)
  <2>1. \A i \in DOMAIN h : h[i] \in Block
    BY ElementOfSeq
  <2>2. \A i \in DOMAIN h : h[i].va # b.va
    BY <2>1, PagesOfBlock
  <2> QED BY <2>1, <2>2 DEF U!ToSet, Block
<1>2. b.va \in Nat
  BY DEF Block
<1>3. /\ \A i \in DOMAIN h : h[i] \in L <=> h[i].va < b.va
      /\ \A i \in DOMAIN h : h[i] \in R <=> h[i].va > b.va
      /\ \A i \in DOMAIN h : h[i] \in E <=> h[i].va > b.va
  BY <1>1, <1>2
<1>4. U!FREEblockk(h, b) = Filter(h, L) \o <<b>> \o Filter(h, R)
  BY <1>1, SameFilter DEF U!FREEblockk
<1> HIDE DEF L, R, E
<1>5. ASSUME NEW s, s = Filter(h, L) \o <<b>> \o Filter(h, R)
                      \/ s = Filter(h, L) \o <<b>> \o Filter(h, E)
      PROVE  /\ s \in Seq(Block) /\ InOrder(s)
             /\ \A p : Covers(s, p) <=> Covers(h, p) \/ p \in U!Extent(b)
  <2>1. CASE s = Filter(h, L) \o <<b>> \o Filter(h, R)
    BY <1>3, <2>1, Inserted
  <2>2. CASE s = Filter(h, L) \o <<b>> \o Filter(h, E)
    BY <1>3, <2>2, Inserted
  <2> QED BY <1>5, <2>1, <2>2
<1>6. PICK s : /\ r = U!MERGEE(s)
               /\ \/ s = Filter(h, L) \o <<b>> \o Filter(h, R)
                  \/ s = Filter(h, L) \o <<b>> \o Filter(h, E)
  BY <1>4, SameFilter DEF Relisted, L, E
<1>7. /\ s \in Seq(Block) /\ InOrder(s)
      /\ \A p : Covers(s, p) <=> Covers(h, p) \/ p \in U!Extent(b)
  BY <1>5, <1>6
<1>8. r \in Seq(Block) /\ Sorted(r) /\ \A p \in Int : Covers(r, p) <=> Covers(s, p)
  BY <1>6, <1>7, Merged
<1> QED BY <1>7, <1>8

(* free leaves the break where it is, unless it leaves a listed block      *)
(* above it.                                                               *)
LEMMA BreakStays ==
  ASSUME NEW k, NEW os, NEW h, Tiled(k, os, h), k > 1,
         \A i \in DOMAIN h : U!End(h[i]) <= U!BreakAfter(os)
  PROVE  U!BreakAfter(os) = k
<1> DEFINE S == {1} \cup {U!End(a) : a \in U!ToSet(os)}
<1>1. /\ k \in Nat
      /\ \A i \in DOMAIN os : /\ os[i].va \in Nat \ {0} /\ os[i].n \in Nat \ {0}
                             /\ U!End(os[i]) \in Nat /\ U!End(os[i]) <= k
      /\ \A i \in DOMAIN h : /\ h[i].va \in Nat \ {0} /\ h[i].n \in Nat \ {0}
                            /\ U!End(h[i]) \in Nat /\ U!End(h[i]) <= k
  <2>1. k \in Nat
    BY Zenon DEF Tiled
  <2> QED BY <2>1, BelowBreak
<1>2. Covers(os, k - 1) \/ Covers(h, k - 1)
  <2>1. k - 1 \in Int /\ 1 <= k - 1 /\ k - 1 < k
    BY <1>1
  <2> QED BY <2>1, Zenon DEF Tiled
<1>3. \A x : x \in S <=> x = 1 \/ \E i \in DOMAIN os : x = U!End(os[i])
  BY DEF U!ToSet
<1>4. U!BreakAfter(os) = U!Max(S)
  BY DEF U!BreakAfter
<1> HIDE DEF S
<1>5. CASE \E i \in DOMAIN os : U!End(os[i]) = k
  <2>1. S \in SUBSET Int /\ k \in S /\ \A y \in S : y <= k
    BY <1>1, <1>3, <1>5
  <2> QED BY <1>4, <2>1, LargestIs
<1>6. CASE \A i \in DOMAIN os : U!End(os[i]) # k
  <2>1. PICK i \in DOMAIN h : k - 1 \in U!Extent(h[i])
    <3>1. ASSUME NEW i \in DOMAIN os, k - 1 \in U!Extent(os[i]) PROVE FALSE
      <4>1. k - 1 < U!End(os[i])
        <5>1. os[i].va \in Nat \ {0} /\ os[i].n \in Nat \ {0} /\ k - 1 \in Int
          BY <1>1
        <5> QED BY <3>1, <5>1, ObjectPages
      <4> QED BY <1>1, <1>6, <4>1
    <3> QED BY <1>2, <3>1 DEF Covers
  <2>2. U!End(h[i]) = k
    <3>1. k - 1 < U!End(h[i])
      <4>1. h[i].va \in Nat \ {0} /\ h[i].n \in Nat \ {0} /\ k - 1 \in Int
        BY <1>1
      <4> QED BY <2>1, <4>1, ObjectPages
    <3> QED BY <1>1, <3>1
  <2>3. ASSUME NEW y \in S PROVE y \in Nat /\ y < k
    BY <1>1, <1>3, <1>6
  <2>4. U!Max(S) \in S
    <3>1. S \in SUBSET Nat /\ S # {} /\ \A y \in S : y <= k
      BY <1>1, <1>3, <2>3
    <3> QED BY <1>1, <3>1, BoundedMax
  <2> QED BY <1>1, <1>4, <2>2, <2>3, <2>4
<1> QED BY <1>5, <1>6

----------------------------------------------------------------------------
(* The invariant of the user heap.                                         *)

ObjectType == [va : U!Pages, n : UserSizes, shared : BOOLEAN]
HoleType == [va : U!Pages, n : Nat \ {0}]

\* Pages that the kernel marks or maps are those of objects.
MarksInv ==
  /\ \E T : allocs \in Seq(T)
  /\ page \in [U!Pages -> {"none", "marked", "shared"}]
  /\ \A p \in U!Pages : page[p] # "none" => Covers(allocs, p)

\* The objects and the free blocks tile the pages below the break, and the
\* kernel's table marks the objects.  A program that was ended, which nobody
\* looks at any more, is left out.
TiledInv ==
  /\ U!TypeOK
  /\ running => /\ Tiled(userBrk, allocs, holes) /\ userBrk <= UserTop + 1
                /\ Marked(page, allocs)

UserInv == MarksInv /\ lowered \in BOOLEAN /\ (~lowered => TiledInv)

(* What lies below the break lies in the heap.                             *)
LEMMA HolesInHeap ==
  ASSUME U!UHeapAssumption, NEW k \in Nat, k <= UserTop + 1, NEW os, NEW h, Tiled(k, os, h)
  PROVE  h \in Seq(HoleType) /\ \A i \in DOMAIN os : os[i].va \in U!Pages
<1>1. UserTop \in Nat
  BY DEF U!UHeapAssumption
<1>2. \A v \in Nat \ {0}, m \in Nat \ {0} : v + m <= k => v \in U!Pages
  BY <1>1 DEF U!Pages
<1>3. \A i \in DOMAIN os : os[i].va \in U!Pages
  <2> SUFFICES ASSUME NEW i \in DOMAIN os PROVE os[i].va \in U!Pages
    OBVIOUS
  <2>1. os[i].va \in Nat \ {0} /\ os[i].n \in Nat \ {0} /\ U!End(os[i]) <= k
    BY BelowBreak
  <2> QED BY <1>2, <2>1 DEF U!End
<1>4. \A i \in DOMAIN h : h[i] \in HoleType
  <2> SUFFICES ASSUME NEW i \in DOMAIN h PROVE h[i] \in HoleType
    OBVIOUS
  <2>1. /\ h[i] \in Block /\ h[i].va \in Nat \ {0} /\ h[i].n \in Nat \ {0}
        /\ U!End(h[i]) <= k
    BY BelowBreak
  <2>2. h[i].va \in U!Pages
    BY <1>2, <2>1 DEF U!End
  <2> QED BY <2>1, <2>2 DEF Block, HoleType
<1>5. h \in Seq(HoleType)
  <2>1. h \in Seq(Block)
    BY Zenon DEF Tiled
  <2>2. Len(h) \in Nat /\ h = [i \in 1..Len(h) |-> h[i]] /\ DOMAIN h = 1..Len(h)
    BY <2>1
  <2> QED BY <1>4, <2>2, IsASeq
<1> QED BY <1>3, <1>5

(* The heap is empty at first.                                             *)
LEMMA UserStart ==
  ASSUME U!UHeapAssumption, U!Init
  PROVE  UserInv
<1>1. /\ userBrk = 1 /\ allocs = <<>> /\ holes = <<>>
      /\ page = [p \in U!Pages |-> "none"] /\ running = TRUE /\ lowered = FALSE
  BY DEF U!Init
<1>2. UserTop \in Nat
  BY DEF U!UHeapAssumption
<1>3. U!TypeOK
  <2>1. \A T : <<>> \in Seq(T)
    BY OccursEmpty
  <2>2. lowered \in BOOLEAN
    BY <1>1
  <2> QED BY <1>1, <1>2, <2>1, <2>2 DEF U!TypeOK
<1>4. \A p : ~Covers(<<>>, p)
  BY DEF Covers
<1>5. Tiled(userBrk, allocs, holes)
  <2>1. DOMAIN <<>> = {} /\ Sorted(<<>>) /\ <<>> \in Seq(Block) /\ <<>> \in Seq(UserObject)
    BY DEF Sorted
  <2>2. \A p \in Int : ~(1 <= p /\ p < 1)
    OBVIOUS
  <2> QED BY <1>1, <1>4, <2>1, <2>2 DEF Tiled
<1>6. Marked(page, allocs)
  BY <1>1, <1>4 DEF Marked
<1>8. lowered \in BOOLEAN
  BY <1>1
<1>7. MarksInv
  <2>1. \E T : allocs \in Seq(T)
    BY <1>3 DEF U!TypeOK
  <2> QED BY <1>1, <2>1 DEF MarksInv
<1> QED BY <1>1, <1>2, <1>3, <1>5, <1>6, <1>7, <1>8 DEF UserInv, TiledInv

(* The kernel's table has a mark for every page.                           *)
LEMMA SetType ==
  ASSUME U!TypeOK, NEW P, NEW x \in {"none", "marked", "shared"}
  PROVE  U!Set(P, x) \in [U!Pages -> {"none", "marked", "shared"}]
BY DEF U!TypeOK, U!Set

(* The place that a call gets.                                             *)
LEMMA TakesPlace ==
  ASSUME U!UHeapAssumption, TiledInv, running, NEW n \in UserSizes, ~U!NoRoom(n),
         NEW s \in BOOLEAN, NEW b, b = [va |-> U!CustomFit(n).va, n |-> n, shared |-> s]
  PROVE  LET f == U!CustomFit(n)
             as2 == <<b>> \o allocs
         IN  /\ b \in UserObject
             /\ Placed(userBrk, holes, b, f.brk, f.holes) /\ BestFit(b.va, n)
             /\ Tiled(f.brk, as2, f.holes) /\ f.brk \in Nat /\ userBrk <= f.brk
             /\ f.brk <= UserTop + 1 /\ U!End(b) <= f.brk /\ U!End(b) \in Nat
             /\ Marked(U!Set(U!Extent(b), IF s THEN "shared" ELSE "marked"), as2)
             /\ as2 \in Seq(ObjectType) /\ f.holes \in Seq(HoleType)
<1> DEFINE f == U!CustomFit(n)
           os == <<b>> \o allocs
<1>1. /\ Tiled(userBrk, allocs, holes) /\ userBrk <= UserTop + 1 /\ Marked(page, allocs)
      /\ U!TypeOK
  BY DEF TiledInv
<1>2. n \in Nat \ {0} /\ UserTop \in Nat
  BY DEF U!UHeapAssumption
<1>3. b.va = U!CustomFit(n).va /\ b.n = n /\ b.shared = s
  OBVIOUS
<1>4. /\ b.va \in Nat \ {0}
      /\ Placed(userBrk, holes, b, f.brk, f.holes) /\ BestFit(b.va, n)
      /\ \/ f.brk = userBrk
         \/ /\ f.brk = userBrk + n /\ U!EXACTTT(n) = 0 /\ U!WORSTTT(n) = 0
  BY <1>1, <1>2, <1>3, CustomFitPlaces
<1>5. b \in UserObject
  BY <1>2, <1>3, <1>4 DEF UserObject
<1> HIDE DEF f, os
<1>6. Tiled(f.brk, os, f.holes) /\ userBrk <= f.brk /\ f.brk \in Nat /\ U!End(b) <= f.brk
  BY <1>1, <1>4, <1>5, ObjectAdded DEF os
<1>7. f.brk <= UserTop + 1
  <2>1. userBrk \in Nat
    BY <1>1 DEF U!TypeOK
  <2> QED BY <1>1, <1>2, <1>4, <1>6, <2>1 DEF U!NoRoom
<1>8. Marked(U!Set(U!Extent(b), IF s THEN "shared" ELSE "marked"), os)
  BY <1>1, <1>3, <1>4, <1>5, MarkedAdded DEF os
<1>9. f.holes \in Seq(HoleType) /\ \A i \in DOMAIN os : os[i].va \in U!Pages
  BY <1>6, <1>7, HolesInHeap
<1>10. os \in Seq(ObjectType)
  <2>1. b.va \in U!Pages
    <3>1. U!End(b) = b.va + b.n
      BY DEF U!End
    <3> QED BY <1>2, <1>3, <1>4, <1>6, <1>7, <3>1 DEF U!Pages
  <2>2. b \in ObjectType
    BY <1>3, <2>1 DEF ObjectType
  <2>3. allocs \in Seq(ObjectType)
    BY <1>1 DEF U!TypeOK, ObjectType
  <2> QED BY <2>2, <2>3, HeadAndRest DEF os
<1>11. U!End(b) \in Nat
  BY <1>2, <1>3, <1>4, ObjectPages
<1> QED BY <1>4, <1>5, <1>6, <1>7, <1>8, <1>9, <1>10, <1>11 DEF f, os

(* find_allocation finds an object at the address.                         *)
LEMMA Found ==
  ASSUME NEW T, allocs \in Seq(T), NEW va, U!Newest(va) # 0
  PROVE  U!Newest(va) \in DOMAIN allocs /\ allocs[U!Newest(va)].va = va
<1> DEFINE I == {j \in 1..Len(allocs) : allocs[j].va = va}
<1>2. DOMAIN allocs = 1..Len(allocs) /\ Len(allocs) \in Nat
  BY LenProperties
<1>3. U!Newest(va) = IF I # {} THEN U!Min(I) ELSE 0
  BY DEF U!Newest, U!SelectInSeq
<1>4. I # {} /\ U!Newest(va) = U!Min(I)
  BY <1>3
<1>5. I \in SUBSET (1..Len(allocs))
  OBVIOUS
<1>6. U!Min(I) \in I
  <2> HIDE DEF I
  <2> QED BY <1>2, <1>4, <1>5, FirstPlace
<1> QED BY <1>2, <1>4, <1>6

(* The object that find_allocation finds goes.                             *)
LEMMA GivesBack ==
  ASSUME U!UHeapAssumption, TiledInv, running, NEW va, U!Newest(va) # 0,
         NEW b, b = [va |-> allocs[U!Newest(va)].va, n |-> allocs[U!Newest(va)].n],
         NEW h \in Relisted(holes, b)
  PROVE  LET i == U!Newest(va)
             left == U!RemoveAt(allocs, i)
         IN  /\ allocs[i].va = va
             /\ Tiled(userBrk, left, h)
             /\ (\A j \in DOMAIN h : U!End(h[j]) <= U!BreakAfter(left))
                  => U!BreakAfter(left) = userBrk
             /\ Marked(U!Set(U!Extent(allocs[i]), "none"), left)
             /\ left \in Seq(ObjectType) /\ h \in Seq(HoleType)
<1> DEFINE i == U!Newest(va)
           left == U!RemoveAt(allocs, i)
<1>1. /\ Tiled(userBrk, allocs, holes) /\ userBrk <= UserTop + 1 /\ Marked(page, allocs)
      /\ U!TypeOK
  BY DEF TiledInv
<1>2. allocs \in Seq(ObjectType) /\ userBrk \in Nat
  BY <1>1 DEF U!TypeOK, ObjectType
<1>3. i \in DOMAIN allocs /\ allocs[i].va = va
  BY <1>2, Found
<1> DEFINE a == allocs[i]
<1> HIDE DEF i
<1>4. /\ a.va \in Nat \ {0} /\ a.n \in Nat \ {0} /\ b.va = a.va /\ b.n = a.n
      /\ b \in Block /\ U!Extent(b) = U!Extent(a)
  <2>1. a.va \in Nat \ {0} /\ a.n \in Nat \ {0}
    BY <1>1, <1>3, BelowBreak
  <2>2. b = [va |-> a.va, n |-> a.n]
    BY DEF i
  <2> HIDE DEF a
  <2> QED BY <2>1, <2>2 DEF Block, U!Extent
<1>5. holes \in Seq(Block) /\ Sorted(holes)
  BY <1>1, Zenon DEF Tiled
<1>6. \A j \in DOMAIN holes : U!Extent(holes[j]) \cap U!Extent(b) = {}
  BY <1>1, <1>3, <1>4, BelowBreak
<1>7. /\ h \in Seq(Block) /\ Sorted(h)
      /\ \A p \in Int : Covers(h, p) <=> Covers(holes, p) \/ p \in U!Extent(a)
  <2>1. b \in Block
    BY <1>4
  <2>2. /\ h \in Seq(Block) /\ Sorted(h)
        /\ \A p \in Int : Covers(h, p) <=> Covers(holes, p) \/ p \in U!Extent(b)
    BY <1>5, <1>6, <2>1, FreedBlock
  <2> HIDE DEF a
  <2> QED BY <1>4, <2>2
<1>9. Tiled(userBrk, left, h)
  <2> HIDE DEF left
  <2> QED BY <1>1, <1>3, <1>7, ObjectRemoved DEF left, a
<1>10. Marked(U!Set(U!Extent(a), "none"), left)
  BY <1>1, <1>3, MarkedRemoved
<1>11. left \in Seq(ObjectType)
  BY <1>2, <1>3, WithoutOne
<1> HIDE DEF left
<1>12. h \in Seq(HoleType)
  BY <1>1, <1>2, <1>9, HolesInHeap
<1>13. ASSUME \A j \in DOMAIN h : U!End(h[j]) <= U!BreakAfter(left)
       PROVE  U!BreakAfter(left) = userBrk
  <2>1. userBrk > 1
    <3>1. a.va + a.n > 1 /\ U!End(a) = a.va + a.n
      BY <1>4 DEF U!End
    <3>2. U!End(a) <= userBrk
      BY <1>1, <1>3, BelowBreak
    <3> HIDE DEF a
    <3> QED BY <1>2, <1>4, <3>1, <3>2
  <2> QED BY <1>9, <1>13, <2>1, BreakStays
<1> QED BY <1>3, <1>9, <1>10, <1>11, <1>12, <1>13 DEF i, left

(* A refused smalloc or sget: the place goes back, to the list or, if it   *)
(* is the last one below the break, by lowering the break.                 *)
LEMMA PlaceReturned ==
  ASSUME U!UHeapAssumption, TiledInv, NEW n \in UserSizes, U!NotShared(n)
  PROVE  /\ userBrk' \in Nat \ {0} /\ userBrk' <= userBrk
         /\ Tiled(userBrk', allocs, holes') /\ holes' \in Seq(HoleType)
<1> DEFINE f == U!CustomFit(n)
           b == [va |-> f.va, n |-> n, shared |-> TRUE]
           c == [va |-> f.va, n |-> n]
<1>1. running /\ userBrk + n <= UserTop + 1
  BY DEF U!NotShared, U!MayShare
<1>2. /\ Tiled(userBrk, allocs, holes) /\ userBrk <= UserTop + 1 /\ U!TypeOK
  BY <1>1 DEF TiledInv
<1>3. n \in Nat \ {0} /\ UserTop \in Nat /\ userBrk \in Nat \ {0} /\ ~U!NoRoom(n)
  <2>1. n \in Nat \ {0} /\ UserTop \in Nat
    BY DEF U!UHeapAssumption
  <2>2. userBrk \in Nat \ {0}
    BY <1>2, Zenon DEF Tiled
  <2> QED BY <1>1, <2>1, <2>2 DEF U!NoRoom
<1>4. IF f.va >= f.brk THEN userBrk' = f.brk /\ holes' = f.holes
      ELSE IF f.va = f.brk - n THEN userBrk' = f.va /\ holes' = f.holes
      ELSE /\ userBrk' = f.brk
           /\ holes' = U!MERGEE(U!FREEblockk(f.holes, c))
  BY DEF U!NotShared
<1> HIDE DEF f
<1>5. /\ Placed(userBrk, holes, b, f.brk, f.holes)
      /\ f.brk \in Nat /\ U!End(b) <= f.brk /\ b \in UserObject
  <2>1. b = [va |-> U!CustomFit(n).va, n |-> n, shared |-> TRUE]
    BY DEF f
  <2> HIDE DEF b
  <2> QED BY <1>1, <1>2, <1>3, <2>1, TakesPlace DEF f
<1>6. f.va \in Nat \ {0} /\ c \in Block /\ U!Extent(c) = U!Extent(b) /\ U!End(b) = f.va + n
  <2>1. b.va = f.va /\ b.n = n /\ c.va = f.va /\ c.n = n
    OBVIOUS
  <2>2. f.va \in Nat \ {0}
    BY <1>5, <2>1 DEF UserObject
  <2>3. U!Extent(c) = U!Extent(b) /\ U!End(b) = f.va + n
    BY <2>1 DEF U!Extent, U!End
  <2> QED BY <1>3, <2>2, <2>3 DEF Block
<1>7. f.va < f.brk
  BY <1>3, <1>5, <1>6
<1>8. CASE b.va = userBrk /\ f.brk = userBrk + b.n /\ f.holes = holes
  <2>1. f.va = userBrk /\ f.brk = userBrk + n
    BY <1>8
  <2>2. f.va = f.brk - n
    BY <1>3, <2>1
  <2>3. userBrk' = userBrk /\ holes' = holes
    BY <1>3, <1>4, <1>7, <1>8, <2>1, <2>2
  <2>4. holes \in Seq(HoleType)
    BY <1>2 DEF U!TypeOK, HoleType
  <2> QED BY <1>2, <1>3, <2>3, <2>4
<1>9. CASE /\ f.brk = userBrk /\ f.holes \in Seq(Block) /\ Sorted(f.holes)
           /\ \A p \in Int : p \in U!Extent(b) => Covers(holes, p)
           /\ \A p \in Int : Covers(f.holes, p) <=> Covers(holes, p) /\ p \notin U!Extent(b)
  <2> DEFINE g == f.holes
             h == holes'
  <2>1. /\ \A p \in Int : Covers(allocs, p) \/ Covers(holes, p) <=> 1 <= p /\ p < userBrk
        /\ \A p \in Int : ~(Covers(allocs, p) /\ Covers(holes, p))
    BY <1>2, Zenon DEF Tiled
  (* The last block below the break was taken.                             *)
  <2>2. ASSUME f.va + n = userBrk
        PROVE  /\ userBrk' \in Nat \ {0} /\ userBrk' <= userBrk
               /\ Tiled(userBrk', allocs, h) /\ h \in Seq(HoleType)
    <3>1. f.va = f.brk - n /\ f.va <= userBrk
      BY <1>3, <1>6, <1>9, <2>2
    <3>2. userBrk' = f.va /\ h = g
      <4>1. ~(f.va >= f.brk)
        BY <1>3, <1>6, <1>7, <1>9
      <4> QED BY <1>4, <3>1, <4>1
    <3>3. \A p \in Int : p \in U!Extent(b) <=> f.va <= p /\ p < userBrk
      <4>1. b.va \in Nat \ {0} /\ b.n \in Nat \ {0} /\ b.va = f.va
        BY <1>3, <1>6
      <4> HIDE DEF b
      <4> QED BY <1>6, <2>2, <4>1, ObjectPages
    <3> HIDE DEF g, h, b, c
    <3>4. \A p \in Int : Covers(g, p) <=> Covers(holes, p) /\ p < f.va
      <4> SUFFICES ASSUME NEW p \in Int PROVE Covers(g, p) <=> Covers(holes, p) /\ p < f.va
        OBVIOUS
      <4>1. Covers(g, p) <=> Covers(holes, p) /\ p \notin U!Extent(b)
        BY <1>9 DEF g
      <4>2. Covers(holes, p) => p < userBrk
        BY <2>1
      <4>3. f.va <= p \/ p < f.va
        BY <1>6
      <4>4. ~(f.va <= p /\ p < f.va)
        BY <1>6
      <4> QED BY <3>3, <4>1, <4>2, <4>3, <4>4
    <3>5. \A p \in Int : Covers(allocs, p) => p < f.va
      <4> SUFFICES ASSUME NEW p \in Int, Covers(allocs, p) PROVE p < f.va
        OBVIOUS
      <4>1. p \notin U!Extent(b)
        BY <1>9, <2>1
      <4>2. p < userBrk
        BY <2>1
      <4>3. f.va <= p \/ p < f.va
        BY <1>6
      <4> QED BY <3>3, <4>1, <4>2, <4>3
    <3>6. \A p \in Int : Covers(allocs, p) \/ Covers(g, p) <=> 1 <= p /\ p < f.va
      <4> SUFFICES ASSUME NEW p \in Int
                   PROVE  Covers(allocs, p) \/ Covers(g, p) <=> 1 <= p /\ p < f.va
        OBVIOUS
      <4>1. p < f.va => p < userBrk
        BY <1>3, <1>6, <3>1
      <4>2. Covers(allocs, p) \/ Covers(holes, p) <=> 1 <= p /\ p < userBrk
        BY <2>1
      <4> QED BY <3>4, <3>5, <4>1, <4>2
    <3>7. Tiled(f.va, allocs, g)
      <4>1. \A p \in Int : ~(Covers(allocs, p) /\ Covers(g, p))
        BY <2>1, <3>4
      <4>2. /\ f.va \in Nat \ {0} /\ g \in Seq(Block) /\ Sorted(g)
        BY <1>6, <1>9 DEF g
      <4>3. /\ allocs \in Seq(UserObject)
            /\ \A i, j \in DOMAIN allocs :
                 i # j => U!Extent(allocs[i]) \cap U!Extent(allocs[j]) = {}
        BY <1>2, Zenon DEF Tiled
      <4> QED BY <3>6, <4>1, <4>2, <4>3, Zenon DEF Tiled
    <3>8. g \in Seq(HoleType)
      <4>1. f.va \in Nat /\ f.va <= UserTop + 1
        BY <1>2, <1>3, <1>6, <3>1
      <4> QED BY <3>7, <4>1, HolesInHeap
    <3> QED BY <1>6, <3>1, <3>2, <3>7, <3>8
  <2> SUFFICES ASSUME f.va + n # userBrk
               PROVE  /\ userBrk' = userBrk /\ Tiled(userBrk, allocs, h)
                      /\ h \in Seq(HoleType)
    BY <1>3, <2>2
  <2>13. ~(f.va >= f.brk) /\ f.va # f.brk - n
    BY <1>3, <1>6, <1>7, <1>9
  <2>3. userBrk' = userBrk /\ holes' = U!MERGEE(U!FREEblockk(f.holes, c))
    BY <1>4, <1>9, <2>13
  <2>4. \A i \in DOMAIN g : U!Extent(g[i]) \cap U!Extent(c) = {}
    <3> SUFFICES ASSUME NEW i \in DOMAIN g, NEW p, p \in U!Extent(g[i]), p \in U!Extent(c)
                 PROVE  FALSE
      OBVIOUS
    <3>1. p \in Int
      BY <1>6, PagesOfBlock
    <3>2. Covers(g, p)
      BY DEF Covers
    <3> HIDE DEF b, c
    <3> QED BY <1>6, <1>9, <3>1, <3>2
  <2>5. g \in Seq(Block) /\ Sorted(g) /\ c \in Block
    BY <1>6, <1>9
  <2>6. h \in Relisted(g, c)
    BY <2>3 DEF Relisted
  <2> HIDE DEF g, h, b, c
  <2>7. /\ h \in Seq(Block) /\ Sorted(h)
        /\ \A p \in Int : Covers(h, p) <=> Covers(g, p) \/ p \in U!Extent(c)
    BY <2>4, <2>5, <2>6, FreedBlock
  <2>8. \A p \in Int : Covers(h, p) <=> Covers(holes, p)
    BY <1>6, <1>9, <2>7 DEF g
  <2>9. Tiled(userBrk, allocs, h)
    <3>1. /\ \A p \in Int : Covers(allocs, p) \/ Covers(holes, p) <=> 1 <= p /\ p < userBrk
          /\ \A p \in Int : ~(Covers(allocs, p) /\ Covers(holes, p))
      BY <1>2, Zenon DEF Tiled
    <3>2. /\ \A p \in Int : Covers(allocs, p) \/ Covers(h, p) <=> 1 <= p /\ p < userBrk
          /\ \A p \in Int : ~(Covers(allocs, p) /\ Covers(h, p))
      BY <2>8, <3>1
    <3> QED BY <1>2, <2>7, <3>2, Zenon DEF Tiled
  <2>10. h \in Seq(HoleType)
    BY <1>2, <1>3, <2>9, HolesInHeap
  <2> QED BY <2>3, <2>9, <2>10 DEF h
<1>10. Placed(userBrk, holes, b, f.brk, f.holes)
  BY <1>5
<1> HIDE DEF b
<1> QED BY <1>8, <1>9, <1>10 DEF Placed

(* Nothing is marked that is in no object, whatever the lists hold.        *)
LEMMA MarksStep ==
  ASSUME MarksInv, [U!Next]_(U!vars)
  PROVE  MarksInv'
<1>1. PICK T : allocs \in Seq(T)
  BY DEF MarksInv
<1>2. /\ page \in [U!Pages -> {"none", "marked", "shared"}]
      /\ \A p \in U!Pages : page[p] # "none" => Covers(allocs, p)
  BY DEF MarksInv
<1>3. ASSUME NEW b, NEW x \in {"marked", "shared"},
             allocs' = <<b>> \o allocs, page' = U!Set(U!Extent(b), x)
      PROVE  MarksInv'
  <2> DEFINE n == Len(allocs)
  <2>1. allocs \in Seq(T \cup {b})
    <3>1. n \in Nat /\ allocs = [i \in 1..n |-> allocs[i]] /\ DOMAIN allocs = 1..n
      BY <1>1
    <3>2. \A i \in 1..n : allocs[i] \in T \cup {b}
      BY <1>1, <3>1, ElementOfSeq
    <3> QED BY <3>1, <3>2, IsASeq
  <2>2. /\ <<b>> \o allocs \in Seq(T \cup {b}) /\ DOMAIN allocs = 1..n
        /\ DOMAIN (<<b>> \o allocs) = 1..(n + 1)
        /\ (<<b>> \o allocs)[1] = b /\ 1 \in 1..(n + 1)
        /\ \A i \in 1..n : (<<b>> \o allocs)[i + 1] = allocs[i] /\ i + 1 \in 1..(n + 1)
    <3>1. b \in T \cup {b}
      OBVIOUS
    <3> QED BY <2>1, <3>1, HeadAndRest
  <2> HIDE DEF n
  <2>3. \A p : p \in U!Extent(b) \/ Covers(allocs, p) => Covers(allocs', p)
    BY <1>3, <2>2, Zenon DEF Covers
  <2>4. page' \in [U!Pages -> {"none", "marked", "shared"}]
    BY <1>2, <1>3 DEF U!Set
  <2>5. ASSUME NEW p \in U!Pages, page'[p] # "none" PROVE Covers(allocs', p)
    <3>1. p \in U!Extent(b) \/ page[p] # "none"
      BY <1>3, <2>5 DEF U!Set
    <3> QED BY <1>2, <2>3, <3>1
  <2>6. \E X : allocs' \in Seq(X)
    BY <1>3, <2>2
  <2> QED BY <2>4, <2>5, <2>6 DEF MarksInv
<1>4. ASSUME NEW va, U!Newest(va) # 0, allocs' = U!RemoveAt(allocs, U!Newest(va)),
             page' = U!Set(U!Extent(allocs[U!Newest(va)]), "none")
      PROVE  MarksInv'
  <2> DEFINE i == U!Newest(va)
             left == U!RemoveAt(allocs, i)
  <2>1. i \in DOMAIN allocs
    BY <1>1, <1>4, Found
  <2> HIDE DEF i
  <2>2. left \in Seq(T) /\ Without(allocs, i, left)
    BY <1>1, <2>1, WithoutOne
  <2> HIDE DEF left
  <2>3. \A p : Covers(allocs, p) /\ p \notin U!Extent(allocs[i]) => Covers(left, p)
    BY <2>2 DEF Without, Covers
  <2>4. allocs' = left /\ page' = U!Set(U!Extent(allocs[i]), "none")
    BY <1>4 DEF i, left
  <2>5. page' \in [U!Pages -> {"none", "marked", "shared"}]
    BY <1>2, <2>4 DEF U!Set
  <2>6. ASSUME NEW p \in U!Pages, page'[p] # "none" PROVE Covers(allocs', p)
    <3>1. p \notin U!Extent(allocs[i]) /\ page[p] # "none"
      BY <2>4, <2>6 DEF U!Set
    <3> QED BY <1>2, <2>3, <2>4, <3>1
  <2> QED BY <2>2, <2>4, <2>5, <2>6 DEF MarksInv
<1>5. ASSUME UNCHANGED <<allocs, page>> PROVE MarksInv'
  BY <1>5, Zenon DEF MarksInv, Covers
<1>6. ASSUME NEW n, U!malloc(n) PROVE MarksInv'
  <2> DEFINE b == [va |-> U!CustomFit(n).va, n |-> n, shared |-> FALSE]
  <2>1. \/ UNCHANGED <<allocs, page>>
        \/ allocs' = <<b>> \o allocs /\ page' = U!Set(U!Extent(b), "marked")
    BY <1>6 DEF U!malloc, U!Terminated
  <2> HIDE DEF b
  <2> QED BY <1>3, <1>5, <2>1
<1>7. ASSUME NEW n, U!Shared(n) PROVE MarksInv'
  <2> DEFINE b == [va |-> U!CustomFit(n).va, n |-> n, shared |-> TRUE]
  <2>1. allocs' = <<b>> \o allocs /\ page' = U!Set(U!Extent(b), "shared")
    BY <1>7 DEF U!Shared
  <2> HIDE DEF b
  <2> QED BY <1>3, <2>1
<1>8. ASSUME NEW n, U!NotShared(n) PROVE MarksInv'
  BY <1>5, <1>8 DEF U!NotShared
<1>9. ASSUME NEW va, U!free(va) \/ U!sfree(va) PROVE MarksInv'
  BY <1>4, <1>9 DEF U!free, U!sfree, U!Unmarked
<1>10. CASE UNCHANGED U!vars
  BY <1>5, <1>10 DEF U!vars
<1> QED BY <1>6, <1>7, <1>8, <1>9, <1>10 DEF U!Next, U!smalloc, U!sget

(* No call disturbs the lists, except the free that leaves a listed block  *)
(* above the break.                                                        *)
LEMMA TiledStep ==
  ASSUME U!UHeapAssumption, TiledInv, [U!Next]_(U!vars), lowered' \in BOOLEAN, ~lowered'
  PROVE  TiledInv'
<1>1. U!TypeOK /\ (running => /\ Tiled(userBrk, allocs, holes) /\ userBrk <= UserTop + 1
                              /\ Marked(page, allocs))
  BY DEF TiledInv
<1>2. UserTop \in Nat
  BY DEF U!UHeapAssumption
<1>3. /\ userBrk \in Nat /\ userBrk \in 1..(UserTop + 1)
      /\ allocs \in Seq(ObjectType) /\ holes \in Seq(HoleType)
      /\ page \in [U!Pages -> {"none", "marked", "shared"}] /\ running \in BOOLEAN
  BY <1>1 DEF U!TypeOK, ObjectType, HoleType
<1>4. ASSUME NEW n \in UserSizes, U!malloc(n) PROVE TiledInv'
  <2> DEFINE f == U!CustomFit(n)
             b == [va |-> f.va, n |-> n, shared |-> FALSE]
             os == <<b>> \o allocs
  <2>1. /\ running /\ ~U!NoRoom(n) /\ holes' = f.holes
        /\ \/ userBrk' = f.brk /\ U!Terminated
           \/ /\ ~U!AtTop(b)
              /\ userBrk' = IF U!End(b) > f.brk THEN U!End(b) ELSE f.brk
              /\ allocs' = os /\ page' = U!Set(U!Extent(b), "marked") /\ running' = running
    BY <1>4 DEF U!malloc
  <2>2. b = [va |-> U!CustomFit(n).va, n |-> n, shared |-> FALSE] /\ FALSE \in BOOLEAN
    OBVIOUS
  <2> HIDE DEF f, b, os
  <2>3. /\ Tiled(f.brk, os, f.holes) /\ f.brk \in Nat /\ userBrk <= f.brk
        /\ f.brk <= UserTop + 1 /\ U!End(b) <= f.brk /\ U!End(b) \in Nat
        /\ Marked(U!Set(U!Extent(b), "marked"), os)
        /\ os \in Seq(ObjectType) /\ f.holes \in Seq(HoleType)
    BY <2>1, <2>2, TakesPlace DEF f, os
  <2>4. f.brk \in 1..(UserTop + 1)
    BY <1>2, <1>3, <2>3
  <2>5. CASE userBrk' = f.brk /\ U!Terminated
    <3>1. running' = FALSE /\ allocs' = allocs /\ page' = page
      BY <2>5 DEF U!Terminated
    <3> QED BY <1>3, <2>1, <2>3, <2>4, <2>5, <3>1 DEF TiledInv, U!TypeOK, ObjectType, HoleType
  <2>6. CASE /\ userBrk' = IF U!End(b) > f.brk THEN U!End(b) ELSE f.brk
             /\ allocs' = os /\ page' = U!Set(U!Extent(b), "marked") /\ running' = running
    <3>1. userBrk' = f.brk
      BY <2>3, <2>6
    <3>2. page' \in [U!Pages -> {"none", "marked", "shared"}]
      BY <1>1, <2>6, SetType
    <3>3. U!TypeOK'
      BY <1>3, <2>1, <2>3, <2>4, <2>6, <3>1, <3>2 DEF U!TypeOK, ObjectType, HoleType
    <3> QED BY <2>1, <2>3, <2>6, <3>1, <3>3 DEF TiledInv
  <2> QED BY <2>1, <2>5, <2>6
<1>5. ASSUME NEW n \in UserSizes, U!Shared(n) PROVE TiledInv'
  <2> DEFINE f == U!CustomFit(n)
             b == [va |-> f.va, n |-> n, shared |-> TRUE]
             os == <<b>> \o allocs
  <2>1. /\ running /\ userBrk + n <= UserTop + 1 /\ holes' = f.holes /\ userBrk' = f.brk
        /\ allocs' = os /\ page' = U!Set(U!Extent(b), "shared") /\ running' = running
    BY <1>5 DEF U!Shared, U!MayShare
  <2>2. b = [va |-> U!CustomFit(n).va, n |-> n, shared |-> TRUE] /\ TRUE \in BOOLEAN
    OBVIOUS
  <2>3. ~U!NoRoom(n)
    <3>1. n \in Nat
      BY DEF U!UHeapAssumption
    <3> QED BY <1>2, <1>3, <2>1, <3>1 DEF U!NoRoom
  <2> HIDE DEF f, b, os
  <2>4. /\ Tiled(f.brk, os, f.holes) /\ f.brk \in Nat /\ userBrk <= f.brk
        /\ f.brk <= UserTop + 1
        /\ Marked(U!Set(U!Extent(b), "shared"), os)
        /\ os \in Seq(ObjectType) /\ f.holes \in Seq(HoleType)
    BY <2>1, <2>2, <2>3, TakesPlace DEF f, os
  <2>5. f.brk \in 1..(UserTop + 1)
    BY <1>2, <1>3, <2>4
  <2>6. page' \in [U!Pages -> {"none", "marked", "shared"}]
    BY <1>1, <2>1, SetType
  <2>7. U!TypeOK'
    BY <1>3, <2>1, <2>4, <2>5, <2>6 DEF U!TypeOK, ObjectType, HoleType
  <2> QED BY <2>1, <2>4, <2>7 DEF TiledInv
<1>6. ASSUME NEW n \in UserSizes, U!NotShared(n) PROVE TiledInv'
  <2>1. running /\ allocs' = allocs /\ page' = page /\ running' = running
    BY <1>6 DEF U!NotShared, U!MayShare
  <2>2. /\ userBrk' \in Nat \ {0} /\ userBrk' <= userBrk
        /\ Tiled(userBrk', allocs, holes') /\ holes' \in Seq(HoleType)
    BY <1>6, PlaceReturned
  <2>3. U!TypeOK'
    BY <1>2, <1>3, <2>1, <2>2 DEF U!TypeOK, ObjectType, HoleType
  <2>4. userBrk' <= UserTop + 1
    BY <1>2, <1>3, <2>2
  <2> QED BY <1>1, <2>1, <2>2, <2>3, <2>4 DEF TiledInv
<1>7. ASSUME NEW va, U!free(va) PROVE TiledInv'
  <2> DEFINE i == U!Newest(va)
             b == [va |-> allocs[i].va, n |-> allocs[i].n]
             left == U!RemoveAt(allocs, i)
  <2>1. /\ running /\ i # 0
        /\ allocs' = left /\ userBrk' = U!BreakAfter(left)
        /\ page' = U!Set(U!Extent(allocs[i]), "none")
        /\ holes' = U!MERGEE(U!FREEblockk(holes, b))
        /\ running' = running
        /\ \A h \in U!ToSet(holes') : ~(U!End(h) > U!BreakAfter(left))
    BY <1>7 DEF U!free, U!Unmarked
  <2>2. b = [va |-> allocs[U!Newest(va)].va, n |-> allocs[U!Newest(va)].n]
    OBVIOUS
  <2> HIDE DEF b
  <2>3. /\ Tiled(userBrk, left, holes')
        /\ (\A j \in DOMAIN holes' : U!End(holes'[j]) <= U!BreakAfter(left))
             => U!BreakAfter(left) = userBrk
        /\ Marked(U!Set(U!Extent(allocs[i]), "none"), left)
        /\ left \in Seq(ObjectType) /\ holes' \in Seq(HoleType)
    <3>1. holes' \in Relisted(holes, b)
      BY <2>1 DEF Relisted
    <3> QED BY <2>1, <2>2, <3>1, GivesBack
  <2>6. U!BreakAfter(left) \in Nat
    <3> DEFINE S == {1} \cup {U!End(a) : a \in U!ToSet(left)}
    <3>1. \A j \in DOMAIN left : U!End(left[j]) \in Nat /\ U!End(left[j]) <= userBrk
      BY <1>3, <2>3, BelowBreak
    <3>2. \A x : x \in S <=> x = 1 \/ \E j \in DOMAIN left : x = U!End(left[j])
      BY DEF U!ToSet
    <3>3. U!BreakAfter(left) = U!Max(S)
      BY DEF U!BreakAfter
    <3> HIDE DEF S
    <3>4. S \in SUBSET Nat /\ S # {} /\ \A y \in S : y <= userBrk
      BY <1>3, <3>1, <3>2
    <3> QED BY <1>3, <3>3, <3>4, BoundedMax
  <2>7. U!BreakAfter(left) = userBrk
    <3>1. \A j \in DOMAIN holes' : U!End(holes'[j]) \in Nat
      BY <1>3, <2>3, BelowBreak
    <3>2. \A j \in DOMAIN holes' : ~(U!End(holes'[j]) > U!BreakAfter(left))
      BY <2>1 DEF U!ToSet
    <3> HIDE DEF left
    <3> QED BY <2>3, <2>6, <3>1, <3>2
  <2> HIDE DEF left, i
  <2>4. page' \in [U!Pages -> {"none", "marked", "shared"}]
    BY <1>1, <2>1, SetType
  <2>5. U!TypeOK'
    BY <1>3, <2>1, <2>3, <2>4, <2>7 DEF U!TypeOK, ObjectType, HoleType
  <2> QED BY <1>1, <2>1, <2>3, <2>5, <2>7 DEF TiledInv
<1>8. ASSUME NEW va, U!sfree(va) PROVE TiledInv'
  <2> DEFINE i == U!Newest(va)
             b == [va |-> allocs[i].va, n |-> allocs[i].n]
             left == U!RemoveAt(allocs, i)
  <2>1. /\ running /\ i # 0
        /\ allocs' = left /\ userBrk' = userBrk
        /\ page' = U!Set(U!Extent(allocs[i]), "none")
        /\ holes' = U!MERGEE(U!Filter(holes, {x \in U!ToSet(holes) : x.va < va})
                               \o <<[va |-> va, n |-> allocs[i].n]>>
                               \o U!Filter(holes, {x \in U!ToSet(holes) : x.va >= va}))
        /\ running' = running
    BY <1>8 DEF U!sfree
  <2>2. b = [va |-> allocs[U!Newest(va)].va, n |-> allocs[U!Newest(va)].n]
    OBVIOUS
  <2>3. allocs[i].va = va
    BY <1>3, <2>1, Found
  <2>4. b.va = va /\ b = [va |-> va, n |-> allocs[i].n]
    BY <2>3
  <2> HIDE DEF b
  <2>5. holes' \in Relisted(holes, b)
    BY <2>1, <2>4 DEF Relisted
  <2>6. /\ Tiled(userBrk, left, holes')
        /\ Marked(U!Set(U!Extent(allocs[i]), "none"), left)
        /\ left \in Seq(ObjectType) /\ holes' \in Seq(HoleType)
    BY <2>1, <2>2, <2>5, GivesBack
  <2> HIDE DEF left, i
  <2>7. page' \in [U!Pages -> {"none", "marked", "shared"}]
    BY <1>1, <2>1, SetType
  <2>8. U!TypeOK'
    BY <1>3, <2>1, <2>6, <2>7 DEF U!TypeOK, ObjectType, HoleType
  <2> QED BY <1>1, <2>1, <2>6, <2>8 DEF TiledInv
<1>9. CASE UNCHANGED U!vars
  BY <1>9, Zenon DEF U!vars, TiledInv, U!TypeOK
<1> QED BY <1>4, <1>5, <1>6, <1>7, <1>8, <1>9 DEF U!Next, U!smalloc, U!sget

(* The invariant holds in every behaviour.  When free lowers the break     *)
(* below a listed block, that block is handed out twice (the               *)
(* counterexample to NoOverlap): lowered tells when.                       *)
LEMMA UserInvariance ==
  ASSUME U!UHeapAssumption
  PROVE  U!Spec => []UserInv
<1>1. U!Init => UserInv
  BY UserStart
<1>2. ASSUME UserInv, [U!Next]_(U!vars) PROVE UserInv'
  <2>1. MarksInv'
    BY <1>2, MarksStep DEF UserInv
  <2>2. lowered' \in BOOLEAN /\ (lowered => lowered')
    <3>1. lowered \in BOOLEAN
      BY <1>2 DEF UserInv
    <3>2. lowered' = lowered \/ lowered' = (lowered \/ \E h \in U!ToSet(holes') : U!End(h) > userBrk')
      BY <1>2 DEF U!Next, U!malloc, U!smalloc, U!sget, U!Shared, U!NotShared, U!free, U!sfree,
                  U!vars
    <3> QED BY <3>1, <3>2
  <2>3. ~lowered' => TiledInv'
    BY <1>2, <2>2, TiledStep, PageAssumption DEF UserInv
  <2> QED BY <2>1, <2>2, <2>3 DEF UserInv
<1> QED BY <1>1, <1>2, PTL DEF U!Spec

(* The gaps between the objects are the blocks of the list.                *)
LEMMA GapsAreHoles ==
  ASSUME U!UHeapAssumption, Tiled(userBrk, allocs, holes), userBrk <= UserTop + 1
  PROVE  /\ \A i \in DOMAIN holes : holes[i] \in U!Gaps
         /\ \A g \in U!Gaps : \E i \in DOMAIN holes : g = holes[i]
<1> DEFINE unused == {p \in 1..(userBrk - 1) : \A a \in U!Live : p \notin U!Extent(a)}
<1>1. UserTop \in Nat
  BY DEF U!UHeapAssumption
<1>2. userBrk \in Nat \ {0} /\ Sorted(holes)
      /\ (\A p \in Int : Covers(allocs, p) \/ Covers(holes, p) <=> 1 <= p /\ p < userBrk)
      /\ (\A p \in Int : ~(Covers(allocs, p) /\ Covers(holes, p)))
  BY Zenon DEF Tiled
<1>3. \A p \in Int : p \in unused <=> Covers(holes, p)
  <2> SUFFICES ASSUME NEW p \in Int PROVE p \in unused <=> Covers(holes, p)
    OBVIOUS
  <2>1. (\A a \in U!Live : p \notin U!Extent(a)) <=> ~Covers(allocs, p)
    BY DEF U!Live, U!ToSet, Covers
  <2>2. p \in 1..(userBrk - 1) <=> 1 <= p /\ p < userBrk
    BY <1>2
  <2> QED BY <1>2, <2>1, <2>2
<1>4. /\ \A i \in DOMAIN holes : /\ holes[i] \in Block
                                 /\ holes[i].va \in Nat \ {0} /\ holes[i].n \in Nat \ {0}
                                 /\ U!End(holes[i]) \in Nat /\ U!End(holes[i]) <= userBrk
      /\ \A i, j \in DOMAIN holes : i < j => U!End(holes[i]) < holes[j].va
  BY <1>2, BelowBreak DEF Sorted
<1>5. \A i \in DOMAIN holes : /\ holes[i].va < U!End(holes[i])
                              /\ U!End(holes[i]) = holes[i].va + holes[i].n
                              /\ U!Extent(holes[i]) \subseteq Int
                              /\ \A p \in Int : p \in U!Extent(holes[i])
                                                  <=> holes[i].va <= p /\ p < U!End(holes[i])
  BY <1>4, ObjectPages
<1>6. DOMAIN holes \subseteq Int
  <2>1. holes \in Seq(Block)
    BY Zenon DEF Tiled
  <2> QED BY <2>1, LenProperties
<1>7. \A g \in [va : U!Pages, n : 1..UserTop] :
        g \in U!Gaps <=> /\ U!Extent(g) \subseteq unused
                         /\ g.va - 1 \notin unused /\ U!End(g) \notin unused
  BY DEF U!Gaps
<1>8. \A g \in U!Gaps : g \in [va : U!Pages, n : 1..UserTop]
  BY DEF U!Gaps
<1> HIDE DEF unused
(* No block of the list touches another one.                               *)
<1>9. ASSUME NEW i \in DOMAIN holes
      PROVE  ~Covers(holes, holes[i].va - 1) /\ ~Covers(holes, U!End(holes[i]))
  <2> SUFFICES ASSUME NEW p \in Int, p = holes[i].va - 1 \/ p = U!End(holes[i]),
                      NEW j \in DOMAIN holes, p \in U!Extent(holes[j])
               PROVE  FALSE
    <3>1. holes[i].va - 1 \in Int /\ U!End(holes[i]) \in Int
      BY <1>4
    <3> QED BY <3>1 DEF Covers
  <2>1. holes[j].va <= p /\ p < U!End(holes[j]) /\ holes[j].va \in Int /\ U!End(holes[j]) \in Int
    BY <1>4, <1>5
  <2>2. holes[i].va < U!End(holes[i]) /\ holes[i].va \in Int /\ U!End(holes[i]) \in Int
    BY <1>4, <1>5
  <2>3. CASE i = j
    BY <2>1, <2>2, <2>3
  <2>4. CASE i < j
    <3>1. U!End(holes[i]) < holes[j].va
      BY <1>4, <2>4
    <3> QED BY <2>1, <2>2, <3>1
  <2>5. CASE j < i
    <3>1. U!End(holes[j]) < holes[i].va
      BY <1>4, <2>5
    <3> QED BY <2>1, <2>2, <3>1
  <2>6. i \in Int /\ j \in Int
    BY <1>6
  <2> QED BY <2>3, <2>4, <2>5, <2>6
<1>10. ASSUME NEW i \in DOMAIN holes PROVE holes[i] \in U!Gaps
  <2> DEFINE h == holes[i]
  <2>1. /\ h \in Block /\ h.va \in Nat \ {0} /\ h.n \in Nat \ {0} /\ U!End(h) = h.va + h.n
        /\ U!End(h) <= userBrk
    BY <1>4, <1>5
  <2>2. h.va \in U!Pages /\ h.n \in 1..UserTop
    BY <1>1, <1>2, <2>1 DEF U!Pages
  <2>3. h \in [va : U!Pages, n : 1..UserTop]
    BY <2>1, <2>2 DEF Block
  <2>4. U!Extent(h) \subseteq unused
    BY <1>3, <1>5 DEF Covers
  <2>5. h.va - 1 \in Int /\ U!End(h) \in Int
    BY <2>1
  <2>6. h.va - 1 \notin unused /\ U!End(h) \notin unused
    BY <1>3, <1>9, <2>5
  <2> QED BY <1>7, <2>3, <2>4, <2>6
<1>11. ASSUME NEW g \in U!Gaps PROVE \E i \in DOMAIN holes : g = holes[i]
  <2>1. g \in [va : U!Pages, n : 1..UserTop] /\ g.va \in Nat \ {0} /\ g.n \in Nat \ {0}
    BY <1>1, <1>8 DEF U!Pages
  <2>2. /\ U!Extent(g) \subseteq unused /\ g.va - 1 \notin unused /\ U!End(g) \notin unused
    BY <1>7, <2>1
  <2>3. /\ U!End(g) = g.va + g.n /\ g.va \in U!Extent(g) /\ g.va < U!End(g)
        /\ \A p \in Int : p \in U!Extent(g) <=> g.va <= p /\ p < U!End(g)
    BY <2>1, ObjectPages
  <2>4. PICK i \in DOMAIN holes : g.va \in U!Extent(holes[i])
    <3>1. g.va \in Int /\ g.va \in unused
      BY <2>1, <2>2, <2>3
    <3>2. Covers(holes, g.va)
      BY <1>3, <3>1
    <3> QED BY <3>2 DEF Covers
  <2> DEFINE h == holes[i]
  <2>5. /\ h.va \in Nat \ {0} /\ h.n \in Nat \ {0} /\ U!End(h) = h.va + h.n
        /\ h.va <= g.va /\ g.va < U!End(h) /\ h \in Block
        /\ \A p \in Int : p \in U!Extent(h) <=> h.va <= p /\ p < U!End(h)
    BY <1>4, <1>5, <2>1, <2>4
  <2>6. h.va = g.va
    <3> SUFFICES ASSUME h.va # g.va PROVE FALSE
      OBVIOUS
    <3>1. g.va - 1 \in Int /\ h.va <= g.va - 1 /\ g.va - 1 < U!End(h)
      <4> HIDE DEF h
      <4> QED BY <2>1, <2>5
    <3>2. Covers(holes, g.va - 1)
      BY <2>5, <3>1 DEF Covers
    <3> QED BY <1>3, <2>2, <3>1, <3>2
  <2>7. ~(U!End(g) < U!End(h))
    <3> SUFFICES ASSUME U!End(g) < U!End(h) PROVE FALSE
      OBVIOUS
    <3>1. U!End(g) \in Int /\ h.va <= U!End(g)
      <4> HIDE DEF h
      <4> QED BY <2>1, <2>3, <2>6
    <3>2. Covers(holes, U!End(g))
      BY <2>5, <3>1 DEF Covers
    <3> QED BY <1>3, <2>2, <3>1, <3>2
  <2>8. ~(U!End(h) < U!End(g))
    <3> SUFFICES ASSUME U!End(h) < U!End(g) PROVE FALSE
      OBVIOUS
    <3>1. U!End(h) \in Int /\ g.va <= U!End(h)
      <4> HIDE DEF h
      <4> QED BY <2>1, <2>5
    <3>2. U!End(h) \in unused
      <4> HIDE DEF h
      <4> QED BY <2>2, <2>3, <3>1
    <3>3. Covers(holes, U!End(h))
      <4> HIDE DEF h
      <4> QED BY <1>3, <3>1, <3>2
    <3> QED BY <1>9, <3>3
  <2>9. g.n = h.n
    <3> HIDE DEF h
    <3>1. U!End(g) = U!End(h)
      BY <2>1, <2>3, <2>5, <2>7, <2>8
    <3> QED BY <2>1, <2>3, <2>5, <2>6, <3>1
  <2>10. g = h
    <3>1. g \in Block /\ h \in Block
      BY <2>1, <2>5 DEF Block
    <3> HIDE DEF h
    <3> QED BY <2>6, <2>9, <3>1 DEF Block
  <2> QED BY <2>10
<1> QED BY <1>10, <1>11

----------------------------------------------------------------------------
(* What the invariant says of the pages and of the places.                 *)

LEMMA SameCardinality == \A S : U!Cardinality(S) = Cardinality(S)
<1> SUFFICES ASSUME NEW S PROVE U!Cardinality(S) = Cardinality(S)
  OBVIOUS
<1> QED BY Zenon DEF U!Cardinality, Cardinality

(* A set without two elements.                                             *)
LEMMA AtMostOne ==
  ASSUME NEW S, \A x, y \in S : x = y
  PROVE  Cardinality(S) = IF S = {} THEN 0 ELSE 1
<1>1. CASE S = {}
  BY <1>1, FS_EmptySet
<1>2. CASE S # {}
  <2>1. PICK x \in S : S = {x}
    BY <1>2
  <2> QED BY <1>2, <2>1, FS_Singleton
<1> QED BY <1>1, <1>2

(* The user heap loses no page and hands out none twice: every page below  *)
(* the break belongs to one object or to one free block, none above it     *)
(* does, and the kernel's table marks those of the objects, in every heap  *)
(* and for any number of objects of any sizes, until free leaves a listed  *)
(* block above the break; and never is a page marked that has no object.   *)
THEOREM UserPagesConserved == U!Spec => []PagesConserved
<1> USE PageAssumption
<1>2. ASSUME UserInv, NEW p \in U!Pages, page[p] # "none"
      PROVE  \E a \in U!Live : p \in U!Extent(a)
  BY <1>2 DEF UserInv, MarksInv, Covers, U!Live, U!ToSet
<1>1. ASSUME UserInv, running /\ ~lowered
      PROVE  /\ \A p \in U!Pages :
                  U!Cardinality({i \in DOMAIN allocs : p \in U!Extent(allocs[i])})
                    + U!Cardinality({i \in DOMAIN holes : p \in U!Extent(holes[i])})
                    = IF p < userBrk THEN 1 ELSE 0
             /\ \A p \in U!Pages :
                  page[p] = IF \E a \in U!Live : a.shared /\ p \in U!Extent(a) THEN "shared"
                            ELSE IF \E a \in U!Live : p \in U!Extent(a) THEN "marked"
                            ELSE "none"
  <2> SUFFICES ASSUME NEW p \in U!Pages
               PROVE  /\ U!Cardinality({i \in DOMAIN allocs : p \in U!Extent(allocs[i])})
                           + U!Cardinality({i \in DOMAIN holes : p \in U!Extent(holes[i])})
                           = IF p < userBrk THEN 1 ELSE 0
                      /\ page[p] = IF \E a \in U!Live : a.shared /\ p \in U!Extent(a)
                                   THEN "shared"
                                   ELSE IF \E a \in U!Live : p \in U!Extent(a) THEN "marked"
                                   ELSE "none"
    BY Zenon
  <2> DEFINE X == {i \in DOMAIN allocs : p \in U!Extent(allocs[i])}
             Y == {i \in DOMAIN holes : p \in U!Extent(holes[i])}
  <2>1. Tiled(userBrk, allocs, holes) /\ Marked(page, allocs)
    BY <1>1 DEF UserInv, TiledInv
  <2>2. p \in Int /\ 1 <= p
    BY DEF U!Pages
  <2>3. /\ \A i, j \in DOMAIN allocs :
             i # j => U!Extent(allocs[i]) \cap U!Extent(allocs[j]) = {}
        /\ Sorted(holes) /\ userBrk \in Nat
        /\ Covers(allocs, p) \/ Covers(holes, p) <=> 1 <= p /\ p < userBrk
        /\ ~(Covers(allocs, p) /\ Covers(holes, p))
    <3>1. userBrk \in Nat \ {0} /\ holes \in Seq(Block)
      BY <2>1, Zenon DEF Tiled
    <3> QED BY <2>1, <2>2, <3>1, Zenon DEF Tiled
  <2>4. Cardinality(X) = IF Covers(allocs, p) THEN 1 ELSE 0
    <3>1. \A x, y \in X : x = y
      BY <2>3
    <3>2. X = {} <=> ~Covers(allocs, p)
      BY DEF Covers
    <3> HIDE DEF X
    <3> QED BY <3>1, <3>2, AtMostOne
  <2>5. Cardinality(Y) = IF Covers(holes, p) THEN 1 ELSE 0
    <3>1. ASSUME NEW x \in Y, NEW y \in Y PROVE x = y
      <4>1. \A i \in Y : i \in DOMAIN holes /\ i \in Int /\ holes[i].va \in Int
                           /\ U!End(holes[i]) \in Int /\ holes[i].va <= p /\ p < U!End(holes[i])
        <5> SUFFICES ASSUME NEW i \in Y
                     PROVE  /\ i \in DOMAIN holes /\ i \in Int /\ holes[i].va \in Int
                            /\ U!End(holes[i]) \in Int
                            /\ holes[i].va <= p /\ p < U!End(holes[i])
          OBVIOUS
        <5>1. i \in DOMAIN holes /\ p \in U!Extent(holes[i])
          OBVIOUS
        <5>2. holes[i].va \in Nat \ {0} /\ holes[i].n \in Nat \ {0}
          BY <2>1, <5>1, BelowBreak
        <5>3. i \in Int
          <6>1. holes \in Seq(Block)
            BY <2>1, Zenon DEF Tiled
          <6> QED BY <5>1, <6>1, LenProperties
        <5> HIDE DEF Y
        <5> QED BY <2>2, <5>1, <5>2, <5>3, ObjectPages
      <4>2. /\ x < y => U!End(holes[x]) < holes[y].va
            /\ y < x => U!End(holes[y]) < holes[x].va
        BY <2>3 DEF Sorted
      <4> HIDE DEF Y
      <4>3. ~(x < y)
        BY <2>2, <4>1, <4>2
      <4>4. ~(y < x)
        BY <2>2, <4>1, <4>2
      <4>5. x \in Int /\ y \in Int
        BY <4>1
      <4> QED BY <4>3, <4>4, <4>5
    <3>2. Y = {} <=> ~Covers(holes, p)
      BY DEF Covers
    <3> HIDE DEF Y
    <3> QED BY <3>1, <3>2, AtMostOne
  <2>6. U!Cardinality(X) + U!Cardinality(Y) = IF p < userBrk THEN 1 ELSE 0
    <3>1. U!Cardinality(X) = Cardinality(X) /\ U!Cardinality(Y) = Cardinality(Y)
      BY SameCardinality
    <3> HIDE DEF X, Y
    <3> QED BY <2>2, <2>3, <2>4, <2>5, <3>1
  <2>7. /\ (\E a \in U!Live : a.shared /\ p \in U!Extent(a))
             <=> \E i \in DOMAIN allocs : allocs[i].shared /\ p \in U!Extent(allocs[i])
        /\ (\E a \in U!Live : p \in U!Extent(a)) <=> Covers(allocs, p)
    BY DEF U!Live, U!ToSet, Covers
  <2>8. page[p] = IF \E i \in DOMAIN allocs : allocs[i].shared /\ p \in U!Extent(allocs[i])
                  THEN "shared" ELSE IF Covers(allocs, p) THEN "marked" ELSE "none"
    BY <2>1 DEF Marked
  <2> HIDE DEF X, Y
  <2> QED BY <2>6, <2>7, <2>8 DEF X, Y
<1>3. UserInv => U!PagesConserved
  BY <1>1, <1>2, Zenon DEF U!PagesConserved
<1> QED BY <1>3, UserInvariance, PTL DEF PagesConserved

(* A block that free has left above the break is the only cause of objects *)
(* that share a page, which the tests of the user heap look for and the    *)
(* run uheap_overlap finds.                                                *)
THEOREM UserObjectsApart == U!Spec => [](running /\ ~lowered => U!NoOverlap)
<1> USE PageAssumption
<1>1. UserInv => (running /\ ~lowered => U!NoOverlap)
  BY Zenon DEF UserInv, TiledInv, Tiled, U!NoOverlap
<1> QED BY <1>1, UserInvariance, PTL

(* malloc, smalloc and sget follow the custom fit strategy, measured by    *)
(* the gaps between the objects: the list of free blocks names each of     *)
(* them, whole, after any calls, until free leaves one above the break.    *)
THEOREM UserFollowsCustomFit == U!Spec => FitsCustom
<1> USE PageAssumption
<1>1. ASSUME UserInv, [U!Next]_(U!vars), Len(allocs') > Len(allocs), ~lowered
      PROVE  U!InCustomFit
  <2>15. TiledInv
    BY <1>1 DEF UserInv
  <2>1. allocs \in Seq(ObjectType) /\ Len(allocs) \in Nat
    BY <2>15 DEF TiledInv, U!TypeOK, ObjectType
  <2>2. allocs' # allocs
    BY <1>1, <2>1
  <2>3. PICK n \in UserSizes : \/ U!malloc(n) /\ running' = running
                               \/ U!Shared(n)
    <3>1. \A n : ~U!NotShared(n)
      BY <2>2 DEF U!NotShared
    <3>2. ASSUME NEW va, U!free(va) \/ U!sfree(va) PROVE FALSE
      <4>1. allocs' = U!RemoveAt(allocs, U!Newest(va)) /\ U!Newest(va) # 0
        BY <3>2 DEF U!free, U!sfree
      <4>2. U!Newest(va) \in 1..Len(allocs)
        <5>1. U!Newest(va) \in DOMAIN allocs
          BY <2>1, <4>1, Found
        <5> QED BY <2>1, <5>1, LenProperties
      <4>3. Len(allocs') = Len(allocs) - 1
        BY <2>1, <4>1, <4>2, Removed
      <4> QED BY <1>1, <2>1, <4>3
    <3>3. \A n : U!malloc(n) => running' = running
      BY <2>2 DEF U!malloc, U!Terminated
    <3>4. ~UNCHANGED U!vars
      BY <2>2 DEF U!vars
    <3> QED BY <1>1, <3>1, <3>2, <3>3, <3>4 DEF U!Next, U!smalloc, U!sget
  <2>4. PICK s \in BOOLEAN :
          allocs' = <<[va |-> U!CustomFit(n).va, n |-> n, shared |-> s]>> \o allocs
    <3>1. CASE U!malloc(n)
      BY <2>2, <3>1 DEF U!malloc, U!Terminated
    <3>2. CASE U!Shared(n)
      BY <3>2 DEF U!Shared
    <3> QED BY <2>3, <3>1, <3>2
  <2> DEFINE b == [va |-> U!CustomFit(n).va, n |-> n, shared |-> s]
  <2>5. running /\ n \in Nat \ {0} /\ ~U!NoRoom(n)
    <3>1. n \in Nat \ {0} /\ UserTop \in Nat
      BY DEF U!UHeapAssumption
    <3>2. userBrk \in Nat
      BY <2>15 DEF TiledInv, U!TypeOK
    <3> QED BY <2>3, <3>1, <3>2 DEF U!malloc, U!Shared, U!MayShare, U!NoRoom
  <2>6. b = [va |-> U!CustomFit(n).va, n |-> n, shared |-> s] /\ b.n = n
    OBVIOUS
  <2> HIDE DEF b
  <2>7. BestFit(b.va, n) /\ <<b>> \o allocs \in Seq(ObjectType) /\ b \in UserObject
    BY <2>5, <2>6, <2>15, TakesPlace
  <2>8. allocs'[1] = b
    <3>1. allocs' = <<b>> \o allocs /\ allocs \in Seq(ObjectType)
      BY <2>1, <2>4, <2>6
    <3> QED BY <3>1
  <2>9. /\ \A i \in DOMAIN holes : holes[i] \in U!Gaps
        /\ \A g \in U!Gaps : \E i \in DOMAIN holes : g = holes[i]
    BY <2>5, <2>15, GapsAreHoles DEF TiledInv
  <2>10. \A i \in DOMAIN holes : holes[i].n \in Nat
    BY <2>5, <2>15, BelowBreak DEF TiledInv
  <2> DEFINE fitting == {g \in U!Gaps : g.n >= b.n}
  <2>11. CASE b.va = userBrk /\ \A j \in DOMAIN holes : holes[j].n < n
    <3>1. fitting = {}
      BY <2>5, <2>6, <2>9, <2>10, <2>11
    <3> QED BY <2>8, <2>11, <3>1, Zenon DEF U!InCustomFit
  <2>12. ASSUME NEW i \in DOMAIN holes, holes[i].va = b.va, holes[i].n = n
         PROVE  U!InCustomFit
    <3>1. holes[i] \in fitting /\ holes[i].n = b.n /\ holes[i].va = b.va
      BY <2>5, <2>6, <2>9, <2>12
    <3> QED BY <2>8, <3>1, Zenon DEF U!InCustomFit
  <2>13. ASSUME NEW i \in DOMAIN holes, holes[i].va = b.va, n <= holes[i].n,
                \A j \in DOMAIN holes : holes[j].n # n /\ holes[j].n <= holes[i].n
         PROVE  U!InCustomFit
    <3>1. holes[i] \in fitting /\ holes[i].va = b.va
      BY <2>5, <2>6, <2>9, <2>10, <2>13
    <3>2. ~\E g \in fitting : g.n = b.n
      BY <2>6, <2>9, <2>13
    <3>3. fitting # {} /\ \A h \in U!Gaps : h.n <= holes[i].n
      BY <2>9, <2>13, <3>1
    <3> QED BY <2>8, <3>1, <3>2, <3>3, Zenon DEF U!InCustomFit
  <2> QED BY <2>7, <2>11, <2>12, <2>13, Zenon DEF BestFit
<1>2. UserInv /\ [U!Next]_(U!vars)
        => [Len(allocs') > Len(allocs) /\ ~lowered => U!InCustomFit]_(U!vars)
  BY <1>1
<1> QED BY <1>2, UserInvariance, PTL DEF U!Spec, FitsCustom, U!FitsCustom

----------------------------------------------------------------------------
(* The block allocator (DynAlloc), for any pages and any sizes of blocks   *)
(* that divide a page.                                                     *)

LEMMA FiniteBlocks == /\ \A S : D!Cardinality(S) = Cardinality(S)
                      /\ \A S : D!IsFiniteSet(S) <=> IsFiniteSet(S)
<1>1. ASSUME NEW S PROVE D!IsFiniteSet(S) <=> IsFiniteSet(S)
  BY Zenon DEF D!IsFiniteSet, IsFiniteSet
<1>2. ASSUME NEW S PROVE D!Cardinality(S) = Cardinality(S)
  BY Zenon DEF D!Cardinality, Cardinality
<1> QED BY <1>1, <1>2

(* The classes, and how many blocks of one a page has.                     *)
LEMMA ClassNumbers ==
  ASSUME D!DynAllocAssumption
  PROVE  /\ D!LastClass \in Nat /\ D!Classes = 0..D!LastClass
         /\ PageSize \in Nat \ {0}
         /\ \A c \in D!Classes : ClassSize[c] \in 1..PageSize
         /\ \A c, d \in D!Classes : c < d => ClassSize[c] < ClassSize[d]
         /\ NoClass \notin D!Classes
         /\ SmallSizes \subseteq 1..ClassSize[D!LastClass]
         /\ IsFiniteSet(SmallPages)
BY FiniteBlocks DEF D!DynAllocAssumption, D!Classes

LEMMA Divided ==
  ASSUME NEW s \in Nat \ {0}, NEW m \in Nat \ {0}, s <= m, m % s = 0
  PROVE  /\ m \div s \in Nat \ {0} /\ m \div s <= m
         /\ (m \div s) * s = m
<1> DEFINE q == m \div s
<1>1. q \in Int
  OBVIOUS
<1>2. m = s * q
  OBVIOUS
<1> HIDE DEF q
<1>3. q > 0
  BY <1>1, <1>2
<1>4. q <= m /\ q * s = m
  BY <1>1, <1>2, <1>3
<1> QED BY <1>1, <1>3, <1>4 DEF q

LEMMA InSteps ==
  ASSUME NEW s \in Nat \ {0}, NEW k \in Nat, NEW l \in Nat, k < l
  PROVE  k * s \in Nat /\ l * s \in Nat /\ k * s + s <= l * s
<1>1. PICK d \in Nat : l = k + 1 + d
  <2>1. l - k - 1 \in Nat /\ l = k + 1 + (l - k - 1)
    OBVIOUS
  <2> QED BY <2>1
<1>2. l * s = k * s + s + d * s
  BY <1>1
<1>3. k * s \in Nat /\ d * s \in Nat /\ l * s \in Nat
  OBVIOUS
<1> QED BY <1>2, <1>3

\* The blocks of class c in page p.
Cut(p, c) == {D!BlockAt(p, c, k) : k \in 0..(D!BlocksOf(c) - 1)}

(* They lie in the page, apart, and are as many as BlocksOf says.          *)
LEMMA Numbered ==
  ASSUME D!DynAllocAssumption, NEW c \in D!Classes, NEW p \in SmallPages
  PROVE  /\ D!BlocksOf(c) \in 1..PageSize
         /\ Cut(p, c) \subseteq D!Block /\ IsFiniteSet(Cut(p, c))
         /\ Cardinality(Cut(p, c)) = D!BlocksOf(c)
         /\ \A x \in Cut(p, c) : x.page = p /\ x.off \in Nat
         /\ \A x, y \in Cut(p, c) :
              x # y => \/ x.off + ClassSize[c] <= y.off
                       \/ y.off + ClassSize[c] <= x.off
         /\ \A k, l \in 0..(D!BlocksOf(c) - 1) :
              D!BlockAt(p, c, k) = D!BlockAt(p, c, l) => k = l
<1> DEFINE n == D!BlocksOf(c)
           s == ClassSize[c]
           At(k) == D!BlockAt(p, c, k)
<1>1. s \in Nat \ {0} /\ PageSize \in Nat \ {0} /\ s <= PageSize /\ PageSize % s = 0
  BY ClassNumbers DEF D!DynAllocAssumption
<1>2. n \in Nat \ {0} /\ n <= PageSize /\ n * s = PageSize
  <2> HIDE DEF s
  <2>1. PageSize \div s \in Nat \ {0} /\ PageSize \div s <= PageSize
        /\ (PageSize \div s) * s = PageSize
    BY <1>1, Divided
  <2> QED BY <2>1 DEF D!BlocksOf, s
<1>3. \A k : At(k) = [page |-> p, off |-> k * s] /\ At(k).page = p /\ At(k).off = k * s
  BY DEF D!BlockAt
<1> HIDE DEF n, s, At
<1>4. \A k, l \in Nat : k < l => k * s \in Nat /\ l * s \in Nat /\ k * s + s <= l * s
  BY <1>1, InSteps
<1>5. \A k \in 0..(n - 1) : k * s \in Nat /\ k * s < PageSize
  <2> TAKE k \in 0..(n - 1)
  <2>1. k \in Nat /\ n \in Nat /\ k < n
    BY <1>2
  <2>2. k * s \in Nat /\ k * s + s <= n * s
    BY <1>4, <2>1
  <2>3. k * s + s <= PageSize
    BY <1>2, <2>2
  <2> HIDE DEF s
  <2> QED BY <1>1, <2>2, <2>3
<1>6. \A k \in 0..(n - 1) : At(k) \in D!Block /\ At(k).off \in Nat /\ At(k).page = p
  BY <1>1, <1>3, <1>5 DEF D!Block, D!Offsets
<1>7. \A k, l \in 0..(n - 1) : k # l => \/ At(k).off + s <= At(l).off
                                        \/ At(l).off + s <= At(k).off
  <2> TAKE k, l \in 0..(n - 1)
  <2>1. k \in Nat /\ l \in Nat /\ (k # l => k < l \/ l < k)
    BY <1>2
  <2> QED BY <1>3, <1>4, <2>1
<1>8. \A k, l \in 0..(n - 1) : At(k) = At(l) => k = l
  BY <1>1, <1>6, <1>7
<1>9. Cut(p, c) = {At(k) : k \in 0..(n - 1)}
  BY DEF Cut, n, At
<1>10. IsFiniteSet(Cut(p, c)) /\ Cardinality(Cut(p, c)) = n
  <2> DEFINE f == [k \in 0..(n - 1) |-> At(k)]
  <2>1. IsFiniteSet(0..(n - 1)) /\ Cardinality(0..(n - 1)) = n
    <3>1. 0 \in Int /\ n - 1 \in Int /\ ~(0 > n - 1) /\ (n - 1) - 0 + 1 = n
      BY <1>2
    <3> QED BY <3>1, FS_Interval
  <2>2. f \in Bijection(0..(n - 1), Cut(p, c))
    BY <1>8, <1>9 DEF Bijection, Injection, Surjection, IsInjective
  <2> QED BY <2>1, <2>2, FS_Bijection DEF ExistsBijection
<1> QED BY <1>2, <1>6, <1>7, <1>8, <1>9, <1>10 DEF n, s, At

----------------------------------------------------------------------------
(* What is free and what is held.                                          *)

FreeOf(p) == {x \in D!Block : x.page = p /\ \E c \in D!Classes : Occurs(freeBlocks[c], x)}
HeldOf(p) == {x \in D!Held : x.page = p}

\* Every list has blocks of its class, once, that nobody holds.
ListsApart ==
  \A c \in D!Classes :
    /\ Distinct(freeBlocks[c])
    /\ \A x : Occurs(freeBlocks[c], x) => blockSize[x.page] = c /\ x \notin D!Held

\* The blocks of a page are free or held, and the former are counted.
Counted(p) ==
  blockSize[p] # NoClass =>
    /\ numFree[p] = Cardinality(FreeOf(p))
    /\ FreeOf(p) \cup HeldOf(p) = Cut(p, blockSize[p])

\* A block is held once, and is as long as was asked for.
HeldOnce ==
  /\ \A a, b \in handed : a.page = b.page /\ a.off = b.off => a = b
  /\ \A a \in handed : a.size <= ClassSize[blockSize[a.page]]

\* A page is split, and has a frame, as long as a block of it is held, and is
\* in the list of free pages otherwise.
InUse ==
  /\ framed = {p \in SmallPages : blockSize[p] # NoClass}
  /\ \A p \in framed : HeldOf(p) # {}
  /\ \A x \in D!Held : x.page \in framed
  /\ Distinct(freePages)
  /\ \A p \in SmallPages : Occurs(freePages, p) <=> p \notin framed

StoreType ==
  /\ blockSize \in [SmallPages -> D!Classes \cup {NoClass}]
  /\ numFree \in [SmallPages -> 0..PageSize]
  /\ freePages \in Seq(SmallPages)
  /\ freeBlocks \in [D!Classes -> Seq(D!Block)]
  /\ framed \subseteq SmallPages
  /\ handed \subseteq [page : SmallPages, off : D!Offsets, size : SmallSizes]

Stored ==
  /\ StoreType /\ ListsApart /\ HeldOnce /\ InUse
  /\ \A p \in SmallPages : Counted(p)

\* The block that a reallocation is going to free stays held.
CallKnows ==
  /\ blocked \in BOOLEAN
  /\ \/ call = D!Idle
     \/ /\ call.stage = "wait" /\ call.size \in SmallSizes
        /\ call.old \in D!Held \cup {D!NoBlock}
        /\ call = [stage |-> "wait", size |-> call.size, old |-> call.old]
     \/ /\ call.old \in D!Held
        /\ call = [stage |-> "free", size |-> 0, old |-> call.old]

BlockInv == Stored /\ CallKnows

LEMMA HeldIs ==
  ASSUME StoreType
  PROVE  /\ D!Held \subseteq D!Block
         /\ \A x : x \in D!Held <=> /\ x = [page |-> x.page, off |-> x.off]
                                    /\ \E a \in handed : x.page = a.page /\ x.off = a.off
BY DEF StoreType, D!Held, D!Block

(* A block that was free is handed out.                                    *)
LEMMA HandedOut ==
  ASSUME D!DynAllocAssumption, StoreType, HeldOnce,
         NEW x \in D!Block, x \notin D!Held, NEW size \in SmallSizes, D!HandOut(x, size),
         blockSize'[x.page] \in D!Classes, size <= ClassSize[blockSize'[x.page]],
         \A p \in SmallPages : blockSize[p] # NoClass => blockSize'[p] = blockSize[p],
         \A y \in D!Held : blockSize[y.page] # NoClass
  PROVE  /\ handed' \subseteq [page : SmallPages, off : D!Offsets, size : SmallSizes]
         /\ D!Held' = D!Held \cup {x}
         /\ HeldOnce'
<1> DEFINE e == [page |-> x.page, off |-> x.off, size |-> size]
<1>1. /\ x.page \in SmallPages /\ x.off \in D!Offsets /\ x = [page |-> x.page, off |-> x.off]
      /\ e.page = x.page /\ e.off = x.off /\ e.size = size
  BY DEF D!Block
<1>2. handed' = handed \cup {e}
  BY DEF D!HandOut
<1>3. e \in [page : SmallPages, off : D!Offsets, size : SmallSizes]
  BY <1>1
<1> HIDE DEF e
<1>4. handed' \subseteq [page : SmallPages, off : D!Offsets, size : SmallSizes]
  BY <1>2, <1>3 DEF StoreType
<1>5. D!Held' = D!Held \cup {x}
  <2>1. D!Held' = {[page |-> a.page, off |-> a.off] : a \in handed'}
    BY DEF D!Held
  <2> QED BY <1>1, <1>2, <2>1 DEF D!Held
<1>6. \A a \in handed : [page |-> a.page, off |-> a.off] \in D!Held
  BY DEF D!Held
<1>7. \A a, b \in handed' : a.page = b.page /\ a.off = b.off => a = b
  <2>1. \A a \in handed : ~(a.page = x.page /\ a.off = x.off)
    BY <1>1, <1>6
  <2> QED BY <1>1, <1>2, <2>1 DEF HeldOnce
<1>8. \A a \in handed' : a.size <= ClassSize[blockSize'[a.page]]
  <2>1. ASSUME NEW a \in handed PROVE a.size <= ClassSize[blockSize'[a.page]]
    <3>1. blockSize[a.page] # NoClass /\ a.page \in SmallPages
      BY <1>6 DEF StoreType
    <3> QED BY <3>1 DEF HeldOnce
  <2> QED BY <1>1, <1>2, <2>1
<1>9. HeldOnce'
  BY <1>7, <1>8 DEF HeldOnce
<1> QED BY <1>4, <1>5, <1>9

(* One list is replaced.                                                   *)
LEMMA OneList ==
  ASSUME StoreType, NEW c \in D!Classes, NEW q \in Seq(D!Block),
         freeBlocks' = [freeBlocks EXCEPT ![c] = q]
  PROVE  /\ freeBlocks' \in [D!Classes -> Seq(D!Block)]
         /\ freeBlocks'[c] = q
         /\ \A d \in D!Classes : d # c => freeBlocks'[d] = freeBlocks[d]
         /\ \A d \in D!Classes : \A x : Occurs(freeBlocks[d], x) => x \in D!Block
         /\ \A p : FreeOf(p)' = {x \in D!Block : x.page = p /\ \E d \in D!Classes :
                                                  Occurs(freeBlocks'[d], x)}
<1>1. \A d \in D!Classes : \A x : Occurs(freeBlocks[d], x) => x \in D!Block
  BY ElementOfSeq DEF StoreType, Occurs
<1> QED BY <1>1 DEF StoreType, FreeOf

\* The first block of a list is handed out.
LEMMA TakeKeeps ==
  ASSUME D!DynAllocAssumption, Stored, NEW c \in D!Classes, NEW size \in SmallSizes,
         size <= ClassSize[c], freeBlocks[c] # <<>>, D!Take(c, size)
  PROVE  Stored' /\ D!Held \subseteq D!Held'
<1>a. PICK x : x = Head(freeBlocks[c])
  OBVIOUS
<1>b. PICK p : p = x.page
  OBVIOUS
<1> DEFINE q == Tail(freeBlocks[c])
<1>1. /\ StoreType /\ ListsApart /\ HeldOnce /\ InUse
      /\ \A r \in SmallPages : Counted(r)
  BY DEF Stored
<1>2. /\ freeBlocks' = [freeBlocks EXCEPT ![c] = q]
      /\ numFree' = [numFree EXCEPT ![p] = @ - 1]
      /\ D!HandOut(x, size)
      /\ blockSize' = blockSize /\ freePages' = freePages /\ framed' = framed
  BY <1>a, <1>b DEF D!Take
<1>3. freeBlocks[c] \in Seq(D!Block) /\ Distinct(freeBlocks[c])
  BY <1>1 DEF StoreType, ListsApart
<1>4. /\ q \in Seq(D!Block) /\ x \in D!Block /\ Occurs(freeBlocks[c], x)
      /\ Distinct(q) /\ \A y : Occurs(q, y) <=> Occurs(freeBlocks[c], y) /\ y # x
  BY <1>3, <1>a, OccursTail
<1> HIDE DEF q
<1>5. p \in SmallPages /\ blockSize[p] = c /\ x \notin D!Held /\ c # NoClass
  BY <1>1, <1>4, <1>b, ClassNumbers DEF ListsApart, D!Block
<1>6. /\ freeBlocks' \in [D!Classes -> Seq(D!Block)]
      /\ freeBlocks'[c] = q
      /\ \A d \in D!Classes : d # c => freeBlocks'[d] = freeBlocks[d]
      /\ \A d \in D!Classes : \A y : Occurs(freeBlocks[d], y) => y \in D!Block
      /\ \A r : FreeOf(r)' = {y \in D!Block : y.page = r /\ \E d \in D!Classes :
                                               Occurs(freeBlocks'[d], y)}
  BY <1>1, <1>2, <1>4, OneList
<1>7. \A d \in D!Classes : \A y : Occurs(freeBlocks'[d], y) <=> Occurs(freeBlocks[d], y) /\ y # x
  <2> TAKE d \in D!Classes
  <2> TAKE y
  <2>1. CASE d = c
    BY <1>4, <1>6, <2>1
  <2>2. CASE d # c
    <3>1. ~Occurs(freeBlocks[d], x)
      BY <1>1, <1>5, <1>b, <2>2 DEF ListsApart
    <3> QED BY <1>6, <2>2, <3>1
  <2> QED BY <2>1, <2>2
<1>8. /\ handed' \subseteq [page : SmallPages, off : D!Offsets, size : SmallSizes]
      /\ D!Held' = D!Held \cup {x}
      /\ HeldOnce'
  <2>1. \A y \in D!Held : blockSize[y.page] # NoClass
    BY <1>1 DEF InUse
  <2> QED BY <1>1, <1>2, <1>4, <1>5, <1>b, <2>1, HandedOut
<1>9. \A r : FreeOf(r)' = FreeOf(r) \ {x}
  BY <1>6, <1>7 DEF FreeOf
<1>10. \A r : HeldOf(r)' = IF r = p THEN HeldOf(r) \cup {x} ELSE HeldOf(r)
  BY <1>8, <1>b DEF HeldOf
<1>11. x \in FreeOf(p)
  BY <1>4, <1>b DEF FreeOf
<1>12. /\ IsFiniteSet(FreeOf(p)) /\ Cardinality(FreeOf(p) \ {x}) \in Nat
       /\ Cardinality(FreeOf(p)) = Cardinality(FreeOf(p) \ {x}) + 1
       /\ numFree[p] = Cardinality(FreeOf(p))
       /\ FreeOf(p) \cup HeldOf(p) = Cut(p, c)
  <2>1. numFree[p] = Cardinality(FreeOf(p)) /\ FreeOf(p) \cup HeldOf(p) = Cut(p, c)
    BY <1>1, <1>5 DEF Counted
  <2>2. IsFiniteSet(FreeOf(p))
    BY <1>5, <2>1, Numbered, FS_Subset
  <2> QED BY <1>11, <2>1, <2>2, OneLess
<1>13. \A r \in SmallPages : Counted(r)'
  <2> SUFFICES ASSUME NEW r \in SmallPages, blockSize[r] # NoClass
               PROVE  /\ numFree'[r] = Cardinality(FreeOf(r)')
                      /\ FreeOf(r)' \cup HeldOf(r)' = Cut(r, blockSize[r])
    BY <1>2 DEF Counted
  <2>1. CASE r = p
    <3>1. numFree'[p] = numFree[p] - 1
      BY <1>1, <1>2, <1>5 DEF StoreType
    <3>2. numFree'[p] = Cardinality(FreeOf(p)')
      <4>1. FreeOf(p)' = FreeOf(p) \ {x}
        BY <1>9
      <4>2. numFree'[p] = Cardinality(FreeOf(p) \ {x})
        BY <1>12, <3>1
      <4> QED BY <4>1, <4>2, Zenon
    <3>3. FreeOf(p)' \cup HeldOf(p)' = Cut(p, c)
      BY <1>9, <1>10, <1>11, <1>12
    <3> QED BY <1>5, <2>1, <3>2, <3>3
  <2>2. CASE r # p
    <3>1. FreeOf(r)' = FreeOf(r)
      BY <1>9, <1>b, <2>2 DEF FreeOf
    <3>2. HeldOf(r)' = HeldOf(r) /\ numFree'[r] = numFree[r]
      BY <1>1, <1>2, <1>10, <2>2 DEF StoreType
    <3> QED BY <1>1, <3>1, <3>2 DEF Counted
  <2> QED BY <2>1, <2>2
<1>14. numFree' \in [SmallPages -> 0..PageSize]
  <2>1. numFree[p] - 1 \in 0..PageSize
    <3>1. numFree[p] \in 0..PageSize /\ PageSize \in Nat
      BY <1>1, <1>5, ClassNumbers DEF StoreType
    <3> QED BY <1>12, <3>1
  <2> QED BY <1>1, <1>2, <1>5, <2>1 DEF StoreType
<1>15. StoreType'
  BY <1>1, <1>2, <1>6, <1>8, <1>14 DEF StoreType
<1>16. ListsApart'
  <2>1. \A d \in D!Classes : Distinct(freeBlocks'[d])
    BY <1>1, <1>4, <1>6 DEF ListsApart
  <2>2. \A d \in D!Classes : \A y : Occurs(freeBlocks'[d], y) => blockSize'[y.page] = d /\ y \notin D!Held'
    BY <1>1, <1>2, <1>7, <1>8 DEF ListsApart
  <2> QED BY <2>1, <2>2 DEF ListsApart
<1>17. InUse'
  <2>1. p \in framed
    BY <1>1, <1>5 DEF InUse
  <2>2. \A r \in framed : HeldOf(r)' # {}
    BY <1>1, <1>10 DEF InUse
  <2>3. \A y \in D!Held' : y.page \in framed
    BY <1>1, <1>8, <1>b, <2>1 DEF InUse
  <2> QED BY <1>1, <1>2, <2>2, <2>3 DEF InUse
<1> QED BY <1>8, <1>13, <1>15, <1>16, <1>17 DEF Stored

\* The first free page is split, and its first block is handed out.
LEMMA SplitKeeps ==
  ASSUME D!DynAllocAssumption, Stored, NEW c \in D!Classes, NEW size \in SmallSizes,
         size <= ClassSize[c], freeBlocks[c] = <<>>, freePages # <<>>, D!Split(c, size)
  PROVE  Stored' /\ D!Held \subseteq D!Held'
<1>a. PICK p : p = Head(freePages)
  OBVIOUS
<1> DEFINE n == D!BlocksOf(c)
           x == D!BlockAt(p, c, 0)
           q == [k \in 1..(n - 1) |-> D!BlockAt(p, c, k)]
<1>1. /\ StoreType /\ ListsApart /\ HeldOnce /\ InUse
      /\ \A r \in SmallPages : Counted(r)
  BY DEF Stored
<1>2. /\ freePages' = Tail(freePages)
      /\ framed' = framed \cup {p}
      /\ blockSize' = [blockSize EXCEPT ![p] = c]
      /\ numFree' = [numFree EXCEPT ![p] = n - 1]
      /\ freeBlocks' = [freeBlocks EXCEPT ![c] = q]
      /\ D!HandOut(x, size)
  BY <1>a DEF D!Split
<1>3. /\ freePages' \in Seq(SmallPages) /\ p \in SmallPages /\ Occurs(freePages, p)
      /\ Distinct(freePages')
      /\ \A r : Occurs(freePages', r) <=> Occurs(freePages, r) /\ r # p
  BY <1>1, <1>2, <1>a, OccursTail DEF StoreType, InUse
<1>4. p \notin framed /\ blockSize[p] = NoClass /\ c # NoClass /\ HeldOf(p) = {}
  <2>1. p \notin framed
    BY <1>1, <1>3 DEF InUse
  <2> QED BY <1>1, <1>3, <2>1, ClassNumbers DEF InUse, HeldOf
<1>5. \A d \in D!Classes : \A y : Occurs(freeBlocks[d], y) => y.page # p
  BY <1>1, <1>4, ClassNumbers DEF ListsApart
<1>6. /\ n \in 1..PageSize /\ PageSize \in Nat
      /\ Cut(p, c) \subseteq D!Block /\ IsFiniteSet(Cut(p, c)) /\ Cardinality(Cut(p, c)) = n
      /\ \A y \in Cut(p, c) : y.page = p
      /\ \A k, l \in 0..(n - 1) : D!BlockAt(p, c, k) = D!BlockAt(p, c, l) => k = l
  BY <1>3, Numbered, ClassNumbers
<1>7. /\ x \in Cut(p, c) /\ \A k \in 1..(n - 1) : q[k] \in Cut(p, c) \ {x}
      /\ \A y \in Cut(p, c) \ {x} : \E k \in 1..(n - 1) : y = q[k]
      /\ \A k, l \in 1..(n - 1) : q[k] = q[l] => k = l
  <2> HIDE DEF n
  <2>1. 0 \in 0..(n - 1) /\ \A k \in 1..(n - 1) : k \in 0..(n - 1) /\ k # 0
    BY <1>6
  <2>2. \A k \in 0..(n - 1) : k = 0 \/ k \in 1..(n - 1)
    BY <1>6
  <2>3. Cut(p, c) = {D!BlockAt(p, c, k) : k \in 0..(n - 1)}
    BY DEF Cut, n
  <2> QED BY <1>6, <2>1, <2>2, <2>3
<1>8. q \in Seq(D!Block) /\ Distinct(q) /\ \A y : Occurs(q, y) <=> y \in Cut(p, c) \ {x}
  <2>1. DOMAIN q = 1..(n - 1) /\ n - 1 \in Nat
    BY <1>6
  <2> HIDE DEF q, n, x
  <2>2. q \in Seq(D!Block)
    <3>1. q = [k \in 1..(n - 1) |-> q[k]] /\ \A k \in 1..(n - 1) : q[k] \in D!Block
      BY <1>6, <1>7, <2>1 DEF q
    <3> QED BY <2>1, <3>1, IsASeq
  <2> QED BY <1>7, <2>1, <2>2 DEF Occurs, Distinct
<1> HIDE DEF q, n, x
<1>9. x \in D!Block /\ x.page = p /\ x \notin D!Held
  BY <1>4, <1>6, <1>7 DEF HeldOf
<1>10. /\ freeBlocks' \in [D!Classes -> Seq(D!Block)]
       /\ freeBlocks'[c] = q
       /\ \A d \in D!Classes : d # c => freeBlocks'[d] = freeBlocks[d]
       /\ \A d \in D!Classes : \A y : Occurs(freeBlocks[d], y) => y \in D!Block
       /\ \A r : FreeOf(r)' = {y \in D!Block : y.page = r /\ \E d \in D!Classes :
                                                Occurs(freeBlocks'[d], y)}
  BY <1>1, <1>2, <1>8, OneList
<1>11. \A d \in D!Classes : \A y :
         Occurs(freeBlocks'[d], y)
           <=> Occurs(freeBlocks[d], y) \/ (d = c /\ y \in Cut(p, c) \ {x})
  <2>1. \A y : ~Occurs(freeBlocks[c], y)
    BY OccursEmpty
  <2> QED BY <1>8, <1>10, <2>1
<1>12. /\ blockSize' \in [SmallPages -> D!Classes \cup {NoClass}] /\ blockSize'[p] = c
       /\ \A r \in SmallPages : r # p => blockSize'[r] = blockSize[r]
       /\ numFree' \in [SmallPages -> 0..PageSize] /\ numFree'[p] = n - 1
       /\ \A r \in SmallPages : r # p => numFree'[r] = numFree[r]
  <2>1. n - 1 \in 0..PageSize
    BY <1>6
  <2> QED BY <1>1, <1>2, <1>3, <2>1 DEF StoreType
<1>13. /\ handed' \subseteq [page : SmallPages, off : D!Offsets, size : SmallSizes]
       /\ D!Held' = D!Held \cup {x}
       /\ HeldOnce'
  <2>1. \A y \in D!Held : blockSize[y.page] # NoClass
    BY <1>1 DEF InUse
  <2>2. \A r \in SmallPages : blockSize[r] # NoClass => blockSize'[r] = blockSize[r]
    BY <1>4, <1>12
  <2> QED BY <1>1, <1>2, <1>9, <1>12, <2>1, <2>2, HandedOut
<1>14. FreeOf(p)' = Cut(p, c) \ {x} /\ \A r : r # p => FreeOf(r)' = FreeOf(r)
  <2>1. FreeOf(p)' = Cut(p, c) \ {x}
    BY <1>5, <1>6, <1>10, <1>11
  <2>2. \A r : r # p => FreeOf(r)' = FreeOf(r)
    BY <1>6, <1>10, <1>11 DEF FreeOf
  <2> QED BY <2>1, <2>2
<1>15. HeldOf(p)' = {x} /\ \A r : r # p => HeldOf(r)' = HeldOf(r)
  BY <1>4, <1>9, <1>13 DEF HeldOf
<1>16. \A r \in SmallPages : Counted(r)'
  <2> SUFFICES ASSUME NEW r \in SmallPages, blockSize'[r] # NoClass
               PROVE  /\ numFree'[r] = Cardinality(FreeOf(r)')
                      /\ FreeOf(r)' \cup HeldOf(r)' = Cut(r, blockSize'[r])
    BY DEF Counted
  <2>1. CASE r = p
    <3>1. Cardinality(Cut(p, c) \ {x}) = n - 1
      <4>1. Cardinality(Cut(p, c) \ {x}) \in Nat
            /\ Cardinality(Cut(p, c)) = Cardinality(Cut(p, c) \ {x}) + 1
        BY <1>6, <1>7, OneLess
      <4> QED BY <1>6, <4>1
    <3>2. FreeOf(r)' = Cut(p, c) \ {x} /\ HeldOf(r)' = {x}
      BY <1>14, <1>15, <2>1
    <3>3. numFree'[r] = n - 1 /\ blockSize'[r] = c
      BY <1>12, <2>1
    <3> QED BY <1>7, <2>1, <3>1, <3>2, <3>3
  <2>2. CASE r # p
    <3>1. FreeOf(r)' = FreeOf(r) /\ HeldOf(r)' = HeldOf(r)
      BY <1>14, <1>15, <2>2
    <3>2. numFree'[r] = numFree[r] /\ blockSize'[r] = blockSize[r]
      BY <1>12, <2>2
    <3> QED BY <1>1, <3>1, <3>2 DEF Counted
  <2> QED BY <2>1, <2>2
<1>17. StoreType'
  BY <1>1, <1>2, <1>3, <1>10, <1>12, <1>13 DEF StoreType
<1>18. ListsApart'
  <2>1. \A d \in D!Classes : Distinct(freeBlocks'[d])
    BY <1>1, <1>8, <1>10 DEF ListsApart
  <2>2. ASSUME NEW d \in D!Classes, NEW y, Occurs(freeBlocks'[d], y)
        PROVE  blockSize'[y.page] = d /\ y \notin D!Held'
    <3>1. CASE Occurs(freeBlocks[d], y)
      <4>1. y.page \in SmallPages /\ y.page # p
        BY <1>5, <1>10, <3>1 DEF D!Block
      <4>2. blockSize[y.page] = d /\ y \notin D!Held
        BY <1>1, <3>1 DEF ListsApart
      <4> QED BY <1>9, <1>12, <1>13, <4>1, <4>2
    <3>2. CASE d = c /\ y \in Cut(p, c) \ {x}
      BY <1>4, <1>6, <1>12, <1>13, <3>2 DEF HeldOf
    <3> QED BY <1>11, <2>2, <3>1, <3>2
  <2> QED BY <2>1, <2>2 DEF ListsApart
<1>19. InUse'
  <2>1. framed' = {r \in SmallPages : blockSize'[r] # NoClass}
    BY <1>1, <1>2, <1>3, <1>4, <1>12 DEF InUse
  <2>2. \A r \in framed' : HeldOf(r)' # {}
    BY <1>1, <1>2, <1>15 DEF InUse
  <2>3. \A y \in D!Held' : y.page \in framed'
    BY <1>1, <1>2, <1>9, <1>13 DEF InUse
  <2>4. \A r \in SmallPages : Occurs(freePages', r) <=> r \notin framed'
    BY <1>1, <1>2, <1>3 DEF InUse
  <2> QED BY <1>3, <2>1, <2>2, <2>3, <2>4 DEF InUse
<1> QED BY <1>13, <1>16, <1>17, <1>18, <1>19 DEF Stored

(* The class that alloc_block looks for is the first that is large enough. *)
LEMMA ClassFits ==
  ASSUME D!DynAllocAssumption, NEW size \in SmallSizes
  PROVE  /\ D!ClassOf(size) \in D!Classes
         /\ \A d \in D!Classes : D!ClassOf(size) <= d => size <= ClassSize[d]
<1> DEFINE S == {c \in D!Classes : size <= ClassSize[c]}
<1>1. /\ D!LastClass \in Nat /\ D!Classes = 0..D!LastClass
      /\ \A c \in D!Classes : ClassSize[c] \in Nat
      /\ \A c, d \in D!Classes : c < d => ClassSize[c] < ClassSize[d]
      /\ size \in Nat /\ size <= ClassSize[D!LastClass]
  BY ClassNumbers
<1>2. S \in SUBSET Nat /\ D!LastClass \in S
  BY <1>1
<1>3. PICK m \in S : \A j \in S : m <= j
  BY <1>2, Least
<1>4. m \in D!Classes /\ size <= ClassSize[m] /\ \A d \in D!Classes : d < m => size > ClassSize[d]
  BY <1>1, <1>3
<1>5. D!ClassOf(size) \in D!Classes /\ size <= ClassSize[D!ClassOf(size)]
  <2> DEFINE P(c) == size <= ClassSize[c] /\ \A d \in D!Classes : d < c => size > ClassSize[d]
  <2>1. D!ClassOf(size) = CHOOSE c \in D!Classes : P(c)
    BY DEF D!ClassOf
  <2>2. P(m)
    BY <1>4
  <2> HIDE DEF P
  <2>3. D!ClassOf(size) \in D!Classes /\ P(D!ClassOf(size))
    BY <1>4, <2>1, <2>2
  <2> QED BY <2>3 DEF P
<1>6. ASSUME NEW d \in D!Classes, D!ClassOf(size) <= d PROVE size <= ClassSize[d]
  <2>1. CASE D!ClassOf(size) = d
    BY <1>5, <2>1
  <2>2. CASE D!ClassOf(size) < d
    <3>1. ClassSize[D!ClassOf(size)] < ClassSize[d]
      BY <1>1, <1>5, <2>2
    <3> QED BY <1>1, <1>5, <3>1
  <2> QED BY <1>1, <1>5, <1>6, <2>1, <2>2
<1> QED BY <1>5, <1>6

\* alloc_block goes through.
LEMMA AllocateKeeps ==
  ASSUME D!DynAllocAssumption, Stored, NEW size \in SmallSizes, NEW next,
         D!Allocate(size, next)
  PROVE  Stored' /\ D!Held \subseteq D!Held'
<1> DEFINE c == D!ClassOf(size)
<1>1. c \in D!Classes /\ \A d \in D!Classes : c <= d => size <= ClassSize[d]
  BY ClassFits
<1>2. c <= c
  BY <1>1, ClassNumbers
<1>3. \/ \E d \in D!CanTake(c) : D!Take(d, size)
      \/ D!CanSplit(c) /\ D!Split(c, size)
  BY DEF D!Allocate
<1> HIDE DEF c
<1>4. ASSUME NEW d \in D!CanTake(c), D!Take(d, size)
      PROVE  Stored' /\ D!Held \subseteq D!Held'
  <2>1. d \in D!Classes /\ c <= d /\ freeBlocks[d] # <<>>
    BY <1>1, <1>2, <1>4 DEF D!CanTake, D!NextLists
  <2> QED BY <1>1, <1>4, <2>1, TakeKeeps
<1>5. ASSUME D!CanSplit(c), D!Split(c, size)
      PROVE  Stored' /\ D!Held \subseteq D!Held'
  BY <1>1, <1>2, <1>5, SplitKeeps DEF D!CanSplit
<1> QED BY <1>3, <1>4, <1>5

----------------------------------------------------------------------------
(* A block is given back.                                                  *)

LEMMA TakenBack ==
  ASSUME StoreType, HeldOnce, NEW x, D!TakeBack(x)
  PROVE  /\ handed' \subseteq handed
         /\ D!Held' = D!Held \ {[page |-> x.page, off |-> x.off]}
         /\ \A a, b \in handed' : a.page = b.page /\ a.off = b.off => a = b
<1>1. handed' = {a \in handed : ~(a.page = x.page /\ a.off = x.off)}
  BY DEF D!TakeBack
<1>2. D!Held' = {[page |-> a.page, off |-> a.off] : a \in handed'}
  BY DEF D!Held
<1>3. D!Held' = D!Held \ {[page |-> x.page, off |-> x.off]}
  BY <1>1, <1>2 DEF D!Held
<1> QED BY <1>1, <1>3 DEF HeldOnce

\* The page of a held block, and what else is held there.
LEMMA ItsPage ==
  ASSUME D!DynAllocAssumption, Stored, NEW x \in D!Held, NEW p, p = x.page
  PROVE  /\ x \in D!Block /\ x = [page |-> x.page, off |-> x.off]
         /\ p \in SmallPages /\ p \in framed /\ blockSize[p] \in D!Classes
         /\ IsFiniteSet(FreeOf(p)) /\ x \notin FreeOf(p)
         /\ FreeOf(p) \cup HeldOf(p) = Cut(p, blockSize[p])
         /\ FreeOf(p) \cap HeldOf(p) = {}
         /\ numFree[p] = Cardinality(FreeOf(p)) /\ numFree[p] \in Nat
         /\ D!BlocksOf(blockSize[p]) \in 1..PageSize
         /\ numFree[p] + 1 <= D!BlocksOf(blockSize[p])
         /\ numFree[p] + 1 = D!BlocksOf(blockSize[p]) => HeldOf(p) = {x}
         /\ numFree[p] + 1 < D!BlocksOf(blockSize[p]) => HeldOf(p) \ {x} # {}
         /\ IsFiniteSet(FreeOf(p) \cup {x})
         /\ Cardinality(FreeOf(p) \cup {x}) = numFree[p] + 1
<1> DEFINE c == blockSize[p]
           F == FreeOf(p)
           H == HeldOf(p)
           n == D!BlocksOf(c)
<1>1. StoreType /\ ListsApart /\ HeldOnce /\ InUse /\ \A r \in SmallPages : Counted(r)
  BY DEF Stored
<1>2. x \in D!Block /\ x = [page |-> x.page, off |-> x.off] /\ p \in SmallPages
  BY <1>1, HeldIs DEF D!Block
<1>3. p \in framed /\ c # NoClass /\ c \in D!Classes
  BY <1>1, <1>2 DEF InUse, StoreType
<1>4. F \cup H = Cut(p, c) /\ numFree[p] = Cardinality(F)
  BY <1>1, <1>2, <1>3 DEF Counted
<1>5. x \in H /\ F \cap H = {}
  BY <1>1 DEF ListsApart, FreeOf, HeldOf
<1>6. IsFiniteSet(Cut(p, c)) /\ Cardinality(Cut(p, c)) = n /\ n \in 1..PageSize /\ PageSize \in Nat
  BY <1>2, <1>3, Numbered, ClassNumbers
<1> HIDE DEF F, H, c, n
<1>7. IsFiniteSet(F) /\ Cardinality(F) \in Nat
  BY <1>4, <1>6, FS_Subset, FS_CardinalityType
<1>8. IsFiniteSet(F \cup {x}) /\ Cardinality(F \cup {x}) = Cardinality(F) + 1
  BY <1>5, <1>7, OneMore
<1>9. F \cup {x} \in SUBSET Cut(p, c)
  BY <1>4, <1>5
<1>10. /\ Cardinality(F \cup {x}) <= n
       /\ Cardinality(F \cup {x}) = n => Cut(p, c) = F \cup {x}
  BY <1>6, <1>9, FS_Subset
<1>11. numFree[p] + 1 = n => H = {x}
  BY <1>4, <1>5, <1>8, <1>10
<1>12. numFree[p] + 1 < n => H \ {x} # {}
  <2> SUFFICES ASSUME H \ {x} = {} PROVE ~(numFree[p] + 1 < n)
    OBVIOUS
  <2>1. Cut(p, c) = F \cup {x}
    BY <1>4, <1>5
  <2> QED BY <1>4, <1>6, <1>7, <1>8, <2>1
<1> QED BY <1>2, <1>3, <1>4, <1>5, <1>6, <1>7, <1>8, <1>10, <1>11, <1>12 DEF F, H, c, n

LEMMA BlockFilter == \A s, S : D!Filter(s, S) = Filter(s, S)
<1> TAKE s, S
<1>1. D!PlacesOf(s, S) = PlacesOf(s, S)
  BY Zenon DEF D!PlacesOf, PlacesOf
<1>2. \A P, i : D!Rank(P, i) = Rank(P, i)
  BY FiniteBlocks, Zenon DEF D!Rank, Rank
<1>3. \A P, k : D!Nth(P, k) = Nth(P, k)
  BY <1>2, Zenon DEF D!Nth, Nth
<1> QED BY <1>1, <1>3, FiniteBlocks, Zenon DEF D!Filter, Filter

\* The last block of a page: the page is returned.
LEMMA ReturnPageKeeps ==
  ASSUME D!DynAllocAssumption, Stored, NEW x \in D!Held, NEW p, p = x.page,
         HeldOf(p) = {x}, D!ReturnPage(p), D!TakeBack(x)
  PROVE  Stored' /\ D!Held' = D!Held \ {x}
<1>a. PICK c : c = blockSize[p]
  OBVIOUS
<1> DEFINE R == {y \in D!Block : y.page # p}
           q == Filter(freeBlocks[c], R)
<1>1. /\ StoreType /\ ListsApart /\ HeldOnce /\ InUse
      /\ \A r \in SmallPages : Counted(r)
  BY DEF Stored
<1>2. /\ freeBlocks' = [freeBlocks EXCEPT ![c] = q]
      /\ framed' = framed \ {p}
      /\ freePages' = <<p>> \o freePages
      /\ numFree' = [numFree EXCEPT ![p] = 0]
      /\ blockSize' = [blockSize EXCEPT ![p] = NoClass]
  BY <1>a, BlockFilter DEF D!ReturnPage
<1>3. /\ x \in D!Block /\ x = [page |-> x.page, off |-> x.off]
      /\ p \in SmallPages /\ p \in framed /\ c \in D!Classes
  BY <1>a, ItsPage
<1>4. /\ q \in Seq(D!Block) /\ Distinct(q)
      /\ \A y : Occurs(q, y) <=> Occurs(freeBlocks[c], y) /\ y \in R
  <2>1. freeBlocks[c] \in Seq(D!Block) /\ Distinct(freeBlocks[c])
    BY <1>1, <1>3 DEF StoreType, ListsApart
  <2> QED BY <2>1, FilterType, FilterDistinct, FilterOccurs
<1> HIDE DEF q
<1>5. /\ freeBlocks' \in [D!Classes -> Seq(D!Block)]
      /\ freeBlocks'[c] = q
      /\ \A d \in D!Classes : d # c => freeBlocks'[d] = freeBlocks[d]
      /\ \A d \in D!Classes : \A y : Occurs(freeBlocks[d], y) => y \in D!Block
      /\ \A r : FreeOf(r)' = {y \in D!Block : y.page = r /\ \E d \in D!Classes :
                                               Occurs(freeBlocks'[d], y)}
  BY <1>1, <1>2, <1>3, <1>4, OneList
<1>6. \A d \in D!Classes : \A y :
        Occurs(freeBlocks'[d], y) <=> Occurs(freeBlocks[d], y) /\ y.page # p
  <2> TAKE d \in D!Classes
  <2> TAKE y
  <2>1. CASE d = c
    BY <1>4, <1>5, <2>1
  <2>2. CASE d # c
    BY <1>1, <1>a, <1>5, <2>2 DEF ListsApart
  <2> QED BY <2>1, <2>2
<1>7. /\ handed' \subseteq handed /\ D!Held' = D!Held \ {x}
      /\ \A a, b \in handed' : a.page = b.page /\ a.off = b.off => a = b
  BY <1>1, <1>3, TakenBack
<1>8. HeldOf(p)' = {} /\ \A r : r # p => HeldOf(r)' = HeldOf(r)
  BY <1>7 DEF HeldOf
<1>9. \A r : r # p => FreeOf(r)' = FreeOf(r)
  BY <1>5, <1>6 DEF FreeOf
<1>10. /\ blockSize' \in [SmallPages -> D!Classes \cup {NoClass}] /\ blockSize'[p] = NoClass
       /\ \A r \in SmallPages : r # p => blockSize'[r] = blockSize[r]
       /\ numFree' \in [SmallPages -> 0..PageSize]
       /\ \A r \in SmallPages : r # p => numFree'[r] = numFree[r]
  <2>1. 0 \in 0..PageSize
    BY ClassNumbers
  <2> QED BY <1>1, <1>2, <1>3, <2>1 DEF StoreType
<1>11. /\ freePages' \in Seq(SmallPages) /\ Distinct(freePages')
       /\ \A r : Occurs(freePages', r) <=> Occurs(freePages, r) \/ r = p
  <2>1. /\ <<p>> \in Seq(SmallPages) /\ Distinct(<<p>>)
        /\ \A r : Occurs(<<p>>, r) <=> r = p
    BY <1>3 DEF Distinct, Occurs
  <2>2. freePages \in Seq(SmallPages) /\ Distinct(freePages) /\ ~Occurs(freePages, p)
    BY <1>1, <1>3 DEF StoreType, InUse
  <2> DEFINE o == <<p>>
  <2> HIDE DEF o
  <2>3. o \in Seq(SmallPages) /\ Distinct(o) /\ \A r : Occurs(o, r) <=> r = p
    BY <2>1, Zenon DEF o
  <2>4. /\ o \o freePages \in Seq(SmallPages) /\ Distinct(o \o freePages)
        /\ \A r : Occurs(o \o freePages, r) <=> Occurs(o, r) \/ Occurs(freePages, r)
    BY <2>2, <2>3, OccursConcat
  <2>5. freePages' = o \o freePages
    BY <1>2 DEF o
  <2> QED BY <2>3, <2>4, <2>5
<1>12. \A r \in SmallPages : Counted(r)'
  <2> SUFFICES ASSUME NEW r \in SmallPages, blockSize'[r] # NoClass
               PROVE  /\ numFree'[r] = Cardinality(FreeOf(r)')
                      /\ FreeOf(r)' \cup HeldOf(r)' = Cut(r, blockSize'[r])
    BY DEF Counted
  <2>1. r # p
    BY <1>10
  <2>2. FreeOf(r)' = FreeOf(r) /\ HeldOf(r)' = HeldOf(r)
    BY <1>8, <1>9, <2>1
  <2>3. numFree'[r] = numFree[r] /\ blockSize'[r] = blockSize[r]
    BY <1>10, <2>1
  <2> QED BY <1>1, <2>2, <2>3 DEF Counted
<1>13. StoreType'
  BY <1>1, <1>2, <1>5, <1>7, <1>10, <1>11 DEF StoreType
<1>14. ListsApart'
  <2>1. \A d \in D!Classes : Distinct(freeBlocks'[d])
    BY <1>1, <1>4, <1>5 DEF ListsApart
  <2>2. ASSUME NEW d \in D!Classes, NEW y, Occurs(freeBlocks'[d], y)
        PROVE  blockSize'[y.page] = d /\ y \notin D!Held'
    <3>1. y.page # p /\ Occurs(freeBlocks[d], y)
      BY <1>6, <2>2
    <3>2. y.page \in SmallPages
      BY <1>5, <3>1 DEF D!Block
    <3> QED BY <1>1, <1>7, <1>10, <3>1, <3>2 DEF ListsApart
  <2> QED BY <2>1, <2>2 DEF ListsApart
<1>15. \A a \in handed' : a.page # p /\ a.page \in SmallPages
  <2> TAKE a \in handed'
  <2>1. [page |-> a.page, off |-> a.off] \in D!Held'
    BY DEF D!Held
  <2>2. [page |-> a.page, off |-> a.off] \in D!Held \ {x}
    BY <1>7, <2>1
  <2>3. a.page # p
    BY <2>2 DEF HeldOf
  <2> QED BY <1>1, <1>7, <2>3 DEF StoreType
<1>16. HeldOnce'
  <2>1. \A a \in handed' : a.size <= ClassSize[blockSize'[a.page]]
    BY <1>1, <1>7, <1>10, <1>15 DEF HeldOnce
  <2> QED BY <1>7, <2>1 DEF HeldOnce
<1>17. InUse'
  <2>1. framed' = {r \in SmallPages : blockSize'[r] # NoClass}
    BY <1>1, <1>2, <1>10 DEF InUse
  <2>2. \A r \in framed' : HeldOf(r)' # {}
    BY <1>1, <1>2, <1>8 DEF InUse
  <2>3. \A y \in D!Held' : y.page \in framed'
    <3>1. \A y \in D!Held' : y \in D!Held /\ y.page # p
      BY <1>7 DEF HeldOf
    <3> QED BY <1>1, <1>2, <3>1 DEF InUse
  <2>4. \A r \in SmallPages : Occurs(freePages', r) <=> r \notin framed'
    BY <1>1, <1>2, <1>11 DEF InUse
  <2> QED BY <1>11, <2>1, <2>2, <2>3, <2>4 DEF InUse
<1> QED BY <1>7, <1>12, <1>13, <1>14, <1>16, <1>17 DEF Stored

\* Another block of a page: it goes to the end of its list.
LEMMA ReturnBlockKeeps ==
  ASSUME D!DynAllocAssumption, Stored, NEW x \in D!Held, NEW p, p = x.page,
         HeldOf(p) \ {x} # {}, numFree[p] + 1 <= PageSize, D!ReturnBlock(x), D!TakeBack(x)
  PROVE  Stored' /\ D!Held' = D!Held \ {x}
<1>a. PICK c : c = blockSize[p]
  OBVIOUS
<1> DEFINE q == Append(freeBlocks[c], x)
<1>1. /\ StoreType /\ ListsApart /\ HeldOnce /\ InUse
      /\ \A r \in SmallPages : Counted(r)
  BY DEF Stored
<1>2. /\ freeBlocks' = [freeBlocks EXCEPT ![c] = q]
      /\ framed' = framed /\ freePages' = freePages /\ blockSize' = blockSize
      /\ numFree' = [numFree EXCEPT ![p] = @ + 1]
  BY <1>a DEF D!ReturnBlock
<1>3. /\ x \in D!Block /\ x = [page |-> x.page, off |-> x.off]
      /\ p \in SmallPages /\ p \in framed /\ c \in D!Classes
      /\ IsFiniteSet(FreeOf(p)) /\ numFree[p] \in Nat /\ numFree[p] = Cardinality(FreeOf(p))
      /\ Cardinality(FreeOf(p) \cup {x}) = numFree[p] + 1
      /\ FreeOf(p) \cup HeldOf(p) = Cut(p, c)
  BY <1>a, ItsPage
<1>4. /\ q \in Seq(D!Block) /\ Distinct(q)
      /\ \A y : Occurs(q, y) <=> Occurs(freeBlocks[c], y) \/ y = x
  <2>1. freeBlocks[c] \in Seq(D!Block) /\ Distinct(freeBlocks[c]) /\ ~Occurs(freeBlocks[c], x)
    BY <1>1, <1>3 DEF StoreType, ListsApart
  <2> QED BY <1>3, <2>1, OccursAppend
<1> HIDE DEF q
<1>5. /\ freeBlocks' \in [D!Classes -> Seq(D!Block)]
      /\ freeBlocks'[c] = q
      /\ \A d \in D!Classes : d # c => freeBlocks'[d] = freeBlocks[d]
      /\ \A d \in D!Classes : \A y : Occurs(freeBlocks[d], y) => y \in D!Block
      /\ \A r : FreeOf(r)' = {y \in D!Block : y.page = r /\ \E d \in D!Classes :
                                               Occurs(freeBlocks'[d], y)}
  BY <1>1, <1>2, <1>3, <1>4, OneList
<1>6. \A d \in D!Classes : \A y :
        Occurs(freeBlocks'[d], y) <=> Occurs(freeBlocks[d], y) \/ (d = c /\ y = x)
  BY <1>4, <1>5
<1>7. /\ handed' \subseteq handed /\ D!Held' = D!Held \ {x}
      /\ \A a, b \in handed' : a.page = b.page /\ a.off = b.off => a = b
  BY <1>1, <1>3, TakenBack
<1>8. HeldOf(p)' = HeldOf(p) \ {x} /\ \A r : r # p => HeldOf(r)' = HeldOf(r)
  BY <1>7 DEF HeldOf
<1>9. FreeOf(p)' = FreeOf(p) \cup {x} /\ \A r : r # p => FreeOf(r)' = FreeOf(r)
  BY <1>3, <1>5, <1>6 DEF FreeOf
<1>10. /\ numFree' \in [SmallPages -> 0..PageSize] /\ numFree'[p] = numFree[p] + 1
       /\ \A r \in SmallPages : r # p => numFree'[r] = numFree[r]
  <2>1. numFree[p] + 1 \in 0..PageSize
    BY <1>3, ClassNumbers
  <2> QED BY <1>1, <1>2, <1>3, <2>1 DEF StoreType
<1>11. \A r \in SmallPages : Counted(r)'
  <2> SUFFICES ASSUME NEW r \in SmallPages, blockSize[r] # NoClass
               PROVE  /\ numFree'[r] = Cardinality(FreeOf(r)')
                      /\ FreeOf(r)' \cup HeldOf(r)' = Cut(r, blockSize[r])
    BY <1>2 DEF Counted
  <2>1. CASE r = p
    <3>1. numFree'[p] = Cardinality(FreeOf(p)')
      <4>1. FreeOf(p)' = FreeOf(p) \cup {x}
        BY <1>9
      <4>2. numFree'[p] = Cardinality(FreeOf(p) \cup {x})
        BY <1>3, <1>10
      <4> QED BY <4>1, <4>2, Zenon
    <3>2. x \in HeldOf(p)
      BY DEF HeldOf
    <3>3. FreeOf(p)' \cup HeldOf(p)' = Cut(p, c)
      BY <1>3, <1>8, <1>9, <3>2
    <3> QED BY <1>a, <2>1, <3>1, <3>3
  <2>2. CASE r # p
    <3>1. FreeOf(r)' = FreeOf(r) /\ HeldOf(r)' = HeldOf(r) /\ numFree'[r] = numFree[r]
      BY <1>8, <1>9, <1>10, <2>2
    <3> QED BY <1>1, <3>1 DEF Counted
  <2> QED BY <2>1, <2>2
<1>12. StoreType'
  BY <1>1, <1>2, <1>5, <1>7, <1>10 DEF StoreType
<1>13. ListsApart'
  <2>1. \A d \in D!Classes : Distinct(freeBlocks'[d])
    BY <1>1, <1>4, <1>5 DEF ListsApart
  <2>2. \A d \in D!Classes : \A y : Occurs(freeBlocks'[d], y)
          => blockSize'[y.page] = d /\ y \notin D!Held'
    BY <1>1, <1>2, <1>a, <1>6, <1>7 DEF ListsApart
  <2> QED BY <2>1, <2>2 DEF ListsApart
<1>14. HeldOnce'
  BY <1>1, <1>2, <1>7 DEF HeldOnce
<1>15. InUse'
  <2>1. \A r \in framed' : HeldOf(r)' # {}
    BY <1>1, <1>2, <1>8 DEF InUse
  <2>2. \A y \in D!Held' : y.page \in framed'
    BY <1>1, <1>2, <1>7 DEF InUse
  <2> QED BY <1>1, <1>2, <2>1, <2>2 DEF InUse
<1> QED BY <1>7, <1>11, <1>12, <1>13, <1>14, <1>15 DEF Stored

LEMMA ReleaseKeeps ==
  ASSUME D!DynAllocAssumption, Stored, NEW x \in D!Held, D!Release(x)
  PROVE  Stored' /\ D!Held' = D!Held \ {x}
<1>1. PICK p : p = x.page
  OBVIOUS
<1> DEFINE n == D!BlocksOf(blockSize[p])
<1>2. /\ n \in 1..PageSize /\ PageSize \in Nat /\ numFree[p] \in Nat /\ numFree[p] + 1 <= n
      /\ numFree[p] + 1 = n => HeldOf(p) = {x}
      /\ numFree[p] + 1 < n => HeldOf(p) \ {x} # {}
  BY <1>1, ItsPage, ClassNumbers
<1>3. /\ IF numFree[p] + 1 >= n THEN D!ReturnPage(p) ELSE D!ReturnBlock(x)
      /\ D!TakeBack(x)
  BY <1>1 DEF D!Release
<1> HIDE DEF n
<1>4. CASE numFree[p] + 1 >= n
  <2>1. numFree[p] + 1 = n
    BY <1>2, <1>4
  <2> QED BY <1>1, <1>2, <1>3, <1>4, <2>1, ReturnPageKeeps
<1>5. CASE ~(numFree[p] + 1 >= n)
  <2>1. numFree[p] + 1 < n /\ numFree[p] + 1 <= PageSize
    BY <1>2, <1>5
  <2> QED BY <1>1, <1>2, <1>3, <1>5, <2>1, ReturnBlockKeeps
<1> QED BY <1>4, <1>5

\* A block is big enough for its new size.
LEMMA ResizeKeeps ==
  ASSUME D!DynAllocAssumption, Stored, NEW x \in D!Held, NEW size \in SmallSizes,
         size <= ClassSize[blockSize[x.page]], D!Resize(x, size),
         UNCHANGED <<blockSize, numFree, freePages, freeBlocks, framed>>
  PROVE  Stored' /\ D!Held' = D!Held
<1> DEFINE new(a) == IF a.page = x.page /\ a.off = x.off THEN [a EXCEPT !.size = size] ELSE a
<1>1. StoreType /\ ListsApart /\ HeldOnce /\ InUse /\ \A r \in SmallPages : Counted(r)
  BY DEF Stored
<1>2. handed' = {new(a) : a \in handed}
  BY DEF D!Resize
<1>3. \A a \in handed :
        /\ new(a) \in [page : SmallPages, off : D!Offsets, size : SmallSizes]
        /\ new(a).page = a.page /\ new(a).off = a.off
        /\ new(a).size <= ClassSize[blockSize[a.page]]
  BY <1>1 DEF StoreType, HeldOnce
<1> HIDE DEF new
<1>4. handed' \subseteq [page : SmallPages, off : D!Offsets, size : SmallSizes]
  BY <1>2, <1>3
<1>5. D!Held' = D!Held
  <2>1. D!Held' = {[page |-> a.page, off |-> a.off] : a \in handed'}
    BY DEF D!Held
  <2>2. \A a \in handed' : \E b \in handed : a.page = b.page /\ a.off = b.off
    BY <1>2, <1>3
  <2>3. \A a \in handed : \E b \in handed' : a.page = b.page /\ a.off = b.off
    BY <1>2, <1>3
  <2> QED BY <2>1, <2>2, <2>3 DEF D!Held
<1>6. HeldOnce'
  <2>1. \A a, b \in handed' : a.page = b.page /\ a.off = b.off => a = b
    BY <1>1, <1>2, <1>3 DEF HeldOnce
  <2>2. \A a \in handed' : a.size <= ClassSize[blockSize[a.page]]
    BY <1>2, <1>3
  <2> QED BY <2>1, <2>2 DEF HeldOnce
<1>7. \A r : FreeOf(r)' = FreeOf(r) /\ HeldOf(r)' = HeldOf(r)
  BY <1>5 DEF FreeOf, HeldOf
<1>8. StoreType' /\ ListsApart' /\ InUse'
  BY <1>1, <1>4, <1>5, <1>7 DEF StoreType, ListsApart, InUse
<1>9. \A r \in SmallPages : Counted(r)'
  BY <1>1, <1>7 DEF Counted
<1> QED BY <1>5, <1>6, <1>8, <1>9 DEF Stored

\* Nothing but the call in progress changes.
LEMMA StoreStays ==
  ASSUME Stored, UNCHANGED <<blockSize, numFree, freePages, freeBlocks, framed, handed>>
  PROVE  Stored' /\ D!Held' = D!Held
<1>1. StoreType /\ ListsApart /\ HeldOnce /\ InUse /\ \A r \in SmallPages : Counted(r)
  BY DEF Stored
<1>2. D!Held' = D!Held
  BY DEF D!Held
<1>3. \A r : FreeOf(r)' = FreeOf(r) /\ HeldOf(r)' = HeldOf(r)
  BY <1>2 DEF FreeOf, HeldOf
<1>4. StoreType' /\ ListsApart' /\ HeldOnce' /\ InUse'
  BY <1>1, <1>2, <1>3 DEF StoreType, ListsApart, HeldOnce, InUse
<1>5. \A r \in SmallPages : Counted(r)'
  BY <1>1, <1>3 DEF Counted
<1> QED BY <1>2, <1>4, <1>5 DEF Stored

LEMMA BlockStart == D!DynAllocAssumption /\ D!Init => BlockInv
<1> SUFFICES ASSUME D!DynAllocAssumption, D!Init PROVE BlockInv
  OBVIOUS
<1> DEFINE n == Cardinality(SmallPages)
<1>1. /\ blockSize = [p \in SmallPages |-> NoClass] /\ numFree = [p \in SmallPages |-> 0]
      /\ freePages \in [1..n -> SmallPages]
      /\ \A p \in SmallPages : \E i \in 1..n : freePages[i] = p
      /\ freeBlocks = [c \in D!Classes |-> <<>>] /\ framed = {} /\ handed = {}
      /\ blocked = FALSE /\ call = D!Idle
  BY FiniteBlocks DEF D!Init
<1>2. n \in Nat /\ IsFiniteSet(SmallPages) /\ PageSize \in Nat
  BY ClassNumbers, FS_CardinalityType
<1> HIDE DEF n
<1>3. freePages \in Seq(SmallPages) /\ DOMAIN freePages = 1..n
  BY <1>1, <1>2
<1>4. Distinct(freePages)
  <2>1. freePages \in Surjection(1..n, SmallPages)
    BY <1>1 DEF Surjection
  <2>2. IsFiniteSet(1..n) /\ Cardinality(1..n) = Cardinality(SmallPages)
    BY <1>2, UpTo DEF n
  <2>3. freePages \in Injection(1..n, SmallPages)
    BY <2>1, <2>2, FS_SurjSameCardinalityImpliesInj
  <2> QED BY <1>3, <2>3 DEF Injection, IsInjective, Distinct
<1>5. D!Held = {} /\ \A p : HeldOf(p) = {}
  BY <1>1 DEF D!Held, HeldOf
<1>6. StoreType
  BY <1>1, <1>2, <1>3, OccursEmpty DEF StoreType
<1>7. ListsApart
  BY <1>1, OccursEmpty DEF ListsApart
<1>8. InUse
  BY <1>1, <1>3, <1>4, <1>5 DEF InUse, Occurs
<1>9. HeldOnce /\ \A p \in SmallPages : Counted(p)
  BY <1>1 DEF HeldOnce, Counted
<1> QED BY <1>1, <1>6, <1>7, <1>8, <1>9 DEF BlockInv, Stored, CallKnows

\* An allocation that goes through, or waits, on behalf of the call next.
LEMMA AllocStep ==
  ASSUME D!DynAllocAssumption, BlockInv, NEW size \in SmallSizes,
         NEW old \in D!Held \cup {D!NoBlock},
         D!Allocate(size, D!AfterAlloc(old)) \/ D!Wait(size, old)
  PROVE  BlockInv'
<1>1. CASE D!Allocate(size, D!AfterAlloc(old))
  <2>1. Stored' /\ D!Held \subseteq D!Held'
    BY <1>1, AllocateKeeps DEF BlockInv
  <2>2. call' = D!AfterAlloc(old) /\ blocked' = blocked
    BY <1>1 DEF D!Allocate
  <2>3. CallKnows'
    BY <2>1, <2>2 DEF BlockInv, CallKnows, D!AfterAlloc, D!Idle, D!NoBlock
  <2> QED BY <2>1, <2>3 DEF BlockInv
<1>2. CASE D!Wait(size, old)
  <2>1. /\ call' = [stage |-> "wait", size |-> size, old |-> old] /\ blocked' = TRUE
        /\ UNCHANGED <<blockSize, numFree, freePages, freeBlocks, framed, handed>>
    BY <1>2 DEF D!Wait, D!info, D!lists
  <2>2. Stored' /\ D!Held' = D!Held
    BY <2>1, StoreStays DEF BlockInv
  <2>3. CallKnows'
    BY <2>1, <2>2 DEF CallKnows, D!NoBlock
  <2> QED BY <2>2, <2>3 DEF BlockInv
<1> QED BY <1>1, <1>2

LEMMA BlockStep == D!DynAllocAssumption /\ BlockInv /\ [D!Next]_(D!vars) => BlockInv'
<1> SUFFICES ASSUME D!DynAllocAssumption, BlockInv, [D!Next]_(D!vars) PROVE BlockInv'
  OBVIOUS
<1>1. Stored /\ CallKnows
  BY DEF BlockInv
<1>2. D!AfterAlloc(D!NoBlock) = D!Idle
  BY DEF D!AfterAlloc
<1>3. ASSUME NEW size \in SmallSizes, D!alloc_block(size) PROVE BlockInv'
  BY <1>2, <1>3, AllocStep DEF D!alloc_block
<1>4. ASSUME NEW size \in SmallSizes, NEW x \in D!Held, D!realloc_block(x, size)
      PROVE  BlockInv'
  <2>1. CASE size <= ClassSize[blockSize[x.page]]
    <3>1. /\ D!Resize(x, size) /\ UNCHANGED <<blocked, call>>
          /\ UNCHANGED <<blockSize, numFree, freePages, freeBlocks, framed>>
      BY <1>4, <2>1 DEF D!realloc_block, D!info, D!lists
    <3>2. Stored' /\ D!Held' = D!Held
      BY <1>1, <2>1, <3>1, ResizeKeeps
    <3> QED BY <1>1, <3>1, <3>2 DEF BlockInv, CallKnows
  <2>2. CASE ~(size <= ClassSize[blockSize[x.page]])
    <3>1. D!Allocate(size, D!AfterAlloc(x)) \/ D!Wait(size, x)
      BY <1>4, <2>2 DEF D!realloc_block
    <3> QED BY <3>1, AllocStep
  <2> QED BY <2>1, <2>2
<1>5. ASSUME NEW x \in D!Held, D!free_block(x) PROVE BlockInv'
  <2>1. x # call.old /\ D!Release(x) /\ call' = call
    BY <1>5 DEF D!free_block
  <2>2. Stored' /\ D!Held' = D!Held \ {x}
    BY <1>1, <2>1, ReleaseKeeps
  <2>3. blocked' \in BOOLEAN
    BY <1>1, <2>1 DEF CallKnows, D!Release, D!ReturnPage, D!ReturnBlock
  <2> QED BY <1>1, <2>1, <2>2, <2>3 DEF BlockInv, CallKnows
<1>6. ASSUME D!Retry PROVE BlockInv'
  <2>1. /\ call.stage = "wait"
        /\ D!Allocate(call.size, D!AfterAlloc(call.old)) \/ D!Wait(call.size, call.old)
    BY <1>6 DEF D!Retry
  <2>2. call.size \in SmallSizes /\ call.old \in D!Held \cup {D!NoBlock}
    BY <1>1, <2>1 DEF CallKnows, D!Idle
  <2>3. PICK size \in SmallSizes, old \in D!Held \cup {D!NoBlock} :
          size = call.size /\ old = call.old
    BY <2>2
  <2> QED BY <2>1, <2>3, AllocStep
<1>7. ASSUME D!ReallocFree PROVE BlockInv'
  <2>1. call.stage = "free" /\ D!Release(call.old) /\ call' = D!Idle
    BY <1>7 DEF D!ReallocFree
  <2>2. call.old \in D!Held
    BY <1>1, <2>1 DEF CallKnows, D!Idle
  <2>3. PICK x \in D!Held : x = call.old
    BY <2>2
  <2>4. Stored'
    BY <1>1, <2>1, <2>3, ReleaseKeeps
  <2>5. blocked' \in BOOLEAN
    BY <1>1, <2>1 DEF CallKnows, D!Release, D!ReturnPage, D!ReturnBlock
  <2> QED BY <2>1, <2>4, <2>5 DEF BlockInv, CallKnows
<1>8. CASE UNCHANGED D!vars
  <2>1. UNCHANGED <<blockSize, numFree, freePages, freeBlocks, framed, handed, call, blocked>>
    BY <1>8 DEF D!vars, D!info, D!lists
  <2>2. Stored' /\ D!Held' = D!Held
    BY <1>1, <2>1, StoreStays
  <2> QED BY <1>1, <2>1, <2>2 DEF BlockInv, CallKnows
<1>9. D!BusyWait => UNCHANGED D!vars
  BY DEF D!BusyWait
<1> QED BY <1>3, <1>4, <1>5, <1>6, <1>7, <1>8, <1>9 DEF D!Next

LEMMA BlockInvariance == D!DynAllocAssumption => (D!Spec => []BlockInv)
<1> SUFFICES ASSUME D!DynAllocAssumption PROVE D!Spec => []BlockInv
  OBVIOUS
<1>1. D!Init => BlockInv
  BY BlockStart
<1>2. BlockInv /\ [D!Next]_(D!vars) => BlockInv'
  BY BlockStep
<1> QED BY <1>1, <1>2, PTL DEF D!Spec

(* The block allocator loses no block and hands out none twice: each block *)
(* of a split page is held by one caller or is in the list of its class,   *)
(* once, num_of_free_blocks counts the latter, held blocks do not overlap  *)
(* and are long enough, and a page has a frame exactly as long as somebody *)
(* holds a block of it; for any number of pages, any classes whose sizes   *)
(* divide a page, and also while a call waits for a block.                 *)
THEOREM BlocksConserved == D!Spec => []BlocksAccountedFor
<1> USE BlockAssumption
<1>1. ASSUME BlockInv PROVE BlocksAccountedFor
  <2>1. StoreType /\ ListsApart /\ HeldOnce /\ InUse /\ \A r \in SmallPages : Counted(r)
    BY <1>1 DEF BlockInv, Stored
  <2>2. \A d \in D!Classes : freeBlocks[d] \in Seq(D!Block)
    BY <2>1 DEF StoreType
  <2>3. \A e : e \in D!Listed <=> \E d \in D!Classes : \E i \in DOMAIN freeBlocks[d] : e = <<d, i>>
    BY DEF D!Listed
  <2>4. \A d, i : D!At(<<d, i>>) = freeBlocks[d][i]
    BY DEF D!At
  <2>5. \A d \in D!Classes : \A i \in DOMAIN freeBlocks[d] :
          /\ Occurs(freeBlocks[d], freeBlocks[d][i]) /\ freeBlocks[d][i] \in D!Block
          /\ blockSize[freeBlocks[d][i].page] = d /\ freeBlocks[d][i] \notin D!Held
    <3> TAKE d \in D!Classes
    <3> TAKE i \in DOMAIN freeBlocks[d]
    <3>1. Occurs(freeBlocks[d], freeBlocks[d][i])
      BY DEF Occurs
    <3>2. freeBlocks[d][i] \in D!Block
      BY <2>2, ElementOfSeq
    <3> QED BY <2>1, <3>1, <3>2 DEF ListsApart
  <2>6. \A e, f \in D!Listed : D!At(e) = D!At(f) => e = f
    <3> SUFFICES ASSUME NEW d \in D!Classes, NEW i \in DOMAIN freeBlocks[d],
                        NEW g \in D!Classes, NEW j \in DOMAIN freeBlocks[g],
                        freeBlocks[d][i] = freeBlocks[g][j]
                 PROVE  d = g /\ i = j
      BY <2>3, <2>4
    <3>1. d = g
      BY <2>5
    <3> QED BY <2>1, <3>1 DEF ListsApart, Distinct
  <2>7. \A e \in D!Listed : blockSize[D!At(e).page] = e[1] /\ D!At(e) \notin D!Held
    BY <2>3, <2>4, <2>5
  <2>8. ASSUME NEW p \in SmallPages, blockSize[p] # NoClass
        PROVE  LET c == blockSize[p]
                   free == {e \in D!Listed : D!At(e).page = p}
               IN  /\ numFree[p] = D!Cardinality(free)
                   /\ {D!At(e) : e \in free} \cup {b \in D!Held : b.page = p}
                        = {D!BlockAt(p, c, k) : k \in 0..(D!BlocksOf(c) - 1)}
    <3> DEFINE c == blockSize[p]
               free == {e \in D!Listed : D!At(e).page = p}
    <3>1. /\ c \in D!Classes /\ numFree[p] = Cardinality(FreeOf(p))
          /\ FreeOf(p) \cup HeldOf(p) = Cut(p, c)
      BY <2>1, <2>8 DEF StoreType, Counted
    <3>2. {D!At(e) : e \in free} = FreeOf(p)
      <4>1. \A e \in free : D!At(e) \in FreeOf(p)
        BY <2>3, <2>4, <2>5 DEF FreeOf
      <4>2. \A x \in FreeOf(p) : \E e \in free : D!At(e) = x
        BY <2>3, <2>4 DEF FreeOf, Occurs
      <4> QED BY <4>1, <4>2
    <3>3. IsFiniteSet(FreeOf(p))
      BY <3>1, Numbered, FS_Subset
    <3>4. \A e, f \in free : D!At(e) = D!At(f) => e = f
      BY <2>6
    <3> HIDE DEF free, c
    <3>5. Cardinality(free) = Cardinality(FreeOf(p))
      <4> DEFINE f == [e \in free |-> D!At(e)]
      <4>1. f \in Bijection(free, FreeOf(p))
        BY <3>2, <3>4 DEF Bijection, Injection, Surjection, IsInjective
      <4>2. f \in Injection(free, FreeOf(p)) /\ f \in Surjection(free, FreeOf(p))
        BY <4>1 DEF Bijection
      <4> QED BY <3>3, <4>2, FS_Injection
    <3> QED BY <3>1, <3>2, <3>5, FiniteBlocks DEF Cut, HeldOf, free, c
  <2>9. ASSUME NEW a \in handed, NEW b \in handed, a # b PROVE D!Units(a) \cap D!Units(b) = {}
    <3>1. CASE a.page # b.page
      BY <3>1 DEF D!Units
    <3>2. CASE a.page = b.page
      <4> DEFINE p == a.page
                 c == blockSize[p]
                 x == [page |-> p, off |-> a.off]
                 y == [page |-> p, off |-> b.off]
      <4>1. x \in D!Held /\ y \in D!Held
        BY <3>2 DEF D!Held
      <4>2. p \in SmallPages /\ c \in D!Classes /\ c # NoClass
        BY <2>1, <4>1 DEF InUse, StoreType
      <4>3. x \in Cut(p, c) /\ y \in Cut(p, c) /\ a.off # b.off
        <5>1. x \in HeldOf(p) /\ y \in HeldOf(p)
          BY <4>1 DEF HeldOf
        <5> QED BY <2>1, <2>9, <3>2, <4>2, <5>1 DEF Counted, HeldOnce
      <4>4. /\ a.off \in Nat /\ b.off \in Nat /\ ClassSize[c] \in Nat
            /\ a.off + ClassSize[c] <= b.off \/ b.off + ClassSize[c] <= a.off
        <5>1. x # y /\ x.off = a.off /\ y.off = b.off
          BY <4>3
        <5> HIDE DEF x, y, p, c
        <5>2. /\ \A z \in Cut(p, c) : z.off \in Nat
              /\ \A z, w \in Cut(p, c) : z # w => \/ z.off + ClassSize[c] <= w.off
                                                 \/ w.off + ClassSize[c] <= z.off
          BY <4>2, Numbered
        <5>3. ClassSize[c] \in Nat
          BY <4>2, ClassNumbers
        <5> QED BY <4>3, <5>1, <5>2, <5>3
      <4> HIDE DEF p, c
      <4>5. D!Units(a) = {<<p, i>> : i \in a.off..(a.off + ClassSize[c] - 1)}
            /\ D!Units(b) = {<<p, i>> : i \in b.off..(b.off + ClassSize[c] - 1)}
        BY <3>2 DEF D!Units, p, c
      <4>6. (a.off..(a.off + ClassSize[c] - 1)) \cap (b.off..(b.off + ClassSize[c] - 1)) = {}
        BY <4>4
      <4> QED BY <4>5, <4>6
    <3> QED BY <3>1, <3>2
  <2>10. \A a \in handed : a.page \in framed /\ a.page \in SmallPages
    <3>1. \A a \in handed : [page |-> a.page, off |-> a.off] \in D!Held
      BY DEF D!Held
    <3> QED BY <2>1, <3>1 DEF InUse
  <2>11. framed = {a.page : a \in handed}
    <3>1. \A p \in framed : \E a \in handed : p = a.page
      BY <2>1 DEF InUse, HeldOf, D!Held
    <3> QED BY <2>10, <3>1
  <2>12. ASSUME NEW p \in SmallPages
         PROVE  D!Cardinality({i \in DOMAIN freePages : freePages[i] = p})
                  = IF p \in framed THEN 0 ELSE 1
    <3>1. Cardinality(Places(freePages, p)) = IF Occurs(freePages, p) THEN 1 ELSE 0
      BY <2>1, OnceInQueue DEF InUse
    <3> QED BY <2>1, <3>1, FiniteBlocks DEF InUse, Places
  <2>13. /\ framed = {p \in SmallPages : blockSize[p] # NoClass}
         /\ \A a \in handed : a.size <= ClassSize[blockSize[a.page]]
    BY <2>1 DEF InUse, HeldOnce
  <2> QED BY <2>6, <2>7, <2>8, <2>9, <2>10, <2>11, <2>12, <2>13, Zenon
          DEF BlocksAccountedFor, D!BlocksAccountedFor
<1> QED BY <1>1, BlockInvariance, PTL
============================================================================
