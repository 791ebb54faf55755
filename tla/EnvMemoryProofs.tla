-------------------------- MODULE EnvMemoryProofs --------------------------
(***************************************************************************)
(* What TLAPS proves of the memory of environments.                        *)
(*                                                                         *)
(* Of EnvMemory, for any number of environments, pages, programs, frames   *)
(* and disk frames: every frame and every disk frame is accounted for, a   *)
(* page that is read from the file is the environment's own, and env_free  *)
(* leaves nothing behind.  A call is a chain of steps from a memory to a   *)
(* memory.  Each lemma says of one step for the owner o that it keeps      *)
(* Sound, the invariant of a memory by itself, and that it leaves the      *)
(* other owners alone (Others).                                            *)
(*                                                                         *)
(* Of Sharing, which MCEnvironments names S, for any number of programs,   *)
(* frames, names, addresses, sizes and heap pages: what is shared is       *)
(* backed by the frames of its share, each counted as often as the share;  *)
(* a program maps nothing but the objects that it holds; and it gives an   *)
(* object up only together with a reference.  A call is a loop over the    *)
(* pages of an object (Walked) and a change of the list.                   *)
(***************************************************************************)
EXTENDS MCEnvironments, QueueLemmas

----------------------------------------------------------------------------
(* The inductive invariant.                                                *)

Kinds == {"dir", "kstack", "table", "diskdir", "disktable"}
Structures == Owners \X Kinds \X Nat

\* The type of a memory.
Memory ==
  [free : Nat, heap : SUBSET Structures, ws : [Owners -> Seq(Pages)],
   pt : [Owners -> SUBSET Pages], dirty : [Owners -> SUBSET Pages],
   dpt : [Owners -> [Pages -> 0..NDisk]], diskFree : Seq(1..NDisk),
   disk : [1..NDisk -> (Owners \X Pages) \cup {<<>>}], lost : Nat, ok : BOOLEAN]

\* Every one of k frames is free, in use or lost.
MappedIn(m) == {x \in Owners \X Pages : x[2] \in m.pt[x[1]]}
Counted(m, k) ==
  /\ IsFiniteSet(m.heap) /\ IsFiniteSet(MappedIn(m))
  /\ m.free + Cardinality(m.heap) + Cardinality(MappedIn(m)) + m.lost = k

\* Every disk frame is in the free list, once, or belongs to one page.
Linked(m) ==
  /\ Distinct(m.diskFree)
  /\ \A o \in Owners, p \in Pages : m.dpt[o][p] # 0 => ~Occurs(m.diskFree, m.dpt[o][p])
  /\ \A o, u \in Owners : \A p, q \in Pages :
       m.dpt[o][p] # 0 /\ m.dpt[o][p] = m.dpt[u][q] => o = u /\ p = q
  /\ \A d \in 1..NDisk :
       Occurs(m.diskFree, d) \/ \E o \in Owners, p \in Pages : m.dpt[o][p] = d

\* It was written for that page.
Written(m) == \A o \in Owners, p \in Pages :
                m.dpt[o][p] # 0 => m.disk[m.dpt[o][p]] = <<o, p>>

Sound(m, k) == m \in Memory /\ Counted(m, k) /\ Linked(m) /\ Written(m)

\* An owner without pages, structures and disk frames.
Clean(m, o) ==
  /\ m.pt[o] = {} /\ m.ws[o] = <<>>
  /\ \A h \in m.heap : h[1] # o
  /\ \A p \in Pages : m.dpt[o][p] = 0

Statuses == {"FREE", "NEW", "EXIT", "UNKNOWN", "HALFMADE"}

TypeOK ==
  /\ status \in [Envs -> Statuses] /\ freeList \in Seq(Envs)
  /\ life \in [Envs -> 0..MaxLives] /\ wsmax \in [Envs -> Nat]
  /\ mem \in Memory /\ mem.ok

\* The lives to come own nothing, nor does a slot that is free.
CleanInv ==
  \A e \in Envs :
    /\ \A l \in 0..MaxLives : l > life[e] => Clean(mem, <<e, l>>)
    /\ status[e] = "FREE" => Clean(mem, Own(e))

IInv == TypeOK /\ Sound(mem, NFrames) /\ CleanInv

----------------------------------------------------------------------------
(* Assigning to one field of a memory leaves the others as they were.  A   *)
(* step that assigns to several is taken for one assignment after another. *)

\* r is m with x in the field f.
Assigned(r, m, f, x) ==
  /\ r \in Memory
  /\ r.free = IF f = "free" THEN x ELSE m.free
  /\ r.heap = IF f = "heap" THEN x ELSE m.heap
  /\ r.ws = IF f = "ws" THEN x ELSE m.ws
  /\ r.pt = IF f = "pt" THEN x ELSE m.pt
  /\ r.dirty = IF f = "dirty" THEN x ELSE m.dirty
  /\ r.dpt = IF f = "dpt" THEN x ELSE m.dpt
  /\ r.diskFree = IF f = "diskFree" THEN x ELSE m.diskFree
  /\ r.disk = IF f = "disk" THEN x ELSE m.disk
  /\ r.lost = IF f = "lost" THEN x ELSE m.lost
  /\ r.ok = IF f = "ok" THEN x ELSE m.ok

LEMMA Put_free ==
  ASSUME NEW m \in Memory, NEW x \in Nat, NEW r, r = [m EXCEPT !.free = x]
  PROVE  Assigned(r, m, "free", x)
BY DEF Memory, Assigned

LEMMA Put_heap ==
  ASSUME NEW m \in Memory, NEW x \in SUBSET Structures, NEW r, r = [m EXCEPT !.heap = x]
  PROVE  Assigned(r, m, "heap", x)
BY DEF Memory, Assigned

LEMMA Put_ws ==
  ASSUME NEW m \in Memory, NEW x \in [Owners -> Seq(Pages)], NEW r, r = [m EXCEPT !.ws = x]
  PROVE  Assigned(r, m, "ws", x)
BY DEF Memory, Assigned

LEMMA Put_pt ==
  ASSUME NEW m \in Memory, NEW x \in [Owners -> SUBSET Pages],
         NEW r, r = [m EXCEPT !.pt = x]
  PROVE  Assigned(r, m, "pt", x)
BY DEF Memory, Assigned

LEMMA Put_dirty ==
  ASSUME NEW m \in Memory, NEW x \in [Owners -> SUBSET Pages],
         NEW r, r = [m EXCEPT !.dirty = x]
  PROVE  Assigned(r, m, "dirty", x)
BY DEF Memory, Assigned

LEMMA Put_dpt ==
  ASSUME NEW m \in Memory, NEW x \in [Owners -> [Pages -> 0..NDisk]],
         NEW r, r = [m EXCEPT !.dpt = x]
  PROVE  Assigned(r, m, "dpt", x)
BY DEF Memory, Assigned

LEMMA Put_diskFree ==
  ASSUME NEW m \in Memory, NEW x \in Seq(1..NDisk), NEW r, r = [m EXCEPT !.diskFree = x]
  PROVE  Assigned(r, m, "diskFree", x)
BY DEF Memory, Assigned

LEMMA Put_disk ==
  ASSUME NEW m \in Memory, NEW x \in [1..NDisk -> (Owners \X Pages) \cup {<<>>}],
         NEW r, r = [m EXCEPT !.disk = x]
  PROVE  Assigned(r, m, "disk", x)
BY DEF Memory, Assigned

LEMMA Put_lost ==
  ASSUME NEW m \in Memory, NEW x \in Nat, NEW r, r = [m EXCEPT !.lost = x]
  PROVE  Assigned(r, m, "lost", x)
BY DEF Memory, Assigned

LEMMA Put_ok ==
  ASSUME NEW m \in Memory, NEW x \in BOOLEAN, NEW r, r = [m EXCEPT !.ok = x]
  PROVE  Assigned(r, m, "ok", x)
BY DEF Memory, Assigned

(* What the assumption says.                                               *)
LEMMA Numbers ==
  /\ NFrames \in Nat /\ NDisk \in Nat /\ KStackPages \in Nat /\ MaxLives \in Nat
  /\ LastPage \in Nat /\ Pages \subseteq Nat \ {0} /\ StackPage \in Pages
  /\ HeapPages \subseteq Pages
  /\ \A p \in Pages : Table[p] \in Nat
BY EnvMemoryAssumption DEF Pages

----------------------------------------------------------------------------
(* Structures on the kernel heap.                                          *)

\* What a step for o does to the others.
Others(m, r, o) == \A u \in Owners \ {o} : Clean(m, u) => Clean(r, u)

\* Nothing changes but the kernel heap.
Pagewise(m, r) ==
  /\ r.ws = m.ws /\ r.pt = m.pt /\ r.dirty = m.dirty /\ r.dpt = m.dpt
  /\ r.diskFree = m.diskFree /\ r.disk = m.disk /\ r.lost = m.lost

(* The page file is the same.                                              *)
LEMMA SameFile ==
  ASSUME NEW k \in Nat, NEW m, Sound(m, k), NEW r,
         r.dpt = m.dpt, r.diskFree = m.diskFree, r.disk = m.disk
  PROVE  Linked(r) /\ Written(r)
BY DEF Sound, Linked, Written

(* The working sets, the modified bits and the flag are in no count.       *)
LEMMA SoundSame ==
  ASSUME NEW k \in Nat, NEW m, Sound(m, k), NEW r \in Memory,
         r.free = m.free, r.heap = m.heap, r.pt = m.pt, r.dpt = m.dpt,
         r.diskFree = m.diskFree, r.disk = m.disk, r.lost = m.lost
  PROVE  Sound(r, k)
<1>1. MappedIn(r) = MappedIn(m)
  BY DEF MappedIn
<1>2. Counted(r, k)
  BY <1>1 DEF Sound, Counted
<1>3. Linked(r)
  BY DEF Sound, Linked
<1>4. Written(r)
  BY DEF Sound, Written
<1> QED BY <1>2, <1>3, <1>4 DEF Sound

(* A panic frees nothing.                                                  *)
LEMMA PanicStep ==
  ASSUME NEW k \in Nat, NEW m, Sound(m, k)
  PROVE  /\ Sound(Panic(m), k) /\ Pagewise(m, Panic(m))
         /\ Panic(m).heap = m.heap /\ Panic(m).free = m.free /\ ~Panic(m).ok
<1>1. m \in Memory
  BY DEF Sound
<1> DEFINE r == Panic(m)
<1>2. r = [m EXCEPT !.ok = FALSE]
  BY DEF Panic
<1> HIDE DEF r
<1>3. /\ r \in Memory /\ ~r.ok /\ r.free = m.free /\ r.heap = m.heap /\ r.ws = m.ws /\ r.pt = m.pt
      /\ r.dirty = m.dirty /\ r.dpt = m.dpt /\ r.diskFree = m.diskFree /\ r.disk = m.disk
      /\ r.lost = m.lost
  <2>1. Assigned(r, m, "ok", FALSE)
    BY <1>1, <1>2, Put_ok
  <2> QED BY <1>1, <1>2, <2>1 DEF Assigned
<1> QED BY <1>3, SoundSame DEF r, Pagewise

(* A page of the kernel heap is one frame.                                 *)
LEMMA KmallocStep ==
  ASSUME NEW k \in Nat, NEW m, Sound(m, k), NEW o \in Owners, NEW kind \in Kinds, NEW i \in Nat,
         <<o, kind, i>> \notin m.heap
  PROVE  LET r == kmalloc(m, o, kind, i)
         IN  /\ Sound(r, k) /\ Pagewise(m, r) /\ Others(m, r, o)
             /\ m.heap \subseteq r.heap /\ r.heap \subseteq m.heap \cup {<<o, kind, i>>}
             /\ (r.ok => m.ok)
<1> DEFINE r == kmalloc(m, o, kind, i)
           x == <<o, kind, i>>
<1>1. CASE ~m.ok
  <2>1. r = m
    BY <1>1 DEF kmalloc
  <2> QED BY <2>1 DEF Pagewise, Others
<1>2. CASE m.ok /\ m.free = 0
  <2>1. r = Panic(m)
    BY <1>2 DEF kmalloc
  <2> HIDE DEF r
  <2>2. Sound(r, k) /\ Pagewise(m, r) /\ r.heap = m.heap /\ ~r.ok
    BY <2>1, PanicStep
  <2> QED BY <2>2 DEF Pagewise, Others, Clean, r
<1>3. CASE m.ok /\ m.free # 0
  <2>1. m \in Memory /\ m.free \in Nat /\ m.heap \in SUBSET Structures
    BY DEF Sound, Memory
  <2> DEFINE w == [m EXCEPT !.free = m.free - 1]
  <2>2. r = [w EXCEPT !.heap = m.heap \cup {x}]
    BY <1>3, <2>1 DEF kmalloc, Memory
  <2>3. m.free - 1 \in Nat /\ m.heap \cup {x} \in SUBSET Structures
    BY <1>3, <2>1 DEF Structures
  <2> HIDE DEF w, r, x
  <2>4. /\ w \in Memory /\ w.free = m.free - 1 /\ w.heap = m.heap /\ w.ws = m.ws /\ w.pt = m.pt
        /\ w.dirty = m.dirty /\ w.dpt = m.dpt /\ w.diskFree = m.diskFree /\ w.disk = m.disk
        /\ w.lost = m.lost /\ w.ok = m.ok
    <3>1. Assigned(w, m, "free", m.free - 1)
      BY <2>1, <2>3, Put_free DEF w
    <3> QED BY <2>1, <2>3, <3>1 DEF Assigned
  <2>5. /\ r \in Memory /\ r.free = m.free - 1 /\ r.heap = m.heap \cup {x} /\ r.ws = m.ws
        /\ r.pt = m.pt /\ r.dirty = m.dirty /\ r.dpt = m.dpt /\ r.diskFree = m.diskFree
        /\ r.disk = m.disk /\ r.lost = m.lost /\ r.ok = m.ok
    <3>1. Assigned(r, w, "heap", m.heap \cup {x})
      BY <2>2, <2>3, <2>4, Put_heap
    <3> QED BY <2>2, <2>3, <2>4, <3>1 DEF Assigned
  <2>6. IsFiniteSet(r.heap) /\ Cardinality(r.heap) = Cardinality(m.heap) + 1
    <3>1. IsFiniteSet(m.heap) /\ x \notin m.heap
      BY DEF Sound, Counted, x
    <3> QED BY <2>5, <3>1, OneMore
  <2>7. MappedIn(r) = MappedIn(m)
    BY <2>5 DEF MappedIn
  <2>8. Cardinality(m.heap) \in Nat /\ Cardinality(MappedIn(m)) \in Nat /\ m.lost \in Nat
    BY <2>1, FS_CardinalityType DEF Sound, Counted, Memory
  <2>9. Counted(r, k)
    BY <2>1, <2>5, <2>6, <2>7, <2>8 DEF Sound, Counted
  <2>10. Linked(r) /\ Written(r)
    BY <2>5, SameFile
  <2>11. Others(m, r, o)
    BY <2>5 DEF Others, Clean, x
  <2> QED BY <1>3, <2>5, <2>9, <2>10, <2>11 DEF Sound, Pagewise, r, x
<1> QED BY <1>1, <1>2, <1>3

(* A structure that exists is not made again.                              *)
LEMMA EnsureStep ==
  ASSUME NEW k \in Nat, NEW m, Sound(m, k), NEW o \in Owners, NEW kind \in Kinds, NEW i \in Nat
  PROVE  LET r == Ensure(m, o, kind, i)
         IN  /\ Sound(r, k) /\ Pagewise(m, r) /\ Others(m, r, o)
             /\ m.heap \subseteq r.heap /\ r.heap \subseteq m.heap \cup {<<o, kind, i>>}
             /\ (r.ok => m.ok)
<1>1. CASE <<o, kind, i>> \in m.heap
  BY <1>1 DEF Ensure, Pagewise, Others
<1>2. CASE <<o, kind, i>> \notin m.heap
  BY <1>2, KmallocStep DEF Ensure
<1> QED BY <1>1, <1>2
----------------------------------------------------------------------------
(* Pages.                                                                  *)

(* The numbers that are added up.                                          *)
LEMMA FinitePages ==
  ASSUME NEW k \in Nat, NEW m, Sound(m, k)
  PROVE  /\ m \in Memory /\ m.free \in Nat /\ m.lost \in Nat
         /\ IsFiniteSet(m.heap) /\ Cardinality(m.heap) \in Nat
         /\ IsFiniteSet(MappedIn(m)) /\ Cardinality(MappedIn(m)) \in Nat
         /\ m.free + Cardinality(m.heap) + Cardinality(MappedIn(m)) + m.lost = k
BY FS_CardinalityType DEF Sound, Counted, Memory

(* The types of the fields.                                                *)
LEMMA Shapes ==
  ASSUME NEW m \in Memory
  PROVE  /\ \A u \in Owners : /\ m.pt[u] \in SUBSET Pages /\ m.dirty[u] \in SUBSET Pages
                              /\ m.ws[u] \in Seq(Pages) /\ m.dpt[u] \in [Pages -> 0..NDisk]
         /\ m.pt \in [Owners -> SUBSET Pages] /\ m.dirty \in [Owners -> SUBSET Pages]
         /\ m.ws \in [Owners -> Seq(Pages)] /\ m.dpt \in [Owners -> [Pages -> 0..NDisk]]
         /\ m.diskFree \in Seq(1..NDisk) /\ m.disk \in [1..NDisk -> (Owners \X Pages) \cup {<<>>}]
         /\ m.heap \in SUBSET Structures
BY DEF Memory

(* The frame goes to a page that has none.                                 *)
LEMMA MapStep ==
  ASSUME NEW k \in Nat, NEW m, Sound(m, k), NEW o \in Owners, NEW p \in Pages, p \notin m.pt[o]
  PROVE  LET r == MapNew(m, o, p)
         IN  /\ Sound(r, k) /\ Others(m, r, o)
             /\ r.ws = m.ws /\ r.dpt = m.dpt /\ r.diskFree = m.diskFree /\ r.disk = m.disk
             /\ r.pt[o] \subseteq m.pt[o] \cup {p} /\ (r.ok => m.ok)
<1> DEFINE r == MapNew(m, o, p)
<1>0. m \in Memory
  BY DEF Sound
<1>1. CASE ~m.ok
  <2>1. r = m
    BY <1>1 DEF MapNew
  <2> QED BY <2>1 DEF Others
<1>2. CASE m.ok /\ m.free = 0
  <2>1. r = Panic(m)
    BY <1>2 DEF MapNew
  <2> HIDE DEF r
  <2>2. Sound(r, k) /\ Pagewise(m, r) /\ r.heap = m.heap /\ ~r.ok
    BY <2>1, PanicStep
  <2> QED BY <2>2 DEF Pagewise, Others, Clean, r
<1>3. CASE m.ok /\ m.free # 0
  <2> DEFINE v == [m EXCEPT !.free = m.free - 1]
             w == Ensure(v, o, "table", Table[p])
             j == k - 1
  <2>1. m.free - 1 \in Nat /\ j \in Nat /\ k = j + 1
    <3>1. m.free \in Nat /\ m.free <= k /\ m.free # 0
      BY <1>3, FinitePages
    <3> QED BY <3>1
  <2>2. /\ v \in Memory /\ v.free = m.free - 1 /\ v.heap = m.heap /\ v.ws = m.ws /\ v.pt = m.pt
        /\ v.dirty = m.dirty /\ v.dpt = m.dpt /\ v.diskFree = m.diskFree /\ v.disk = m.disk
        /\ v.lost = m.lost /\ v.ok = m.ok
    <3>1. Assigned(v, m, "free", m.free - 1)
      BY <1>0, <2>1, Put_free
    <3> QED BY <1>0, <2>1, <3>1 DEF Assigned
  <2>3. r = IF w.ok THEN [w EXCEPT !.pt[o] = w.pt[o] \cup {p}] ELSE [w EXCEPT !.lost = w.lost + 1]
    BY <1>3 DEF MapNew
  <2> HIDE DEF v, w, r, j
  <2>4. Sound(v, j)
    <3>1. MappedIn(v) = MappedIn(m)
      BY <2>2 DEF MappedIn
    <3>2. Counted(v, j)
      <4>1. /\ m.free + Cardinality(m.heap) + Cardinality(MappedIn(m)) + m.lost = k
            /\ m.free \in Nat /\ Cardinality(m.heap) \in Nat /\ m.lost \in Nat
            /\ IsFiniteSet(m.heap)
            /\ IsFiniteSet(MappedIn(m)) /\ Cardinality(MappedIn(m)) \in Nat
        BY FinitePages
      <4> QED BY <2>1, <2>2, <3>1, <4>1 DEF Counted
    <3> QED BY <2>2, <3>2 DEF Sound, Linked, Written
  <2>5. Sound(w, j) /\ Pagewise(v, w) /\ Others(v, w, o)
    BY <2>1, <2>4, EnsureStep, Numbers DEF w, Kinds
  <2>6. /\ w.ws = m.ws /\ w.pt = m.pt /\ w.dpt = m.dpt /\ w.diskFree = m.diskFree
        /\ w.disk = m.disk /\ w.lost = m.lost /\ Others(m, w, o)
    BY <2>2, <2>5 DEF Pagewise, Others, Clean
  <2>7. CASE w.ok
    <3> DEFINE t == [w.pt EXCEPT ![o] = w.pt[o] \cup {p}]
    <3>1. r = [w EXCEPT !.pt = t]
      BY <2>1, <2>3, <2>5, <2>7, FinitePages DEF Memory
    <3>2. /\ t \in [Owners -> SUBSET Pages] /\ t[o] = m.pt[o] \cup {p}
          /\ \A u \in Owners \ {o} : t[u] = m.pt[u]
      BY <2>6, <1>0, Shapes
    <3> HIDE DEF t
    <3>3. /\ r \in Memory /\ r.free = w.free /\ r.heap = w.heap /\ r.ws = w.ws /\ r.pt = t
          /\ r.dirty = w.dirty /\ r.dpt = w.dpt /\ r.diskFree = w.diskFree /\ r.disk = w.disk
          /\ r.lost = w.lost /\ r.ok = w.ok
      <4>1. Assigned(r, w, "pt", t)
        BY <2>1, <2>5, <3>1, <3>2, FinitePages, Put_pt
      <4> QED BY <2>1, <2>5, <3>1, <3>2, FinitePages, <4>1 DEF Assigned
    <3>4. MappedIn(r) = MappedIn(w) \cup {<<o, p>>} /\ <<o, p>> \notin MappedIn(w)
      BY <2>6, <3>2, <3>3 DEF MappedIn
    <3>5. Counted(r, k)
      <4>1. /\ IsFiniteSet(MappedIn(r)) /\ Cardinality(MappedIn(w)) \in Nat
            /\ Cardinality(MappedIn(r)) = Cardinality(MappedIn(w)) + 1
        <5>1. IsFiniteSet(MappedIn(w))
          BY <2>1, <2>5, FinitePages
        <5> QED BY <3>4, <5>1, OneMore
      <4>2. /\ w.free + Cardinality(w.heap) + Cardinality(MappedIn(w)) + w.lost = j
            /\ w.free \in Nat /\ Cardinality(w.heap) \in Nat /\ w.lost \in Nat
            /\ IsFiniteSet(w.heap)
        BY <2>1, <2>5, FinitePages
      <4> QED BY <2>1, <3>3, <4>1, <4>2 DEF Counted
    <3>6. Linked(r) /\ Written(r)
      BY <2>1, <2>5, <3>3, SameFile
    <3>7. Others(m, r, o)
      BY <2>6, <3>2, <3>3 DEF Others, Clean
    <3> QED BY <1>3, <2>6, <3>2, <3>3, <3>5, <3>6, <3>7 DEF Sound, r
  <2>8. CASE ~w.ok
    <3>1. w.lost \in Nat /\ w.lost + 1 \in Nat /\ w \in Memory
      <4>1. w.lost \in Nat /\ w \in Memory
        BY <2>1, <2>5, FinitePages
      <4> QED BY <4>1
    <3>2. r = [w EXCEPT !.lost = w.lost + 1]
      BY <2>3, <2>8
    <3>3. /\ r \in Memory /\ r.free = w.free /\ r.heap = w.heap /\ r.ws = w.ws /\ r.pt = w.pt
          /\ r.dirty = w.dirty /\ r.dpt = w.dpt /\ r.diskFree = w.diskFree /\ r.disk = w.disk
          /\ r.lost = w.lost + 1 /\ r.ok = w.ok
      <4>1. Assigned(r, w, "lost", w.lost + 1)
        BY <3>1, <3>2, Put_lost
      <4> QED BY <3>1, <3>2, <4>1 DEF Assigned
    <3>4. MappedIn(r) = MappedIn(w)
      BY <3>3 DEF MappedIn
    <3>5. Counted(r, k)
      <4>1. /\ w.free + Cardinality(w.heap) + Cardinality(MappedIn(w)) + w.lost = j
            /\ w.free \in Nat /\ Cardinality(w.heap) \in Nat /\ w.lost \in Nat
            /\ IsFiniteSet(w.heap)
            /\ IsFiniteSet(MappedIn(w)) /\ Cardinality(MappedIn(w)) \in Nat
        BY <2>1, <2>5, FinitePages
      <4> QED BY <2>1, <3>3, <3>4, <4>1 DEF Counted
    <3>6. Linked(r) /\ Written(r)
      BY <2>1, <2>5, <3>3, SameFile
    <3>7. Others(m, r, o)
      BY <2>6, <3>3 DEF Others, Clean
    <3> QED BY <2>6, <2>8, <3>3, <3>5, <3>6, <3>7 DEF Sound, r
  <2> QED BY <2>7, <2>8
<1> QED BY <1>1, <1>2, <1>3

(* A page gives its frame back.                                            *)
LEMMA UnmapStep ==
  ASSUME NEW k \in Nat, NEW m, Sound(m, k), NEW o \in Owners, NEW p \in Pages
  PROVE  LET r == Unmap(m, o, p)
         IN  /\ Sound(r, k) /\ Others(m, r, o)
             /\ r.ws = m.ws /\ r.dpt = m.dpt /\ r.diskFree = m.diskFree /\ r.disk = m.disk
             /\ r.heap = m.heap /\ r.ok = m.ok /\ r.pt[o] = m.pt[o] \ {p}
             /\ r.free >= m.free
<1> DEFINE r == Unmap(m, o, p)
<1>0. m.free \in Nat
  BY FinitePages
<1>1. CASE p \notin m.pt[o]
  <2>1. r = m
    BY <1>1 DEF Unmap
  <2> QED BY <1>0, <1>1, <2>1 DEF Others
<1>2. CASE p \in m.pt[o]
  <2> DEFINE t == [m.pt EXCEPT ![o] = m.pt[o] \ {p}]
             d == [m.dirty EXCEPT ![o] = m.dirty[o] \ {p}]
             v == [m EXCEPT !.free = m.free + 1]
             w == [v EXCEPT !.pt = t]
  <2>1. m \in Memory /\ m.free + 1 \in Nat
    BY FinitePages
  <2>2. r = [w EXCEPT !.dirty = d]
    BY <1>2, <2>1 DEF Unmap, Memory
  <2>3. /\ t \in [Owners -> SUBSET Pages] /\ t[o] = m.pt[o] \ {p}
        /\ \A u \in Owners \ {o} : t[u] = m.pt[u]
        /\ d \in [Owners -> SUBSET Pages]
    BY <2>1, Shapes
  <2> HIDE DEF t, d, v, w, r
  <2>4. /\ v \in Memory /\ v.free = m.free + 1 /\ v.heap = m.heap /\ v.ws = m.ws /\ v.pt = m.pt
        /\ v.dirty = m.dirty /\ v.dpt = m.dpt /\ v.diskFree = m.diskFree /\ v.disk = m.disk
        /\ v.lost = m.lost /\ v.ok = m.ok
    <3>1. Assigned(v, m, "free", m.free + 1)
      BY <2>1, Put_free DEF v
    <3> QED BY <2>1, <3>1 DEF Assigned
  <2>5. /\ w \in Memory /\ w.free = v.free /\ w.heap = v.heap /\ w.ws = v.ws /\ w.pt = t
        /\ w.dirty = v.dirty /\ w.dpt = v.dpt /\ w.diskFree = v.diskFree /\ w.disk = v.disk
        /\ w.lost = v.lost /\ w.ok = v.ok
    <3>1. Assigned(w, v, "pt", t)
      BY <2>3, <2>4, Put_pt DEF w
    <3> QED BY <2>3, <2>4, <3>1 DEF Assigned
  <2>6. /\ r \in Memory /\ r.free = m.free + 1 /\ r.heap = m.heap /\ r.ws = m.ws /\ r.pt = t
        /\ r.dpt = m.dpt /\ r.diskFree = m.diskFree /\ r.disk = m.disk
        /\ r.lost = m.lost /\ r.ok = m.ok
    <3>1. Assigned(r, w, "dirty", d)
      BY <2>2, <2>3, <2>4, <2>5, Put_dirty
    <3> QED BY <2>2, <2>3, <2>4, <2>5, <3>1 DEF Assigned
  <2>7. MappedIn(r) = MappedIn(m) \ {<<o, p>>} /\ <<o, p>> \in MappedIn(m)
    BY <1>2, <2>3, <2>6 DEF MappedIn
  <2>8. Counted(r, k)
    <3>1. /\ IsFiniteSet(MappedIn(r)) /\ Cardinality(MappedIn(r)) \in Nat
          /\ Cardinality(MappedIn(m)) = Cardinality(MappedIn(r)) + 1
      <4>1. IsFiniteSet(MappedIn(m))
        BY FinitePages
      <4> QED BY <2>7, <4>1, OneLess
    <3>2. /\ m.free + Cardinality(m.heap) + Cardinality(MappedIn(m)) + m.lost = k
          /\ m.free \in Nat /\ Cardinality(m.heap) \in Nat /\ m.lost \in Nat /\ IsFiniteSet(m.heap)
      BY FinitePages
    <3> QED BY <2>6, <3>1, <3>2 DEF Counted
  <2>9. Linked(r) /\ Written(r)
    BY <2>6, SameFile
  <2>10. Others(m, r, o)
    BY <2>3, <2>6 DEF Others, Clean
  <2> QED BY <1>0, <2>3, <2>6, <2>8, <2>9, <2>10 DEF Sound, r
<1> QED BY <1>1, <1>2
----------------------------------------------------------------------------
(* The page file.                                                          *)

(* The first free disk frame goes to a page that has none, and is written. *)
LEMMA LinkStep ==
  ASSUME NEW k \in Nat, NEW m, Sound(m, k), NEW o \in Owners, NEW p \in Pages,
         m.ok, m.dpt[o][p] = 0, m.diskFree # <<>>
  PROVE  LET r == write_disk_page(allocate_disk_frame(m, o, p), o, p)
         IN  /\ Sound(r, k) /\ Others(m, r, o)
             /\ r.free = m.free /\ r.heap = m.heap /\ r.ws = m.ws /\ r.pt = m.pt
             /\ r.dirty = m.dirty /\ r.lost = m.lost /\ r.ok
<1> DEFINE d == Head(m.diskFree)
           s == Tail(m.diskFree)
           t == [m.dpt EXCEPT ![o] = [m.dpt[o] EXCEPT ![p] = d]]
           v == [m EXCEPT !.dpt = t]
           w == [v EXCEPT !.diskFree = s]
           c == [m.disk EXCEPT ![d] = <<o, p>>]
           r == write_disk_page(allocate_disk_frame(m, o, p), o, p)
<1>1. m \in Memory
  BY DEF Sound
<1>2. m.dpt \in [Owners -> [Pages -> 0..NDisk]] /\ m.diskFree \in Seq(1..NDisk)
      /\ m.disk \in [1..NDisk -> (Owners \X Pages) \cup {<<>>}]
  BY <1>1, Shapes
<1>3. /\ d \in 1..NDisk /\ s \in Seq(1..NDisk)
      /\ Distinct(s) /\ Occurs(m.diskFree, d)
      /\ \A e : Occurs(s, e) <=> Occurs(m.diskFree, e) /\ e # d
  <2>1. Distinct(m.diskFree)
    BY DEF Sound, Linked
  <2> QED BY <1>2, <2>1, OccursTail
<1>4. d # 0 /\ d \in 0..NDisk
  BY <1>3, Numbers
<1>5. allocate_disk_frame(m, o, p) = w
  BY <1>1, <1>2 DEF allocate_disk_frame, Memory
<1>6. /\ t \in [Owners -> [Pages -> 0..NDisk]] /\ t[o][p] = d
      /\ \A u \in Owners, q \in Pages : <<u, q>> # <<o, p>> => t[u][q] = m.dpt[u][q]
      /\ \A u \in Owners : u # o => t[u] = m.dpt[u]
  BY <1>2, <1>4
<1>7. /\ c \in [1..NDisk -> (Owners \X Pages) \cup {<<>>}] /\ c[d] = <<o, p>>
      /\ \A e \in 1..NDisk : e # d => c[e] = m.disk[e]
  BY <1>2, <1>3
<1>8. d = Head(m.diskFree) /\ s = Tail(m.diskFree)
  OBVIOUS
<1> HIDE DEF t, v, w, d, s, r, c
<1>9. /\ v \in Memory /\ v.dpt = t /\ v.free = m.free /\ v.heap = m.heap /\ v.ws = m.ws
      /\ v.pt = m.pt
      /\ v.dirty = m.dirty /\ v.diskFree = m.diskFree /\ v.disk = m.disk /\ v.lost = m.lost
      /\ v.ok = m.ok
  <2>1. m \in Memory /\ t \in [Owners -> [Pages -> 0..NDisk]] /\ v = [m EXCEPT !.dpt = t]
    BY <1>1, <1>6 DEF v
  <2>2. Assigned(v, m, "dpt", t)
    BY <2>1, Put_dpt
  <2> QED BY <2>1, <2>2 DEF Assigned
<1>10. /\ w \in Memory /\ w.dpt = t /\ w.free = m.free /\ w.heap = m.heap /\ w.ws = m.ws
       /\ w.pt = m.pt
       /\ w.dirty = m.dirty /\ w.diskFree = s /\ w.disk = m.disk /\ w.lost = m.lost /\ w.ok = m.ok
  <2>1. v \in Memory /\ s \in Seq(1..NDisk) /\ w = [v EXCEPT !.diskFree = s]
    BY <1>3, <1>9 DEF w
  <2>2. /\ w \in Memory /\ w.dpt = v.dpt /\ w.free = v.free /\ w.heap = v.heap
        /\ w.ws = v.ws /\ w.pt = v.pt /\ w.dirty = v.dirty /\ w.diskFree = s
        /\ w.disk = v.disk /\ w.lost = v.lost /\ w.ok = v.ok
    <3>1. Assigned(w, v, "diskFree", s)
      BY <2>1, Put_diskFree
    <3> QED BY <2>1, <3>1 DEF Assigned
  <2> QED BY <1>9, <2>2
<1>11. r = [w EXCEPT !.disk = c]
  BY <1>4, <1>5, <1>6, <1>10 DEF write_disk_page, Memory, r, c
<1>12. /\ r \in Memory /\ r.dpt = t /\ r.free = m.free /\ r.heap = m.heap /\ r.ws = m.ws
       /\ r.pt = m.pt
       /\ r.dirty = m.dirty /\ r.diskFree = s /\ r.disk = c /\ r.lost = m.lost /\ r.ok = m.ok
  <2>1. w \in Memory /\ c \in [1..NDisk -> (Owners \X Pages) \cup {<<>>}]
    BY <1>7, <1>10
  <2>2. /\ r \in Memory /\ r.disk = c /\ r.free = w.free /\ r.heap = w.heap /\ r.ws = w.ws
        /\ r.pt = w.pt /\ r.dirty = w.dirty /\ r.dpt = w.dpt /\ r.diskFree = w.diskFree
        /\ r.lost = w.lost /\ r.ok = w.ok
    <3>1. Assigned(r, w, "disk", c)
      BY <1>11, <2>1, Put_disk
    <3> QED BY <1>11, <2>1, <3>1 DEF Assigned
  <2> QED BY <1>10, <2>2
<1>13. Counted(r, k)
  <2>1. MappedIn(r) = MappedIn(m)
    BY <1>12 DEF MappedIn
  <2> QED BY <1>12, <2>1 DEF Sound, Counted
<1>14. \A u \in Owners, q \in Pages : m.dpt[u][q] # 0 => m.dpt[u][q] # d /\ m.dpt[u][q] \in 1..NDisk
  <2>1. \A u \in Owners, q \in Pages : m.dpt[u][q] \in 0..NDisk
    BY <1>2
  <2> QED BY <1>3, <2>1, Numbers DEF Sound, Linked
<1>15. Linked(r)
  <2>0. /\ \A u \in Owners, q \in Pages : m.dpt[u][q] # 0 => ~Occurs(m.diskFree, m.dpt[u][q])
        /\ \A u, a \in Owners : \A q, b \in Pages :
             m.dpt[u][q] # 0 /\ m.dpt[u][q] = m.dpt[a][b] => u = a /\ q = b
    BY DEF Sound, Linked
  <2>1. ASSUME NEW u \in Owners, NEW q \in Pages, t[u][q] # 0
        PROVE  ~Occurs(s, t[u][q])
    <3>1. CASE <<u, q>> = <<o, p>>
      BY <1>3, <1>6, <3>1
    <3>2. CASE <<u, q>> # <<o, p>>
      <4>1. t[u][q] = m.dpt[u][q]
        BY <1>6, <3>2
      <4> QED BY <1>3, <2>0, <2>1, <4>1
    <3> QED BY <3>1, <3>2
  <2>2. ASSUME NEW u \in Owners, NEW a \in Owners, NEW q \in Pages, NEW b \in Pages,
               t[u][q] # 0, t[u][q] = t[a][b]
        PROVE  u = a /\ q = b
    <3>1. CASE <<u, q>> = <<o, p>> /\ <<a, b>> = <<o, p>>
      BY <3>1
    <3>2. CASE <<u, q>> = <<o, p>> /\ <<a, b>> # <<o, p>>
      BY <1>4, <1>6, <1>14, <2>2, <3>2
    <3>3. CASE <<u, q>> # <<o, p>> /\ <<a, b>> = <<o, p>>
      BY <1>4, <1>6, <1>14, <2>2, <3>3
    <3>4. CASE <<u, q>> # <<o, p>> /\ <<a, b>> # <<o, p>>
      <4>1. t[u][q] = m.dpt[u][q] /\ t[a][b] = m.dpt[a][b]
        BY <1>6, <3>4
      <4>2. m.dpt[u][q] # 0 /\ m.dpt[u][q] = m.dpt[a][b]
        BY <2>2, <4>1
      <4> QED BY <2>0, <4>2
    <3> QED BY <3>1, <3>2, <3>3, <3>4
  <2>3. ASSUME NEW e \in 1..NDisk
        PROVE  Occurs(s, e) \/ \E u \in Owners, q \in Pages : t[u][q] = e
    <3>1. CASE e = d
      BY <1>6, <3>1
    <3>2. CASE e # d /\ Occurs(m.diskFree, e)
      BY <1>3, <3>2
    <3>3. CASE ~Occurs(m.diskFree, e)
      <4>1. PICK u \in Owners, q \in Pages : m.dpt[u][q] = e
        BY <3>3 DEF Sound, Linked
      <4>2. e # 0
        BY Numbers
      <4>3. <<u, q>> # <<o, p>>
        BY <4>1, <4>2
      <4> QED BY <1>6, <4>1, <4>3
    <3> QED BY <3>1, <3>2, <3>3
  <2> QED BY <1>3, <1>12, <2>1, <2>2, <2>3 DEF Linked
<1>16. Written(r)
  <2> SUFFICES ASSUME NEW u \in Owners, NEW q \in Pages, t[u][q] # 0
               PROVE  c[t[u][q]] = <<u, q>>
    BY <1>12 DEF Written
  <2>1. CASE <<u, q>> = <<o, p>>
    BY <1>6, <1>7, <2>1
  <2>2. CASE <<u, q>> # <<o, p>>
    <3>1. t[u][q] = m.dpt[u][q]
      BY <1>6, <2>2
    <3>2. m.disk[m.dpt[u][q]] = <<u, q>>
      BY <3>1 DEF Sound, Written
    <3>3. t[u][q] # d /\ t[u][q] \in 1..NDisk
      BY <1>14, <3>1
    <3> QED BY <1>7, <3>1, <3>2, <3>3
  <2> QED BY <2>1, <2>2
<1>17. Others(m, r, o)
  BY <1>6, <1>12 DEF Others, Clean
<1> QED BY <1>12, <1>13, <1>15, <1>16, <1>17 DEF Sound, r
(* What has a disk frame already is written again.                         *)
LEMMA WriteStep ==
  ASSUME NEW k \in Nat, NEW m, Sound(m, k), NEW o \in Owners, NEW p \in Pages
  PROVE  LET r == write_disk_page(m, o, p)
         IN  /\ Sound(r, k) /\ Others(m, r, o)
             /\ r.ws = m.ws /\ r.pt = m.pt /\ r.dirty = m.dirty /\ r.ok = m.ok
<1> DEFINE r == write_disk_page(m, o, p)
           d == m.dpt[o][p]
<1>1. CASE m.ok /\ d # 0
  <2> DEFINE c == [m.disk EXCEPT ![d] = <<o, p>>]
  <2>1. m \in Memory /\ m.disk \in [1..NDisk -> (Owners \X Pages) \cup {<<>>}]
    BY Shapes DEF Sound
  <2>2. m.disk[d] = <<o, p>>
    BY <1>1 DEF Sound, Written
  <2>3. c = m.disk
    BY <2>1, <2>2
  <2>4. r = [m EXCEPT !.disk = c]
    BY <1>1 DEF write_disk_page
  <2> HIDE DEF c, r
  <2>5. /\ r \in Memory /\ r.disk = m.disk /\ r.free = m.free /\ r.heap = m.heap /\ r.ws = m.ws
        /\ r.pt = m.pt /\ r.dirty = m.dirty /\ r.dpt = m.dpt /\ r.diskFree = m.diskFree
        /\ r.lost = m.lost /\ r.ok = m.ok
    <3>1. Assigned(r, m, "disk", c)
      BY <2>1, <2>3, <2>4, Put_disk
    <3> QED BY <2>1, <2>3, <2>4, <3>1 DEF Assigned
  <2> QED BY <2>5, SoundSame DEF Others, Clean, r
<1>2. CASE ~(m.ok /\ d # 0)
  <2>1. r = m
    BY <1>2 DEF write_disk_page
  <2> QED BY <2>1 DEF Others
<1> QED BY <1>1, <1>2

(* A page gets a disk frame, unless it has one, and is written there; the  *)
(* tables of the page file are made on the way.                            *)
LEMMA AddStep ==
  ASSUME NEW k \in Nat, NEW m, Sound(m, k), NEW o \in Owners, NEW p \in Pages, NEW full
  PROVE  LET r == pf_add_env_page(m, o, p, full)
         IN  /\ Sound(r, k) /\ Others(m, r, o)
             /\ r.ws = m.ws /\ r.pt = m.pt /\ r.dirty = m.dirty /\ (r.ok => m.ok)
<1> DEFINE d == get_disk_page_directory(m, o)
           w == get_disk_page_table(d, o, p)
           e == AddEmpty(m, o, p, full)
           r == pf_add_env_page(m, o, p, full)
<1>1. Sound(d, k) /\ Pagewise(m, d) /\ Others(m, d, o) /\ (d.ok => m.ok)
  BY EnsureStep DEF get_disk_page_directory, Kinds
<1> HIDE DEF d
<1>2. Sound(w, k) /\ Pagewise(d, w) /\ Others(d, w, o) /\ (w.ok => d.ok)
  BY <1>1, EnsureStep, Numbers DEF get_disk_page_table, Kinds
<1>3. /\ Others(m, w, o) /\ (w.ok => m.ok)
      /\ w.ws = m.ws /\ w.pt = m.pt /\ w.dirty = m.dirty
  BY <1>1, <1>2 DEF Pagewise, Others
<1>4. r = write_disk_page(e, o, p)
  BY DEF pf_add_env_page
<1>5. e = IF ~w.ok \/ w.dpt[o][p] # 0 THEN w
          ELSE IF w.diskFree = <<>> THEN IF full = "panic" THEN Panic(w) ELSE w
          ELSE allocate_disk_frame(w, o, p)
  BY DEF AddEmpty, d
<1> HIDE DEF w, e, r
<1>6. CASE w.ok /\ w.dpt[o][p] = 0 /\ w.diskFree # <<>>
  <2>1. r = write_disk_page(allocate_disk_frame(w, o, p), o, p)
    BY <1>4, <1>5, <1>6
  <2>2. /\ Sound(r, k) /\ Others(w, r, o) /\ r.ws = w.ws /\ r.pt = w.pt /\ r.dirty = w.dirty
    BY <1>2, <1>6, <2>1, LinkStep
  <2> QED BY <1>3, <1>6, <2>2 DEF Others, r
<1>7. ASSUME e = w \/ e = Panic(w)
      PROVE  /\ Sound(r, k) /\ Others(m, r, o)
             /\ r.ws = m.ws /\ r.pt = m.pt /\ r.dirty = m.dirty /\ (r.ok => m.ok)
  <2>1. /\ Sound(e, k) /\ Others(w, e, o) /\ e.ws = w.ws /\ e.pt = w.pt /\ e.dirty = w.dirty
        /\ e.ok => w.ok
    <3>1. CASE e = w
      BY <1>2, <3>1 DEF Others
    <3>2. CASE e = Panic(w)
      <4>1. Sound(e, k) /\ Pagewise(w, e) /\ e.heap = w.heap /\ ~e.ok
        BY <1>2, <3>2, PanicStep
      <4> QED BY <4>1 DEF Pagewise, Others, Clean
    <3> QED BY <1>7, <3>1, <3>2
  <2>2. /\ Sound(r, k) /\ Others(e, r, o) /\ r.ws = e.ws /\ r.pt = e.pt /\ r.dirty = e.dirty
        /\ r.ok = e.ok
    BY <1>4, <2>1, WriteStep
  <2> QED BY <1>3, <2>1, <2>2 DEF Others
<1> QED BY <1>5, <1>6, <1>7 DEF r

(* A modified page goes to its disk frame.                                 *)
LEMMA UpdateStep ==
  ASSUME NEW k \in Nat, NEW m, Sound(m, k), NEW o \in Owners, NEW p \in Pages
  PROVE  LET r == pf_update_env_page(m, o, p)
         IN  /\ Sound(r, k) /\ Others(m, r, o)
             /\ r.ws = m.ws /\ r.pt = m.pt /\ (r.ok => m.ok)
<1> DEFINE w == pf_add_env_page(m, o, p, "panic")
           r == pf_update_env_page(m, o, p)
<1>1. /\ Sound(w, k) /\ Others(m, w, o) /\ w.ws = m.ws /\ w.pt = m.pt /\ w.dirty = m.dirty
      /\ w.ok => m.ok
  BY AddStep
<1>2. r = IF w.ok THEN [w EXCEPT !.dirty[o] = @ \ {p}] ELSE w
  BY DEF pf_update_env_page
<1> HIDE DEF w, r
<1>3. CASE w.ok
  <2> DEFINE t == [w.dirty EXCEPT ![o] = w.dirty[o] \ {p}]
  <2>1. w \in Memory /\ t \in [Owners -> SUBSET Pages]
    BY <1>1, Shapes DEF Sound
  <2>2. r = [w EXCEPT !.dirty = t]
    BY <1>2, <1>3, <2>1 DEF Memory
  <2> HIDE DEF t
  <2>3. /\ r \in Memory /\ r.dirty = t /\ r.free = w.free /\ r.heap = w.heap /\ r.ws = w.ws
        /\ r.pt = w.pt /\ r.dpt = w.dpt /\ r.diskFree = w.diskFree /\ r.disk = w.disk
        /\ r.lost = w.lost /\ r.ok = w.ok
    <3>1. Assigned(r, w, "dirty", t)
      BY <2>1, <2>2, Put_dirty
    <3> QED BY <2>1, <2>2, <3>1 DEF Assigned
  <2>4. Sound(r, k)
    BY <1>1, <2>3, SoundSame
  <2> QED BY <1>1, <2>3, <2>4 DEF Others, Clean, r
<1>4. CASE ~w.ok
  BY <1>1, <1>2, <1>4 DEF r
<1> QED BY <1>3, <1>4
(* The disk frame of a page goes back to the list.                         *)
LEMMA RemoveStep ==
  ASSUME NEW k \in Nat, NEW m, Sound(m, k), NEW o \in Owners, NEW p \in Pages
  PROVE  LET r == pf_remove_env_page(m, o, p)
         IN  /\ Sound(r, k) /\ Others(m, r, o)
             /\ r.free = m.free /\ r.heap = m.heap /\ r.ws = m.ws /\ r.pt = m.pt /\ r.ok = m.ok
             /\ r.dpt[o][p] = 0
             /\ \A q \in Pages : m.dpt[o][q] = 0 => r.dpt[o][q] = 0
<1> DEFINE d == m.dpt[o][p]
           s == <<d>> \o m.diskFree
           t == [m.dpt EXCEPT ![o] = [m.dpt[o] EXCEPT ![p] = 0]]
           v == [m EXCEPT !.diskFree = s]
           r == pf_remove_env_page(m, o, p)
<1>1. m \in Memory
  BY DEF Sound
<1>2. m.dpt \in [Owners -> [Pages -> 0..NDisk]] /\ m.diskFree \in Seq(1..NDisk)
      /\ m.dpt[o] \in [Pages -> 0..NDisk]
  BY <1>1, Shapes
<1>3. CASE d = 0
  <2>1. r = m
    BY <1>3 DEF pf_remove_env_page
  <2> QED BY <1>3, <2>1 DEF Others
<1>4. CASE d # 0
  <2>1. d \in 1..NDisk /\ ~Occurs(m.diskFree, d) /\ Distinct(m.diskFree)
    <3>1. d \in 0..NDisk
      BY <1>2
    <3>2. d \in 1..NDisk
      BY <1>4, <3>1, Numbers
    <3> QED BY <1>4, <3>2 DEF Sound, Linked
  <2>2. /\ s \in Seq(1..NDisk) /\ Distinct(s)
        /\ \A e : Occurs(s, e) <=> Occurs(m.diskFree, e) \/ e = d
    <3>1. <<d>> \in Seq(1..NDisk) /\ Distinct(<<d>>) /\ \A e : Occurs(<<d>>, e) <=> e = d
      BY <2>1 DEF Distinct, Occurs
    <3>2. \A e \in 1..NDisk : ~(Occurs(<<d>>, e) /\ Occurs(m.diskFree, e))
      BY <2>1, <3>1
    <3>3. /\ <<d>> \o m.diskFree \in Seq(1..NDisk)
          /\ \A e : Occurs(<<d>> \o m.diskFree, e) <=> Occurs(<<d>>, e) \/ Occurs(m.diskFree, e)
          /\ Distinct(<<d>> \o m.diskFree)
      <4> DEFINE a == <<d>>
                 b == m.diskFree
                 T == 1..NDisk
      <4>1. /\ a \in Seq(T) /\ b \in Seq(T) /\ Distinct(a) /\ Distinct(b)
            /\ \A e \in T : ~(Occurs(a, e) /\ Occurs(b, e))
        BY <1>2, <2>1, <3>1, <3>2
      <4> HIDE DEF a, b, T
      <4>2. /\ a \o b \in Seq(T) /\ Distinct(a \o b)
            /\ \A e : Occurs(a \o b, e) <=> Occurs(a, e) \/ Occurs(b, e)
        BY <4>1, OccursConcat
      <4> QED BY <4>2 DEF a, b, T
    <3> QED BY <3>1, <3>3
  <2>3. /\ t \in [Owners -> [Pages -> 0..NDisk]] /\ t[o][p] = 0
        /\ \A u \in Owners, q \in Pages : <<u, q>> # <<o, p>> => t[u][q] = m.dpt[u][q]
        /\ \A u \in Owners : u # o => t[u] = m.dpt[u]
    <3> DEFINE row == [m.dpt[o] EXCEPT ![p] = 0]
    <3>1. /\ row \in [Pages -> 0..NDisk] /\ row[p] = 0
          /\ \A q \in Pages : q # p => row[q] = m.dpt[o][q]
      BY <1>2, Numbers
    <3>2. t = [m.dpt EXCEPT ![o] = row]
      OBVIOUS
    <3> HIDE DEF row, t
    <3>3. t \in [Owners -> [Pages -> 0..NDisk]] /\ t[o] = row
          /\ \A u \in Owners : u # o => t[u] = m.dpt[u]
      BY <1>2, <3>1, <3>2
    <3> QED BY <3>1, <3>3
  <2>4. r = [v EXCEPT !.dpt = t]
    BY <1>1, <1>2, <1>4 DEF pf_remove_env_page, Memory
  <2>5. d = m.dpt[o][p]
    OBVIOUS
  <2> HIDE DEF d, s, t, v, r
  <2>6. /\ v \in Memory /\ v.dpt = m.dpt /\ v.free = m.free /\ v.heap = m.heap /\ v.ws = m.ws
        /\ v.pt = m.pt /\ v.dirty = m.dirty /\ v.diskFree = s /\ v.disk = m.disk
        /\ v.lost = m.lost /\ v.ok = m.ok
    <3>1. Assigned(v, m, "diskFree", s)
      BY <1>1, <2>2, Put_diskFree DEF v
    <3> QED BY <1>1, <2>2, <3>1 DEF Assigned
  <2>7. /\ r \in Memory /\ r.dpt = t /\ r.free = v.free /\ r.heap = v.heap /\ r.ws = v.ws
        /\ r.pt = v.pt /\ r.dirty = v.dirty /\ r.diskFree = v.diskFree /\ r.disk = v.disk
        /\ r.lost = v.lost /\ r.ok = v.ok
    <3>1. Assigned(r, v, "dpt", t)
      BY <2>3, <2>4, <2>6, Put_dpt
    <3> QED BY <2>3, <2>4, <2>6, <3>1 DEF Assigned
  <2>8. Counted(r, k)
    <3>1. MappedIn(r) = MappedIn(m)
      BY <2>6, <2>7 DEF MappedIn
    <3> QED BY <2>6, <2>7, <3>1 DEF Sound, Counted
  <2>9. /\ \A u \in Owners, q \in Pages : m.dpt[u][q] # 0 => ~Occurs(m.diskFree, m.dpt[u][q])
        /\ \A u, a \in Owners : \A q, b \in Pages :
             m.dpt[u][q] # 0 /\ m.dpt[u][q] = m.dpt[a][b] => u = a /\ q = b
    BY DEF Sound, Linked
  <2>10. ASSUME NEW u \in Owners, NEW q \in Pages, t[u][q] # 0
         PROVE  t[u][q] = m.dpt[u][q] /\ <<u, q>> # <<o, p>> /\ t[u][q] # d
    <3>1. <<u, q>> # <<o, p>>
      BY <2>3, <2>10
    <3>2. t[u][q] = m.dpt[u][q]
      BY <2>3, <3>1
    <3>3. ASSUME t[u][q] = d PROVE FALSE
      <4>1. m.dpt[u][q] # 0 /\ m.dpt[u][q] = m.dpt[o][p]
        BY <2>5, <2>10, <3>2, <3>3
      <4>2. u = o /\ q = p
        BY <2>9, <4>1
      <4> QED BY <3>1, <4>2
    <3> QED BY <3>1, <3>2, <3>3
  <2>11. Linked(r)
    <3>1. ASSUME NEW u \in Owners, NEW q \in Pages, t[u][q] # 0 PROVE ~Occurs(s, t[u][q])
      BY <2>2, <2>9, <2>10, <3>1
    <3>2. ASSUME NEW u \in Owners, NEW a \in Owners, NEW q \in Pages, NEW b \in Pages,
                 t[u][q] # 0, t[u][q] = t[a][b]
          PROVE  u = a /\ q = b
      <4>1. t[u][q] = m.dpt[u][q] /\ t[a][b] = m.dpt[a][b]
        BY <2>10, <3>2
      <4>2. m.dpt[u][q] # 0 /\ m.dpt[u][q] = m.dpt[a][b]
        BY <3>2, <4>1
      <4> QED BY <2>9, <4>2
    <3>3. ASSUME NEW e \in 1..NDisk
          PROVE  Occurs(s, e) \/ \E u \in Owners, q \in Pages : t[u][q] = e
      <4>1. CASE Occurs(m.diskFree, e) \/ e = d
        BY <2>2, <4>1
      <4>2. CASE ~Occurs(m.diskFree, e) /\ e # d
        <5>1. PICK u \in Owners, q \in Pages : m.dpt[u][q] = e
          BY <4>2 DEF Sound, Linked
        <5>2. <<u, q>> # <<o, p>>
          BY <2>5, <4>2, <5>1
        <5> QED BY <2>3, <5>1, <5>2
      <4> QED BY <4>1, <4>2
    <3> QED BY <2>2, <2>6, <2>7, <3>1, <3>2, <3>3 DEF Linked
  <2>12. Written(r)
    <3> SUFFICES ASSUME NEW u \in Owners, NEW q \in Pages, t[u][q] # 0
                 PROVE  m.disk[t[u][q]] = <<u, q>>
      BY <2>6, <2>7 DEF Written
    <3>1. t[u][q] = m.dpt[u][q]
      BY <2>10
    <3> QED BY <3>1 DEF Sound, Written
  <2>13. Others(m, r, o)
    BY <2>3, <2>6, <2>7 DEF Others, Clean
  <2>14. ASSUME NEW q \in Pages, m.dpt[o][q] = 0 PROVE r.dpt[o][q] = 0
    <3>1. CASE q = p
      BY <2>3, <2>7, <3>1
    <3>2. CASE q # p
      <4>1. t[o][q] = m.dpt[o][q]
        BY <2>3, <3>2
      <4> QED BY <2>7, <2>14, <4>1
    <3> QED BY <3>1, <3>2
  <2> QED BY <2>3, <2>6, <2>7, <2>8, <2>11, <2>12, <2>13, <2>14 DEF Sound, r
<1> QED BY <1>3, <1>4

----------------------------------------------------------------------------
(* What env_free gives back at once.                                       *)

(* A finite set without one of its parts.                                  *)
LEMMA Parted ==
  ASSUME NEW U, IsFiniteSet(U), NEW T \in SUBSET U
  PROVE  /\ IsFiniteSet(T) /\ IsFiniteSet(U \ T)
         /\ Cardinality(T) \in Nat /\ Cardinality(U \ T) \in Nat
         /\ Cardinality(U) = Cardinality(U \ T) + Cardinality(T)
<1>1. IsFiniteSet(T)
  BY FS_Subset
<1>2. IsFiniteSet(U \ T) /\ Cardinality(U \ T) = Cardinality(U) - Cardinality(U \cap T)
  BY FS_Difference
<1>3. U \cap T = T
  OBVIOUS
<1>4. Cardinality(U) \in Nat /\ Cardinality(T) \in Nat /\ Cardinality(U \ T) \in Nat
  BY <1>1, <1>2, FS_CardinalityType
<1>5. Cardinality(U \ T) = Cardinality(U) - Cardinality(T)
  BY <1>2, <1>3
<1> QED BY <1>1, <1>2, <1>4, <1>5

(* Pages of the kernel heap.                                               *)
Released(m, gone) == [m EXCEPT !.heap = m.heap \ gone, !.free = m.free + Cardinality(gone)]

LEMMA ReleaseStep ==
  ASSUME NEW k \in Nat, NEW m, Sound(m, k), NEW o \in Owners,
         NEW gone \in SUBSET m.heap, \A h \in gone : h[1] = o
  PROVE  LET r == Released(m, gone)
         IN  /\ Sound(r, k) /\ Others(m, r, o)
             /\ r.heap = m.heap \ gone /\ r.ws = m.ws /\ r.pt = m.pt /\ r.dirty = m.dirty
             /\ r.dpt = m.dpt /\ r.diskFree = m.diskFree /\ r.disk = m.disk /\ r.lost = m.lost
             /\ r.ok = m.ok
<1> DEFINE c == Cardinality(gone)
           v == [m EXCEPT !.heap = m.heap \ gone]
           r == Released(m, gone)
<1>1. m \in Memory /\ m.heap \in SUBSET Structures
  BY Shapes DEF Sound
<1>2. /\ m.free + Cardinality(m.heap) + Cardinality(MappedIn(m)) + m.lost = k
      /\ m.free \in Nat /\ m.lost \in Nat /\ IsFiniteSet(m.heap) /\ Cardinality(m.heap) \in Nat
      /\ IsFiniteSet(MappedIn(m)) /\ Cardinality(MappedIn(m)) \in Nat
  BY FinitePages
<1>3. /\ c \in Nat /\ IsFiniteSet(m.heap \ gone) /\ Cardinality(m.heap \ gone) \in Nat
      /\ Cardinality(m.heap) = Cardinality(m.heap \ gone) + c
  BY <1>2, Parted DEF c
<1>4. r = [v EXCEPT !.free = m.free + c]
  BY DEF Released
<1>5. m.free + c \in Nat /\ m.heap \ gone \in SUBSET Structures
  BY <1>1, <1>2, <1>3
<1> HIDE DEF c, v
<1>6. /\ v \in Memory /\ v.heap = m.heap \ gone /\ v.free = m.free /\ v.ws = m.ws /\ v.pt = m.pt
      /\ v.dirty = m.dirty /\ v.dpt = m.dpt /\ v.diskFree = m.diskFree /\ v.disk = m.disk
      /\ v.lost = m.lost /\ v.ok = m.ok
  <2>1. Assigned(v, m, "heap", m.heap \ gone)
    BY <1>1, <1>5, Put_heap DEF v
  <2> QED BY <1>1, <1>5, <2>1 DEF Assigned
<1> HIDE DEF r
<1>7. /\ r \in Memory /\ r.heap = m.heap \ gone /\ r.free = m.free + c /\ r.ws = m.ws /\ r.pt = m.pt
      /\ r.dirty = m.dirty /\ r.dpt = m.dpt /\ r.diskFree = m.diskFree /\ r.disk = m.disk
      /\ r.lost = m.lost /\ r.ok = m.ok
  <2>1. Assigned(r, v, "free", m.free + c)
    BY <1>4, <1>5, <1>6, Put_free
  <2> QED BY <1>4, <1>5, <1>6, <2>1 DEF Assigned
<1>8. MappedIn(r) = MappedIn(m)
  BY <1>7 DEF MappedIn
<1>9. Counted(r, k)
  BY <1>2, <1>3, <1>7, <1>8 DEF Counted
<1>10. Linked(r) /\ Written(r)
  BY <1>7, SameFile
<1>11. Others(m, r, o)
  BY <1>7 DEF Others, Clean
<1> QED BY <1>7, <1>9, <1>10, <1>11 DEF Sound, r, c
(* The pages that are still mapped are lost with their tables.             *)
Forgotten(m, o) ==
  [m EXCEPT !.lost = m.lost + Cardinality(m.pt[o]),
            !.pt = [m.pt EXCEPT ![o] = {}], !.dirty = [m.dirty EXCEPT ![o] = {}]]

LEMMA LoseStep ==
  ASSUME NEW k \in Nat, NEW m, Sound(m, k), NEW o \in Owners
  PROVE  LET r == Forgotten(m, o)
         IN  /\ Sound(r, k) /\ Others(m, r, o)
             /\ r.pt[o] = {} /\ r.ws = m.ws /\ r.dpt = m.dpt /\ r.heap = m.heap /\ r.free = m.free
             /\ r.ok = m.ok
<1> DEFINE n == Cardinality(m.pt[o])
           t == [m.pt EXCEPT ![o] = {}]
           d == [m.dirty EXCEPT ![o] = {}]
           v == [m EXCEPT !.lost = m.lost + n]
           w == [v EXCEPT !.pt = t]
           r == Forgotten(m, o)
           M == MappedIn(m)
           T == {x \in M : x[1] = o}
<1>1. m \in Memory /\ m.pt \in [Owners -> SUBSET Pages] /\ m.dirty \in [Owners -> SUBSET Pages]
  BY Shapes DEF Sound
<1>2. /\ m.free + Cardinality(m.heap) + Cardinality(M) + m.lost = k
      /\ m.free \in Nat /\ m.lost \in Nat /\ IsFiniteSet(m.heap) /\ Cardinality(m.heap) \in Nat
      /\ IsFiniteSet(M) /\ Cardinality(M) \in Nat
  BY FinitePages
<1>3. /\ IsFiniteSet(T) /\ IsFiniteSet(M \ T) /\ Cardinality(T) \in Nat
      /\ Cardinality(M \ T) \in Nat /\ Cardinality(M) = Cardinality(M \ T) + Cardinality(T)
  BY <1>2, Parted
<1>4. n = Cardinality(T)
  <2> DEFINE f == [x \in T |-> x[2]]
  <2>1. f \in Bijection(T, m.pt[o])
    <3>1. \A x \in T : x = <<o, x[2]>> /\ x[2] \in m.pt[o]
      BY DEF MappedIn
    <3>2. \A p \in m.pt[o] : <<o, p>> \in T /\ f[<<o, p>>] = p
      BY <1>1 DEF MappedIn
    <3>3. f \in [T -> m.pt[o]]
      BY <3>1
    <3>4. \A x, y \in T : f[x] = f[y] => x = y
      BY <3>1
    <3> HIDE DEF f, T
    <3>5. f \in Injection(T, m.pt[o])
      BY <3>3, <3>4 DEF Injection, IsInjective
    <3>6. f \in Surjection(T, m.pt[o])
      BY <3>2, <3>3 DEF Surjection
    <3> QED BY <3>5, <3>6 DEF Bijection
  <2> HIDE DEF f, T
  <2>2. ExistsBijection(T, m.pt[o])
    BY <2>1 DEF ExistsBijection
  <2> QED BY <1>3, <2>2, FS_Bijection DEF n
<1>5. r = [w EXCEPT !.dirty = d]
  BY DEF Forgotten
<1>6. /\ t \in [Owners -> SUBSET Pages] /\ t[o] = {} /\ \A u \in Owners \ {o} : t[u] = m.pt[u]
      /\ d \in [Owners -> SUBSET Pages] /\ m.lost + n \in Nat
  BY <1>1, <1>2, <1>3, <1>4
<1> HIDE DEF n, t, d, v, w, r
<1>7. /\ v \in Memory /\ v.lost = m.lost + n /\ v.free = m.free /\ v.heap = m.heap /\ v.ws = m.ws
      /\ v.pt = m.pt /\ v.dirty = m.dirty /\ v.dpt = m.dpt /\ v.diskFree = m.diskFree
      /\ v.disk = m.disk /\ v.ok = m.ok
  <2>1. Assigned(v, m, "lost", m.lost + n)
    BY <1>1, <1>6, Put_lost DEF v
  <2> QED BY <1>1, <1>6, <2>1 DEF Assigned
<1>8. /\ w \in Memory /\ w.pt = t /\ w.lost = v.lost /\ w.free = v.free /\ w.heap = v.heap
      /\ w.ws = v.ws /\ w.dirty = v.dirty /\ w.dpt = v.dpt /\ w.diskFree = v.diskFree
      /\ w.disk = v.disk /\ w.ok = v.ok
  <2>1. Assigned(w, v, "pt", t)
    BY <1>6, <1>7, Put_pt DEF w
  <2> QED BY <1>6, <1>7, <2>1 DEF Assigned
<1>9. /\ r \in Memory /\ r.pt = t /\ r.lost = m.lost + n /\ r.free = m.free /\ r.heap = m.heap
      /\ r.ws = m.ws /\ r.dpt = m.dpt /\ r.diskFree = m.diskFree
      /\ r.disk = m.disk /\ r.ok = m.ok
  <2>1. Assigned(r, w, "dirty", d)
    BY <1>5, <1>6, <1>7, <1>8, Put_dirty
  <2> QED BY <1>5, <1>6, <1>7, <1>8, <2>1 DEF Assigned
<1>10. MappedIn(r) = M \ T
  <2>1. ASSUME NEW u \in Owners, NEW p \in Pages
        PROVE  p \in r.pt[u] <=> p \in m.pt[u] /\ u # o
    BY <1>6, <1>9
  <2> QED BY <2>1 DEF MappedIn
<1>11. Counted(r, k)
  <2> HIDE DEF M, T
  <2>1. Cardinality(MappedIn(r)) = Cardinality(M \ T) /\ IsFiniteSet(MappedIn(r))
    BY <1>3, <1>10
  <2> QED BY <1>2, <1>3, <1>4, <1>9, <2>1 DEF Counted
<1>12. Linked(r) /\ Written(r)
  BY <1>9, SameFile
<1>13. Others(m, r, o)
  BY <1>6, <1>9 DEF Others, Clean
<1> QED BY <1>6, <1>9, <1>11, <1>12, <1>13 DEF Sound, r, n, t, d
----------------------------------------------------------------------------
(* Loops.                                                                  *)

(* The pages of the kernel stack.                                          *)
LEMMA KernStackStep ==
  ASSUME NEW k \in Nat, NEW m, Sound(m, k), NEW o \in Owners,
         \A i \in Nat : <<o, "kstack", i>> \notin m.heap
  PROVE  LET r == create_user_kern_stack(m, o)
         IN  Sound(r, k) /\ Others(m, r, o) /\ r.pt = m.pt /\ r.ws = m.ws
<1> DEFINE n == KStackPages
           s == [i \in 1..n |-> i]
           step(a, i) == kmalloc(a, o, "kstack", i)
           Q == [i \in 0..n |-> {a \in Memory :
                  /\ Sound(a, k) /\ Others(m, a, o) /\ a.pt = m.pt /\ a.ws = m.ws
                  /\ \A j \in Nat : j > i => <<o, "kstack", j>> \notin a.heap}]
           G == [i \in 1..n |-> [a \in Memory |-> step(a, s[i])]]
           after == CHOOSE f : f = [i \in 0..n |-> IF i = 0 THEN m ELSE step(f[i - 1], s[i])]
           r == create_user_kern_stack(m, o)
<1>1. n \in Nat /\ Len(s) = n
  BY Numbers
<1>2. r = after[n]
  BY <1>1 DEF create_user_kern_stack, Each
<1>3. Q \in [0..n -> SUBSET Memory]
  OBVIOUS
<1>4. m \in Q[0]
  BY <1>1 DEF Sound, Others
<1>5. ASSUME NEW i \in 1..n, NEW a \in Q[i - 1] PROVE G[i][a] \in Q[i]
  <2>1. /\ i \in Nat /\ i - 1 \in 0..n /\ i \in 0..n /\ i > i - 1
        /\ \A j \in Nat : j > i => j > i - 1 /\ j # i
    BY <1>1
  <2>2. /\ a \in Memory /\ Sound(a, k) /\ Others(m, a, o) /\ a.pt = m.pt /\ a.ws = m.ws
        /\ \A j \in Nat : j > i - 1 => <<o, "kstack", j>> \notin a.heap
    BY <2>1
  <2>3. G[i][a] = step(a, i)
    BY <2>2
  <2> DEFINE c == step(a, i)
  <2>4. <<o, "kstack", i>> \notin a.heap
    BY <2>1, <2>2
  <2>5. /\ Sound(c, k) /\ Pagewise(a, c) /\ Others(a, c, o)
        /\ c.heap \subseteq a.heap \cup {<<o, "kstack", i>>}
    BY <2>1, <2>2, <2>4, KmallocStep DEF Kinds
  <2> HIDE DEF c, G
  <2>6. c \in Memory /\ Others(m, c, o) /\ c.pt = m.pt /\ c.ws = m.ws
    BY <2>2, <2>5 DEF Sound, Pagewise, Others
  <2>7. ASSUME NEW j \in Nat, j > i PROVE <<o, "kstack", j>> \notin c.heap
    BY <2>1, <2>2, <2>5, <2>7
  <2>8. c \in Q[i]
    BY <2>1, <2>5, <2>6, <2>7
  <2> QED BY <2>3, <2>8 DEF c
<1> HIDE DEF Q
<1>6. /\ \E f \in [0..n -> Memory] : f[0] = m /\ \A i \in 1..n : f[i] = G[i][f[i - 1]]
      /\ \A f : (/\ f[0] = m
                 /\ \A i \in 1..n : f[i - 1] \in Memory => f[i] = G[i][f[i - 1]])
                => f[n] \in Q[n]
  <2>1. n \in Nat /\ \A i \in 1..n : \A a \in Q[i - 1] : G[i][a] \in Q[i]
    BY <1>1, <1>5
  <2> HIDE DEF G, n, after, r, s
  <2>2. Leads(n, Memory, Q, G, m)
    BY <1>3, <1>4, <2>1 DEF Leads
  <2> QED BY <2>2, Chain
<1>7. after = [i \in 0..n |-> IF i = 0 THEN m ELSE step(after[i - 1], s[i])]
  <2>1. PICK f \in [0..n -> Memory] : f[0] = m /\ \A i \in 1..n : f[i] = G[i][f[i - 1]]
    BY <1>6
  <2>2. ASSUME NEW i \in 0..n PROVE f[i] = IF i = 0 THEN m ELSE step(f[i - 1], s[i])
    <3>1. CASE i = 0
      BY <2>1, <3>1
    <3>2. CASE i # 0
      <4>1. i \in 1..n /\ i - 1 \in 0..n
        BY <1>1, <3>2
      <4>2. f[i - 1] \in Memory
        BY <4>1
      <4> QED BY <2>1, <3>2, <4>1, <4>2
    <3> QED BY <3>1, <3>2
  <2> HIDE DEF G, s, step
  <2>3. f = [i \in 0..n |-> IF i = 0 THEN m ELSE step(f[i - 1], s[i])]
    BY <2>2
  <2> QED BY <2>3
<1>8. after[0] = m /\ \A i \in 1..n : after[i - 1] \in Memory => after[i] = G[i][after[i - 1]]
  <2>1. ASSUME NEW i \in 1..n, after[i - 1] \in Memory PROVE after[i] = G[i][after[i - 1]]
    <3>1. i \in 0..n /\ i # 0
      BY <1>1
    <3>2. after[i] = step(after[i - 1], s[i])
      <4> HIDE DEF step, s, after, G
      <4> QED BY <1>7, <3>1
    <3> HIDE DEF after, step, s
    <3> QED BY <2>1, <3>2
  <2>2. after[0] = m
    <3> HIDE DEF step, s, after, G
    <3> QED BY <1>1, <1>7
  <2> QED BY <2>1, <2>2
<1>9. r \in Q[n]
  <2> HIDE DEF after, G, n, r
  <2> QED BY <1>2, <1>6, <1>8
<1> QED BY <1>1, <1>9 DEF Q
(* Every page of the working set is unmapped, and the list is freed.       *)
LEMMA WorkingSetStep ==
  ASSUME NEW k \in Nat, NEW m, Sound(m, k), NEW o \in Owners
  PROVE  LET r == WorkingSet(m, o)
         IN  Sound(r, k) /\ Others(m, r, o) /\ r.ws[o] = <<>> /\ r.ok = m.ok
<1> DEFINE s == m.ws[o]
           n == Len(s)
           step(a, p) == Unmap(a, o, p)
           Q == [i \in 0..n |-> {a \in Memory : Sound(a, k) /\ Others(m, a, o) /\ a.ok = m.ok}]
           G == [i \in 1..n |-> [a \in Memory |-> step(a, s[i])]]
           after == CHOOSE f : f = [i \in 0..n |-> IF i = 0 THEN m ELSE step(f[i - 1], s[i])]
           r == WorkingSet(m, o)
<1>1. n \in Nat /\ s \in Seq(Pages) /\ \A i \in 1..n : s[i] \in Pages
  <2>1. s \in Seq(Pages)
    BY Shapes DEF Sound
  <2> HIDE DEF s
  <2> QED BY <2>1
<1>2. r = [after[n] EXCEPT !.ws[o] = <<>>]
  BY DEF WorkingSet, Each
<1>3. Q \in [0..n -> SUBSET Memory]
  OBVIOUS
<1>4. m \in Q[0]
  BY <1>1 DEF Sound, Others
<1>5. ASSUME NEW i \in 1..n, NEW a \in Q[i - 1] PROVE G[i][a] \in Q[i]
  <2>1. i - 1 \in 0..n /\ i \in 0..n
    BY <1>1
  <2>2. a \in Memory /\ Sound(a, k) /\ Others(m, a, o) /\ a.ok = m.ok
    BY <2>1
  <2> DEFINE c == step(a, s[i])
  <2>3. G[i][a] = c
    BY <2>2
  <2>4. Sound(c, k) /\ Others(a, c, o) /\ c.ok = a.ok
    <3>1. s[i] \in Pages
      BY <1>1
    <3> HIDE DEF s
    <3> QED BY <2>2, <3>1, UnmapStep
  <2> HIDE DEF c, G
  <2>5. c \in Memory /\ Others(m, c, o)
    BY <2>2, <2>4 DEF Sound, Others
  <2> QED BY <2>1, <2>2, <2>3, <2>4, <2>5
<1> HIDE DEF Q
<1>6. /\ \E f \in [0..n -> Memory] : f[0] = m /\ \A i \in 1..n : f[i] = G[i][f[i - 1]]
      /\ \A f : (/\ f[0] = m
                 /\ \A i \in 1..n : f[i - 1] \in Memory => f[i] = G[i][f[i - 1]])
                => f[n] \in Q[n]
  <2>1. n \in Nat /\ \A i \in 1..n : \A a \in Q[i - 1] : G[i][a] \in Q[i]
    BY <1>1, <1>5
  <2> HIDE DEF G, n, after, s
  <2>2. Leads(n, Memory, Q, G, m)
    BY <1>3, <1>4, <2>1 DEF Leads
  <2> QED BY <2>2, Chain
<1>7. after = [i \in 0..n |-> IF i = 0 THEN m ELSE step(after[i - 1], s[i])]
  <2>1. PICK f \in [0..n -> Memory] : f[0] = m /\ \A i \in 1..n : f[i] = G[i][f[i - 1]]
    BY <1>6
  <2>2. ASSUME NEW i \in 0..n PROVE f[i] = IF i = 0 THEN m ELSE step(f[i - 1], s[i])
    <3>1. CASE i = 0
      BY <2>1, <3>1
    <3>2. CASE i # 0
      <4>1. i \in 1..n /\ i - 1 \in 0..n
        BY <1>1, <3>2
      <4>2. f[i - 1] \in Memory
        BY <4>1
      <4> HIDE DEF step, s
      <4> QED BY <2>1, <3>2, <4>1, <4>2
    <3> QED BY <3>1, <3>2
  <2> HIDE DEF G, s, step
  <2>3. f = [i \in 0..n |-> IF i = 0 THEN m ELSE step(f[i - 1], s[i])]
    BY <2>2
  <2> QED BY <2>3
<1>8. after[0] = m /\ \A i \in 1..n : after[i - 1] \in Memory => after[i] = G[i][after[i - 1]]
  <2>1. ASSUME NEW i \in 1..n, after[i - 1] \in Memory PROVE after[i] = G[i][after[i - 1]]
    <3>1. i \in 0..n /\ i # 0
      BY <1>1
    <3>2. after[i] = step(after[i - 1], s[i])
      <4> HIDE DEF step, s, after, G
      <4> QED BY <1>7, <3>1
    <3> HIDE DEF after, step, s
    <3> QED BY <2>1, <3>2
  <2>2. after[0] = m
    <3> HIDE DEF step, s, after, G
    <3> QED BY <1>1, <1>7
  <2> QED BY <2>1, <2>2
<1>9. after[n] \in Q[n]
  <2> HIDE DEF after, G, n
  <2> QED BY <1>6, <1>8
<1> DEFINE w == after[n]
<1>10. Sound(w, k) /\ Others(m, w, o) /\ w.ok = m.ok
  <2> HIDE DEF after, n
  <2>1. n \in 0..n
    BY <1>1
  <2> QED BY <1>9, <2>1 DEF Q
<1> DEFINE t == [w.ws EXCEPT ![o] = <<>>]
<1>11. w \in Memory /\ w.ws \in [Owners -> Seq(Pages)] /\ <<>> \in Seq(Pages)
  BY <1>10, Shapes, OccursEmpty DEF Sound
<1>12. t \in [Owners -> Seq(Pages)] /\ t[o] = <<>> /\ \A u \in Owners \ {o} : t[u] = w.ws[u]
  <2> HIDE DEF w
  <2> QED BY <1>11
<1>13. r = [w EXCEPT !.ws = t]
  <2> HIDE DEF r, after, n
  <2> QED BY <1>2, <1>11 DEF Memory
<1> HIDE DEF t, w, r
<1>14. /\ r \in Memory /\ r.ws = t /\ r.free = w.free /\ r.heap = w.heap /\ r.pt = w.pt
       /\ r.dirty = w.dirty /\ r.dpt = w.dpt /\ r.diskFree = w.diskFree /\ r.disk = w.disk
       /\ r.lost = w.lost /\ r.ok = w.ok
  <2>1. Assigned(r, w, "ws", t)
    BY <1>11, <1>12, <1>13, Put_ws
  <2> QED BY <1>11, <1>12, <1>13, <2>1 DEF Assigned
<1>15. Sound(r, k)
  BY <1>10, <1>14, SoundSame
<1>16. Others(m, r, o)
  BY <1>10, <1>12, <1>14 DEF Others, Clean
<1> QED BY <1>10, <1>12, <1>14, <1>15, <1>16 DEF r
(* Every disk frame goes back, and the tables of the page file.            *)
LEMMA FreeFileStep ==
  ASSUME NEW k \in Nat, NEW m, Sound(m, k), NEW o \in Owners
  PROVE  LET r == pf_free_env(m, o)
         IN  /\ Sound(r, k) /\ Others(m, r, o) /\ r.ok = m.ok
             /\ r.ws = m.ws /\ r.pt = m.pt /\ \A p \in Pages : r.dpt[o][p] = 0
             /\ r.heap = m.heap \ {h \in m.heap : h[1] = o /\ h[2] \in {"disktable", "diskdir"}}
<1> DEFINE s == [p \in Pages |-> p]
           n == LastPage
           step(a, p) == pf_remove_env_page(a, o, p)
           Q == [i \in 0..n |-> {a \in Memory :
                  /\ Sound(a, k) /\ Others(m, a, o) /\ a.ok = m.ok
                  /\ a.ws = m.ws /\ a.pt = m.pt /\ a.heap = m.heap
                  /\ \A p \in Pages : p <= i => a.dpt[o][p] = 0}]
           G == [i \in 1..n |-> [a \in Memory |-> step(a, s[i])]]
           after == CHOOSE f : f = [i \in 0..n |-> IF i = 0 THEN m ELSE step(f[i - 1], s[i])]
           w == after[n]
           gone == {h \in w.heap : h[1] = o /\ h[2] \in {"disktable", "diskdir"}}
           r == pf_free_env(m, o)
<1>1. n \in Nat /\ Len(s) = n /\ Pages = 1..n /\ \A i \in 1..n : s[i] = i /\ i \in Pages
  BY Numbers DEF Pages
<1>2. r = Released(w, gone)
  <2>1. r = LET x == Each(LAMBDA a, p : pf_remove_env_page(a, o, p), m, s)
                g == {h \in x.heap : h[1] = o /\ h[2] \in {"disktable", "diskdir"}}
            IN  [x EXCEPT !.heap = @ \ g, !.free = @ + Cardinality(g)]
    BY DEF pf_free_env
  <2>2. Each(LAMBDA a, p : pf_remove_env_page(a, o, p), m, s) = w
    BY <1>1 DEF Each
  <2> QED BY <2>1, <2>2 DEF Released
<1>3. Q \in [0..n -> SUBSET Memory]
  OBVIOUS
<1>4. m \in Q[0]
  <2>1. \A p \in Pages : ~(p <= 0)
    BY <1>1
  <2> QED BY <1>1, <2>1 DEF Sound, Others
<1>5. ASSUME NEW i \in 1..n, NEW a \in Q[i - 1] PROVE G[i][a] \in Q[i]
  <2>1. i \in Pages /\ i \in Nat /\ i - 1 \in 0..n /\ i \in 0..n /\ s[i] = i
    BY <1>1
  <2>2. /\ a \in Memory /\ Sound(a, k) /\ Others(m, a, o) /\ a.ok = m.ok
        /\ a.ws = m.ws /\ a.pt = m.pt /\ a.heap = m.heap
        /\ \A p \in Pages : p <= i - 1 => a.dpt[o][p] = 0
    BY <2>1
  <2> DEFINE c == step(a, i)
  <2>3. G[i][a] = c
    BY <2>1, <2>2
  <2>4. /\ Sound(c, k) /\ Others(a, c, o) /\ c.heap = a.heap /\ c.ws = a.ws /\ c.pt = a.pt
        /\ c.ok = a.ok /\ c.dpt[o][i] = 0
        /\ \A q \in Pages : a.dpt[o][q] = 0 => c.dpt[o][q] = 0
    BY <2>1, <2>2, RemoveStep
  <2> HIDE DEF c, G
  <2>5. c \in Memory /\ Others(m, c, o)
    BY <2>2, <2>4 DEF Sound, Others
  <2>6. ASSUME NEW p \in Pages, p <= i PROVE c.dpt[o][p] = 0
    <3>1. p = i \/ p <= i - 1
      BY <1>1, <2>1, <2>6
    <3> QED BY <2>2, <2>4, <3>1
  <2> QED BY <2>1, <2>2, <2>3, <2>4, <2>5, <2>6
<1> HIDE DEF Q
<1>6. /\ \E f \in [0..n -> Memory] : f[0] = m /\ \A i \in 1..n : f[i] = G[i][f[i - 1]]
      /\ \A f : (/\ f[0] = m
                 /\ \A i \in 1..n : f[i - 1] \in Memory => f[i] = G[i][f[i - 1]])
                => f[n] \in Q[n]
  <2>1. n \in Nat /\ \A i \in 1..n : \A a \in Q[i - 1] : G[i][a] \in Q[i]
    BY <1>1, <1>5
  <2> HIDE DEF G, n, after, s
  <2>2. Leads(n, Memory, Q, G, m)
    BY <1>3, <1>4, <2>1 DEF Leads
  <2> QED BY <2>2, Chain
<1>7. after = [i \in 0..n |-> IF i = 0 THEN m ELSE step(after[i - 1], s[i])]
  <2>1. PICK f \in [0..n -> Memory] : f[0] = m /\ \A i \in 1..n : f[i] = G[i][f[i - 1]]
    BY <1>6
  <2>2. ASSUME NEW i \in 0..n PROVE f[i] = IF i = 0 THEN m ELSE step(f[i - 1], s[i])
    <3>1. CASE i = 0
      BY <2>1, <3>1
    <3>2. CASE i # 0
      <4>1. i \in 1..n /\ i - 1 \in 0..n
        BY <1>1, <3>2
      <4>2. f[i - 1] \in Memory
        BY <4>1
      <4> HIDE DEF step, s
      <4> QED BY <2>1, <3>2, <4>1, <4>2
    <3> QED BY <3>1, <3>2
  <2> HIDE DEF G, s, step
  <2>3. f = [i \in 0..n |-> IF i = 0 THEN m ELSE step(f[i - 1], s[i])]
    BY <2>2
  <2> QED BY <2>3
<1>8. after[0] = m /\ \A i \in 1..n : after[i - 1] \in Memory => after[i] = G[i][after[i - 1]]
  <2>1. ASSUME NEW i \in 1..n, after[i - 1] \in Memory PROVE after[i] = G[i][after[i - 1]]
    <3>1. i \in 0..n /\ i # 0
      BY <1>1
    <3>2. after[i] = step(after[i - 1], s[i])
      <4> HIDE DEF step, s, after, G
      <4> QED BY <1>7, <3>1
    <3> HIDE DEF after, step, s
    <3> QED BY <2>1, <3>2
  <2>2. after[0] = m
    <3> HIDE DEF step, s, after, G
    <3> QED BY <1>1, <1>7
  <2> QED BY <2>1, <2>2
<1>9. after[n] \in Q[n]
  <2> HIDE DEF after, G, n
  <2> QED BY <1>6, <1>8
<1>10. /\ Sound(w, k) /\ Others(m, w, o) /\ w.ok = m.ok
       /\ w.ws = m.ws /\ w.pt = m.pt /\ w.heap = m.heap
       /\ \A p \in Pages : w.dpt[o][p] = 0
  <2> HIDE DEF after
  <2>1. n \in 0..n /\ \A p \in Pages : p <= n
    BY <1>1
  <2> QED BY <1>9, <2>1 DEF Q
<1> HIDE DEF w, r
<1>11. /\ Sound(r, k) /\ Others(w, r, o) /\ r.heap = w.heap \ gone /\ r.ws = w.ws /\ r.pt = w.pt
       /\ r.dpt = w.dpt /\ r.ok = w.ok
  <2>1. gone \in SUBSET w.heap /\ \A h \in gone : h[1] = o
    OBVIOUS
  <2> HIDE DEF gone
  <2> QED BY <1>2, <1>10, <2>1, ReleaseStep
<1>12. Others(m, r, o)
  BY <1>10, <1>11 DEF Others
<1> QED BY <1>10, <1>11, <1>12 DEF r

(* env_free: nothing is left of the owner.                                 *)
LEMMA FreeStep ==
  ASSUME NEW k \in Nat, NEW m, Sound(m, k), NEW o \in Owners
  PROVE  LET r == pf_free_env(TablesAndDirectory(WorkingSet(m, o), o), o)
         IN  Sound(r, k) /\ Others(m, r, o) /\ r.ok = m.ok /\ Clean(r, o)
<1> DEFINE w == WorkingSet(m, o)
           gone == {h \in w.heap : h[1] = o /\ h[2] \in {"table", "dir", "kstack"}}
           v == Released(w, gone)
           t == TablesAndDirectory(w, o)
           r == pf_free_env(t, o)
<1>1. Sound(w, k) /\ Others(m, w, o) /\ w.ws[o] = <<>> /\ w.ok = m.ok
  BY WorkingSetStep
<1> HIDE DEF w
<1>2. /\ Sound(v, k) /\ Others(w, v, o) /\ v.heap = w.heap \ gone /\ v.ws = w.ws
      /\ v.pt = w.pt /\ v.dirty = w.dirty /\ v.lost = w.lost /\ v.ok = w.ok
  <2>1. gone \in SUBSET w.heap /\ \A h \in gone : h[1] = o
    OBVIOUS
  <2> HIDE DEF gone
  <2> QED BY <1>1, <2>1, ReleaseStep
<1>3. t = Forgotten(v, o)
  <2>1. w \in Memory
    BY <1>1 DEF Sound
  <2> QED BY <2>1 DEF TablesAndDirectory, Released, Forgotten, Memory
<1> HIDE DEF v, t
<1>4. /\ Sound(t, k) /\ Others(v, t, o) /\ t.pt[o] = {} /\ t.ws = v.ws /\ t.heap = v.heap
      /\ t.ok = v.ok
  BY <1>2, <1>3, LoseStep
<1>5. /\ Sound(r, k) /\ Others(t, r, o) /\ r.ok = t.ok
      /\ r.ws = t.ws /\ r.pt = t.pt /\ \A p \in Pages : r.dpt[o][p] = 0
      /\ r.heap = t.heap \ {h \in t.heap : h[1] = o /\ h[2] \in {"disktable", "diskdir"}}
  BY <1>4, FreeFileStep
<1> HIDE DEF r
<1>6. ASSUME NEW h \in r.heap, h[1] = o PROVE FALSE
  <2>1. h \in t.heap /\ h[2] \notin {"disktable", "diskdir"}
    BY <1>5, <1>6
  <2>2. h \in w.heap /\ h[2] \notin {"table", "dir", "kstack"}
    BY <1>2, <1>4, <1>6, <2>1
  <2>3. h[2] \in Kinds
    BY <1>1, <2>2, Shapes DEF Sound, Structures
  <2> QED BY <2>1, <2>2, <2>3 DEF Kinds
<1>7. Clean(r, o)
  BY <1>1, <1>2, <1>4, <1>5, <1>6 DEF Clean
<1>8. Others(m, r, o)
  BY <1>1, <1>2, <1>4, <1>5 DEF Others
<1> QED BY <1>1, <1>2, <1>4, <1>5, <1>7, <1>8 DEF r, t, w
----------------------------------------------------------------------------
(* Loading.                                                                *)

(* A working set element.                                                  *)
LEMMA ElementStep ==
  ASSUME NEW k \in Nat, NEW m, Sound(m, k), NEW o \in Owners, NEW p \in Pages
  PROVE  LET r == env_page_ws_list_create_element(m, o, p)
         IN  Sound(r, k) /\ Others(m, r, o) /\ r.pt = m.pt /\ r.ok = m.ok
<1> DEFINE t == [m.ws EXCEPT ![o] = Append(m.ws[o], p)]
           r == env_page_ws_list_create_element(m, o, p)
<1>1. m \in Memory /\ m.ws \in [Owners -> Seq(Pages)] /\ m.ws[o] \in Seq(Pages)
  BY Shapes DEF Sound
<1>2. CASE m.ok
  <2>1. r = [m EXCEPT !.ws = t]
    BY <1>1, <1>2 DEF env_page_ws_list_create_element, Memory
  <2>2. t \in [Owners -> Seq(Pages)] /\ \A u \in Owners \ {o} : t[u] = m.ws[u]
    <3>1. Append(m.ws[o], p) \in Seq(Pages)
      BY <1>1, OccursAppend
    <3> QED BY <1>1, <3>1
  <2> HIDE DEF t, r
  <2>3. /\ r \in Memory /\ r.ws = t /\ r.free = m.free /\ r.heap = m.heap /\ r.pt = m.pt
        /\ r.dirty = m.dirty /\ r.dpt = m.dpt /\ r.diskFree = m.diskFree /\ r.disk = m.disk
        /\ r.lost = m.lost /\ r.ok = m.ok
    <3>1. Assigned(r, m, "ws", t)
      BY <1>1, <2>1, <2>2, Put_ws
    <3> QED BY <1>1, <2>1, <2>2, <3>1 DEF Assigned
  <2>4. Sound(r, k)
    BY <2>3, SoundSame
  <2>5. Others(m, r, o)
    BY <2>2, <2>3 DEF Others, Clean
  <2> QED BY <2>3, <2>4, <2>5 DEF r
<1>3. CASE ~m.ok
  <2>1. r = m
    BY <1>3 DEF env_page_ws_list_create_element
  <2> QED BY <2>1 DEF Others
<1> QED BY <1>2, <1>3

(* A page that has none gets a frame and an element.                       *)
LEMMA MapElementStep ==
  ASSUME NEW k \in Nat, NEW m, Sound(m, k), NEW o \in Owners, NEW p \in Pages, p \notin m.pt[o]
  PROVE  LET r == env_page_ws_list_create_element(MapNew(m, o, p), o, p)
         IN  Sound(r, k) /\ Others(m, r, o) /\ r.pt[o] \subseteq m.pt[o] \cup {p} /\ (r.ok => m.ok)
<1> DEFINE w == MapNew(m, o, p)
           r == env_page_ws_list_create_element(w, o, p)
<1>1. Sound(w, k) /\ Others(m, w, o) /\ w.pt[o] \subseteq m.pt[o] \cup {p} /\ (w.ok => m.ok)
  BY MapStep
<1> HIDE DEF w
<1>2. Sound(r, k) /\ Others(w, r, o) /\ r.pt = w.pt /\ r.ok = w.ok
  BY <1>1, ElementStep
<1> HIDE DEF r
<1>3. Others(m, r, o)
  BY <1>1, <1>2 DEF Others
<1> QED BY <1>1, <1>2, <1>3 DEF r, w

(* The beginning of a sequence, or nothing.                                *)
LEMMA Beginning ==
  ASSUME NEW T, NEW s \in Seq(T), NEW j \in Int, j <= Len(s)
  PROVE  LET b == SubSeq(s, 1, j)
         IN  /\ b \in Seq(T) /\ Len(b) \in Nat /\ Len(b) <= Len(s)
             /\ \A i \in 1..Len(b) : b[i] = s[i]
<1> DEFINE b == SubSeq(s, 1, j)
           n == IF j < 0 THEN 0 ELSE j
<1>1. n \in Nat /\ n <= Len(s) /\ 1..(1 + j - 1) = 1..n
  OBVIOUS
<1>2. b = [i \in 1..n |-> s[i + 1 - 1]]
  BY <1>1
<1>3. \A i \in 1..n : i + 1 - 1 = i /\ i \in 1..Len(s) /\ s[i] \in T
  BY <1>1
<1> HIDE DEF n
<1>4. b = [i \in 1..n |-> s[i]]
  BY <1>2, <1>3
<1>5. b \in Seq(T) /\ Len(b) = n
  BY <1>1, <1>3, <1>4, IsASeq
<1> QED BY <1>1, <1>4, <1>5

(* No page of the segment is mapped.                                       *)
Fresh(m, o, seg) ==
  /\ seg \in Seq(Pages) /\ Distinct(seg)
  /\ \A i \in 1..Len(seg) : seg[i] \notin m.pt[o]

(* The first pages of a segment get frames and working set elements.       *)
LEMMA MapSegmentStep ==
  ASSUME NEW k \in Nat, NEW m, Sound(m, k), NEW o \in Owners, NEW seg, Fresh(m, o, seg),
         NEW room \in Int
  PROVE  LET r == program_segment_alloc_map_copy_workingset(m, o, seg, room)
         IN  /\ Sound(r, k) /\ Others(m, r, o) /\ (r.ok => m.ok)
             /\ \A p \in r.pt[o] : p \in m.pt[o] \/ Occurs(seg, p)
<1> DEFINE j == IF room < Len(seg) THEN room ELSE Len(seg)
           s == SubSeq(seg, 1, j)
           n == Len(s)
           step(a, p) == env_page_ws_list_create_element(MapNew(a, o, p), o, p)
           Q == [i \in 0..n |-> {a \in Memory :
                  /\ Sound(a, k) /\ Others(m, a, o) /\ (a.ok => m.ok)
                  /\ \A p \in a.pt[o] : p \in m.pt[o] \/ \E l \in 1..i : s[l] = p}]
           G == [i \in 1..n |-> [a \in Memory |-> step(a, s[i])]]
           after == CHOOSE f : f = [i \in 0..n |-> IF i = 0 THEN m ELSE step(f[i - 1], s[i])]
           r == program_segment_alloc_map_copy_workingset(m, o, seg, room)
<1>0. seg \in Seq(Pages) /\ Distinct(seg) /\ \A i \in 1..Len(seg) : seg[i] \notin m.pt[o]
  BY DEF Fresh
<1>1. /\ n \in Nat /\ n <= Len(seg) /\ Len(seg) \in Nat
      /\ \A i \in 1..n : s[i] \in Pages /\ s[i] = seg[i] /\ i \in 1..Len(seg)
  <2>1. j \in Int /\ j <= Len(seg) /\ Len(seg) \in Nat
    BY <1>0
  <2>2. s \in Seq(Pages) /\ n \in Nat /\ n <= Len(seg) /\ \A i \in 1..Len(s) : s[i] = seg[i]
    <3> HIDE DEF j
    <3> QED BY <1>0, <2>1, Beginning
  <2> HIDE DEF s, j
  <2> QED BY <2>1, <2>2
<1>2. r = after[n]
  BY DEF program_segment_alloc_map_copy_workingset, Each
<1>3. Q \in [0..n -> SUBSET Memory]
  OBVIOUS
<1>4. m \in Q[0]
  BY <1>1 DEF Sound, Others
<1>5. ASSUME NEW i \in 1..n, NEW a \in Q[i - 1] PROVE G[i][a] \in Q[i]
  <2>1. i - 1 \in 0..n /\ i \in 0..n /\ i \in 1..Len(seg) /\ s[i] \in Pages /\ s[i] = seg[i]
        /\ \A l \in 1..(i - 1) : l \in 1..n /\ l \in 1..i /\ l # i
    BY <1>1
  <2>2. /\ a \in Memory /\ Sound(a, k) /\ Others(m, a, o) /\ (a.ok => m.ok)
        /\ \A p \in a.pt[o] : p \in m.pt[o] \/ \E l \in 1..(i - 1) : s[l] = p
    BY <2>1
  <2> DEFINE c == step(a, s[i])
  <2>3. G[i][a] = c
    BY <2>2
  <2> HIDE DEF s, n, G, Q
  <2>4. s[i] \notin a.pt[o]
    <3> SUFFICES ASSUME s[i] \in a.pt[o] PROVE FALSE
      OBVIOUS
    <3>1. s[i] \notin m.pt[o]
      BY <1>0, <2>1
    <3>2. PICK l \in 1..(i - 1) : s[l] = s[i]
      BY <2>2, <3>1
    <3>3. l \in 1..Len(seg) /\ seg[l] = seg[i] /\ l # i
      BY <1>1, <2>1, <3>2
    <3>4. l \in DOMAIN seg /\ i \in DOMAIN seg
      BY <1>0, <2>1, <3>3
    <3> QED BY <1>0, <3>3, <3>4 DEF Distinct
  <2>5. Sound(c, k) /\ Others(a, c, o) /\ c.pt[o] \subseteq a.pt[o] \cup {s[i]} /\ (c.ok => a.ok)
    BY <2>1, <2>2, <2>4, MapElementStep
  <2> HIDE DEF c
  <2>6. c \in Memory /\ Others(m, c, o)
    BY <2>2, <2>5 DEF Sound, Others
  <2>7. ASSUME NEW p \in c.pt[o] PROVE p \in m.pt[o] \/ \E l \in 1..i : s[l] = p
    <3>1. i \in 1..i
      BY <2>1
    <3> QED BY <2>1, <2>2, <2>5, <3>1
  <2> QED BY <2>1, <2>2, <2>3, <2>5, <2>6, <2>7 DEF Q
<1> HIDE DEF Q
<1>6. /\ \E f \in [0..n -> Memory] : f[0] = m /\ \A i \in 1..n : f[i] = G[i][f[i - 1]]
      /\ \A f : (/\ f[0] = m
                 /\ \A i \in 1..n : f[i - 1] \in Memory => f[i] = G[i][f[i - 1]])
                => f[n] \in Q[n]
  <2>1. n \in Nat /\ \A i \in 1..n : \A a \in Q[i - 1] : G[i][a] \in Q[i]
    BY <1>1, <1>5
  <2> HIDE DEF G, n, after, s
  <2>2. Leads(n, Memory, Q, G, m)
    BY <1>3, <1>4, <2>1 DEF Leads
  <2> QED BY <2>2, Chain
<1>7. after = [i \in 0..n |-> IF i = 0 THEN m ELSE step(after[i - 1], s[i])]
  <2>1. PICK f \in [0..n -> Memory] : f[0] = m /\ \A i \in 1..n : f[i] = G[i][f[i - 1]]
    BY <1>6
  <2>2. ASSUME NEW i \in 0..n PROVE f[i] = IF i = 0 THEN m ELSE step(f[i - 1], s[i])
    <3>1. CASE i = 0
      BY <2>1, <3>1
    <3>2. CASE i # 0
      <4>1. i \in 1..n /\ i - 1 \in 0..n
        BY <1>1, <3>2
      <4>2. f[i - 1] \in Memory
        BY <4>1
      <4> HIDE DEF step, s
      <4> QED BY <2>1, <3>2, <4>1, <4>2
    <3> QED BY <3>1, <3>2
  <2> HIDE DEF G, s, step
  <2>3. f = [i \in 0..n |-> IF i = 0 THEN m ELSE step(f[i - 1], s[i])]
    BY <2>2
  <2> QED BY <2>3
<1>8. after[0] = m /\ \A i \in 1..n : after[i - 1] \in Memory => after[i] = G[i][after[i - 1]]
  <2>1. ASSUME NEW i \in 1..n, after[i - 1] \in Memory PROVE after[i] = G[i][after[i - 1]]
    <3>1. i \in 0..n /\ i # 0
      BY <1>1
    <3>2. after[i] = step(after[i - 1], s[i])
      <4> HIDE DEF step, s, after, G
      <4> QED BY <1>7, <3>1
    <3> HIDE DEF after, step, s
    <3> QED BY <2>1, <3>2
  <2>2. after[0] = m
    <3> HIDE DEF step, s, after, G
    <3> QED BY <1>1, <1>7
  <2> QED BY <2>1, <2>2
<1>9. after[n] \in Q[n]
  <2> HIDE DEF after, G, n
  <2> QED BY <1>6, <1>8
<1>10. /\ Sound(r, k) /\ Others(m, r, o) /\ (r.ok => m.ok)
       /\ \A p \in r.pt[o] : p \in m.pt[o] \/ \E l \in 1..n : s[l] = p
  <2> HIDE DEF after, n, s, r
  <2>1. n \in 0..n
    BY <1>1
  <2> QED BY <1>2, <1>9, <2>1 DEF Q
<1> HIDE DEF r
<1>11. ASSUME NEW p \in r.pt[o] PROVE p \in m.pt[o] \/ Occurs(seg, p)
  <2> HIDE DEF s, n
  <2>1. DOMAIN seg = 1..Len(seg)
    BY <1>0
  <2> QED BY <1>1, <1>10, <2>1 DEF Occurs
<1> QED BY <1>10, <1>11 DEF r
(* All of them go to the page file.                                        *)
LEMMA LoadSegmentStep ==
  ASSUME NEW k \in Nat, NEW m, Sound(m, k), NEW o \in Owners, NEW seg, Fresh(m, o, seg),
         NEW max \in Nat
  PROVE  LET r == LoadSegment(m, o, seg, max)
         IN  /\ Sound(r, k) /\ Others(m, r, o) /\ (r.ok => m.ok)
             /\ \A p \in r.pt[o] : p \in m.pt[o] \/ Occurs(seg, p)
<1> DEFINE room == max - 1 - Len(m.ws[o])
           b == program_segment_alloc_map_copy_workingset(m, o, seg, room)
           n == Len(seg)
           s == seg
           step(a, p) == pf_add_env_page(a, o, p, "panic")
           Q == [i \in 0..n |-> {a \in Memory :
                  Sound(a, k) /\ Others(m, a, o) /\ a.pt = b.pt /\ (a.ok => b.ok)}]
           G == [i \in 1..n |-> [a \in Memory |-> step(a, s[i])]]
           after == CHOOSE f : f = [i \in 0..n |-> IF i = 0 THEN b ELSE step(f[i - 1], s[i])]
           r == LoadSegment(m, o, seg, max)
<1>1. n \in Nat /\ \A i \in 1..n : seg[i] \in Pages
  BY DEF Fresh
<1>2. r = after[n]
  BY DEF LoadSegment, Each
<1>0. /\ Sound(b, k) /\ Others(m, b, o) /\ (b.ok => m.ok)
      /\ \A p \in b.pt[o] : p \in m.pt[o] \/ Occurs(seg, p)
  <2>1. m.ws[o] \in Seq(Pages)
    BY Shapes DEF Sound
  <2>2. room \in Int
    BY <2>1
  <2> HIDE DEF room
  <2> QED BY <2>2, MapSegmentStep
<1> HIDE DEF b, room
<1>3. Q \in [0..n -> SUBSET Memory]
  OBVIOUS
<1>4. b \in Q[0]
  BY <1>0, <1>1 DEF Sound
<1>5. ASSUME NEW i \in 1..n, NEW a \in Q[i - 1] PROVE G[i][a] \in Q[i]
  <2>1. i - 1 \in 0..n /\ i \in 0..n /\ seg[i] \in Pages
    BY <1>1
  <2>2. a \in Memory /\ Sound(a, k) /\ Others(m, a, o) /\ a.pt = b.pt /\ (a.ok => b.ok)
    BY <2>1
  <2> DEFINE c == step(a, seg[i])
  <2>3. G[i][a] = c
    BY <2>2
  <2>4. Sound(c, k) /\ Others(a, c, o) /\ c.pt = a.pt /\ (c.ok => a.ok)
    BY <2>1, <2>2, AddStep
  <2> HIDE DEF c, G
  <2>5. c \in Memory /\ Others(m, c, o)
    BY <2>2, <2>4 DEF Sound, Others
  <2> QED BY <2>1, <2>2, <2>3, <2>4, <2>5
<1> HIDE DEF Q
<1>6. /\ \E f \in [0..n -> Memory] : f[0] = b /\ \A i \in 1..n : f[i] = G[i][f[i - 1]]
      /\ \A f : (/\ f[0] = b
                 /\ \A i \in 1..n : f[i - 1] \in Memory => f[i] = G[i][f[i - 1]])
                => f[n] \in Q[n]
  <2>1. n \in Nat /\ \A i \in 1..n : \A a \in Q[i - 1] : G[i][a] \in Q[i]
    BY <1>1, <1>5
  <2> HIDE DEF G, n, after, s
  <2>2. Leads(n, Memory, Q, G, b)
    BY <1>3, <1>4, <2>1 DEF Leads
  <2> QED BY <2>2, Chain
<1>7. after = [i \in 0..n |-> IF i = 0 THEN b ELSE step(after[i - 1], s[i])]
  <2>1. PICK f \in [0..n -> Memory] : f[0] = b /\ \A i \in 1..n : f[i] = G[i][f[i - 1]]
    BY <1>6
  <2>2. ASSUME NEW i \in 0..n PROVE f[i] = IF i = 0 THEN b ELSE step(f[i - 1], s[i])
    <3>1. CASE i = 0
      BY <2>1, <3>1
    <3>2. CASE i # 0
      <4>1. i \in 1..n /\ i - 1 \in 0..n
        BY <1>1, <3>2
      <4>2. f[i - 1] \in Memory
        BY <4>1
      <4> HIDE DEF step, s
      <4> QED BY <2>1, <3>2, <4>1, <4>2
    <3> QED BY <3>1, <3>2
  <2> HIDE DEF G, s, step
  <2>3. f = [i \in 0..n |-> IF i = 0 THEN b ELSE step(f[i - 1], s[i])]
    BY <2>2
  <2> QED BY <2>3
<1>8. after[0] = b /\ \A i \in 1..n : after[i - 1] \in Memory => after[i] = G[i][after[i - 1]]
  <2>1. ASSUME NEW i \in 1..n, after[i - 1] \in Memory PROVE after[i] = G[i][after[i - 1]]
    <3>1. i \in 0..n /\ i # 0
      BY <1>1
    <3>2. after[i] = step(after[i - 1], s[i])
      <4> HIDE DEF step, s, after, G
      <4> QED BY <1>7, <3>1
    <3> HIDE DEF after, step, s
    <3> QED BY <2>1, <3>2
  <2>2. after[0] = b
    <3> HIDE DEF step, s, after, G
    <3> QED BY <1>1, <1>7
  <2> QED BY <2>1, <2>2
<1>9. after[n] \in Q[n]
  <2> HIDE DEF after, G, n
  <2> QED BY <1>6, <1>8
<1>10. Sound(r, k) /\ Others(m, r, o) /\ r.pt = b.pt /\ (r.ok => b.ok)
  <2> HIDE DEF after, n, r
  <2>1. n \in 0..n
    BY <1>1
  <2> QED BY <1>2, <1>9, <2>1 DEF Q
<1> HIDE DEF r
<1> QED BY <1>0, <1>10 DEF r

(* A page that a program has is in one of its segments, once.              *)
LEMMA ProgramPages ==
  ASSUME NEW pr \in Programs
  PROVE  /\ pr.wsmax \in Nat /\ pr.wsmax # 0 /\ Len(pr.segments) \in Nat
         /\ \A i \in 1..Len(pr.segments) :
              /\ pr.segments[i] \in Seq(Pages) /\ Distinct(pr.segments[i])
              /\ ~Occurs(pr.segments[i], StackPage)
              /\ \A j \in 1..Len(pr.segments) : \A p \in Pages :
                   Occurs(pr.segments[i], p) /\ Occurs(pr.segments[j], p) => i = j
<1> DEFINE ss == pr.segments
           T == Pages \ {StackPage}
<1>1. pr.wsmax \in Nat \ {0} /\ Loadable(ss)
  BY EnvMemoryAssumption
<1> HIDE DEF ss, T
<1>2. /\ ss \in Seq(Seq(T))
      /\ \A i, j \in DOMAIN ss : \A k \in DOMAIN ss[i], l \in DOMAIN ss[j] :
            ss[i][k] = ss[j][l] => i = j /\ k = l
  BY <1>1 DEF Loadable, T
<1>3. Len(ss) \in Nat /\ DOMAIN ss = 1..Len(ss) /\ \A i \in 1..Len(ss) : ss[i] \in Seq(T)
  BY <1>2
<1>4. ASSUME NEW i \in 1..Len(ss)
      PROVE  /\ ss[i] \in Seq(Pages) /\ Distinct(ss[i]) /\ ~Occurs(ss[i], StackPage)
             /\ \A j \in 1..Len(ss) : \A p \in Pages : Occurs(ss[i], p) /\ Occurs(ss[j], p) => i = j
  <2>1. ss[i] \in Seq(T) /\ T \subseteq Pages
    BY <1>3 DEF T
  <2>2. ss[i] \in Seq(Pages)
    BY <2>1, SeqMonotonic
  <2>3. \A k \in DOMAIN ss[i] : ss[i][k] # StackPage
    BY <2>1 DEF T
  <2> QED BY <1>2, <1>3, <2>2, <2>3 DEF Distinct, Occurs
<1> QED BY <1>1, <1>3, <1>4 DEF ss

(* The stack page, which is in no segment.                                 *)
LEMMA LoadStackStep ==
  ASSUME NEW k \in Nat, NEW m, Sound(m, k), NEW o \in Owners, StackPage \notin m.pt[o]
  PROVE  LET r == LoadStack(m, o) IN Sound(r, k) /\ Others(m, r, o) /\ (r.ok => m.ok)
<1> DEFINE w == env_page_ws_list_create_element(MapNew(m, o, StackPage), o, StackPage)
           r == LoadStack(m, o)
<1>1. r = pf_add_env_page(w, o, StackPage, "ignore")
  BY DEF LoadStack
<1>2. Sound(w, k) /\ Others(m, w, o) /\ (w.ok => m.ok)
  BY Numbers, MapElementStep
<1> HIDE DEF w, r
<1>3. Sound(r, k) /\ Others(w, r, o) /\ (r.ok => w.ok)
  BY <1>1, <1>2, Numbers, AddStep
<1> QED BY <1>2, <1>3 DEF Others, r

(* The segments one after the other, and the stack.                        *)
LEMMA LoadedStep ==
  ASSUME NEW k \in Nat, NEW m, Sound(m, k), NEW o \in Owners, NEW pr \in Programs, m.pt[o] = {}
  PROVE  LET r == Loaded(m, o, pr) IN Sound(r, k) /\ Others(m, r, o) /\ (r.ok => m.ok)
<1> DEFINE s == pr.segments
           n == Len(s)
           step(a, seg) == LoadSegment(a, o, seg, pr.wsmax)
           Q == [i \in 0..n |-> {a \in Memory :
                  /\ Sound(a, k) /\ Others(m, a, o) /\ (a.ok => m.ok)
                  /\ \A p \in a.pt[o] : \E j \in 1..i : Occurs(s[j], p)}]
           G == [i \in 1..n |-> [a \in Memory |-> step(a, s[i])]]
           after == CHOOSE f : f = [i \in 0..n |-> IF i = 0 THEN m ELSE step(f[i - 1], s[i])]
           w == after[n]
           r == Loaded(m, o, pr)
<1>1. /\ n \in Nat /\ pr.wsmax \in Nat
      /\ \A i \in 1..n : /\ s[i] \in Seq(Pages) /\ Distinct(s[i]) /\ ~Occurs(s[i], StackPage)
                         /\ \A j \in 1..n : \A p \in Pages :
                              Occurs(s[i], p) /\ Occurs(s[j], p) => i = j
  BY ProgramPages
<1>2. r = LoadStack(w, o)
  BY DEF Loaded, Each
<1>3. Q \in [0..n -> SUBSET Memory]
  OBVIOUS
<1>4. m \in Q[0]
  BY <1>1 DEF Sound, Others
<1>5. ASSUME NEW i \in 1..n, NEW a \in Q[i - 1] PROVE G[i][a] \in Q[i]
  <2>1. /\ i - 1 \in 0..n /\ i \in 0..n /\ i \in 1..i
        /\ \A j \in 1..(i - 1) : j \in 1..n /\ j \in 1..i /\ j # i
    BY <1>1
  <2>2. /\ a \in Memory /\ Sound(a, k) /\ Others(m, a, o) /\ (a.ok => m.ok)
        /\ \A p \in a.pt[o] : \E j \in 1..(i - 1) : Occurs(s[j], p)
    BY <2>1
  <2> DEFINE c == step(a, s[i])
  <2>3. G[i][a] = c
    BY <2>2
  <2> HIDE DEF G, Q, n, s, w, after, r
  <2>4. Fresh(a, o, s[i])
    <3>1. ASSUME NEW l \in 1..Len(s[i]), s[i][l] \in a.pt[o] PROVE FALSE
      <4>1. PICK j \in 1..(i - 1) : Occurs(s[j], s[i][l])
        BY <2>2, <3>1
      <4>2. j \in 1..n /\ j # i
        BY <2>1
      <4>3. Occurs(s[i], s[i][l]) /\ s[i][l] \in Pages
        BY <1>1 DEF Occurs
      <4> QED BY <1>1, <4>1, <4>2, <4>3
    <3> QED BY <1>1, <3>1 DEF Fresh
  <2>5. /\ Sound(c, k) /\ Others(a, c, o) /\ (c.ok => a.ok)
        /\ \A p \in c.pt[o] : p \in a.pt[o] \/ Occurs(s[i], p)
    BY <1>1, <2>2, <2>4, LoadSegmentStep
  <2> HIDE DEF c
  <2>6. c \in Memory /\ Others(m, c, o)
    BY <2>2, <2>5 DEF Sound, Others
  <2>7. ASSUME NEW p \in c.pt[o] PROVE \E j \in 1..i : Occurs(s[j], p)
    BY <2>1, <2>2, <2>5
  <2> QED BY <2>1, <2>2, <2>3, <2>5, <2>6, <2>7 DEF Q
<1> HIDE DEF Q
<1>6. /\ \E f \in [0..n -> Memory] : f[0] = m /\ \A i \in 1..n : f[i] = G[i][f[i - 1]]
      /\ \A f : (/\ f[0] = m
                 /\ \A i \in 1..n : f[i - 1] \in Memory => f[i] = G[i][f[i - 1]])
                => f[n] \in Q[n]
  <2>1. n \in Nat /\ \A i \in 1..n : \A a \in Q[i - 1] : G[i][a] \in Q[i]
    BY <1>1, <1>5
  <2> HIDE DEF G, n, after, s
  <2>2. Leads(n, Memory, Q, G, m)
    BY <1>3, <1>4, <2>1 DEF Leads
  <2> QED BY <2>2, Chain
<1>7. after = [i \in 0..n |-> IF i = 0 THEN m ELSE step(after[i - 1], s[i])]
  <2>1. PICK f \in [0..n -> Memory] : f[0] = m /\ \A i \in 1..n : f[i] = G[i][f[i - 1]]
    BY <1>6
  <2>2. ASSUME NEW i \in 0..n PROVE f[i] = IF i = 0 THEN m ELSE step(f[i - 1], s[i])
    <3>1. CASE i = 0
      BY <2>1, <3>1
    <3>2. CASE i # 0
      <4>1. i \in 1..n /\ i - 1 \in 0..n
        BY <1>1, <3>2
      <4>2. f[i - 1] \in Memory
        BY <4>1
      <4> HIDE DEF step, s
      <4> QED BY <2>1, <3>2, <4>1, <4>2
    <3> QED BY <3>1, <3>2
  <2> HIDE DEF G, s, step
  <2>3. f = [i \in 0..n |-> IF i = 0 THEN m ELSE step(f[i - 1], s[i])]
    BY <2>2
  <2> QED BY <2>3
<1>8. after[0] = m /\ \A i \in 1..n : after[i - 1] \in Memory => after[i] = G[i][after[i - 1]]
  <2>1. ASSUME NEW i \in 1..n, after[i - 1] \in Memory PROVE after[i] = G[i][after[i - 1]]
    <3>1. i \in 0..n /\ i # 0
      BY <1>1
    <3>2. after[i] = step(after[i - 1], s[i])
      <4> HIDE DEF step, s, after, G
      <4> QED BY <1>7, <3>1
    <3> HIDE DEF after, step, s
    <3> QED BY <2>1, <3>2
  <2>2. after[0] = m
    <3> HIDE DEF step, s, after, G
    <3> QED BY <1>1, <1>7
  <2> QED BY <2>1, <2>2
<1>9. after[n] \in Q[n]
  <2> HIDE DEF after, G, n
  <2> QED BY <1>6, <1>8
<1>10. /\ Sound(w, k) /\ Others(m, w, o) /\ (w.ok => m.ok)
       /\ \A p \in w.pt[o] : \E j \in 1..n : Occurs(s[j], p)
  <2> HIDE DEF after, n, s
  <2>1. n \in 0..n
    BY <1>1
  <2> QED BY <1>9, <2>1 DEF Q
<1> HIDE DEF w, r, s, n
<1>11. StackPage \notin w.pt[o]
  BY <1>1, <1>10
<1>12. Sound(r, k) /\ Others(w, r, o) /\ (r.ok => w.ok)
  BY <1>2, <1>10, <1>11, LoadStackStep
<1> QED BY <1>10, <1>12 DEF Others, r
----------------------------------------------------------------------------
(* Each call.                                                              *)

(* env_create, up to where it panics or returns.                           *)
LEMMA CreateStep ==
  ASSUME NEW k \in Nat, NEW m, Sound(m, k), NEW o \in Owners, Clean(m, o), NEW pr \in Programs
  PROVE  LET r == Loaded(InitEnvironment(m, o), o, pr) IN Sound(r, k) /\ Others(m, r, o)
<1> DEFINE d == kmalloc(m, o, "dir", 0)
           b == InitEnvironment(m, o)
           r == Loaded(b, o, pr)
<1>1. b = create_user_kern_stack(d, o)
  BY DEF InitEnvironment
<1>2. /\ Sound(d, k) /\ Pagewise(m, d) /\ Others(m, d, o)
      /\ d.heap \subseteq m.heap \cup {<<o, "dir", 0>>}
  <2>1. <<o, "dir", 0>> \notin m.heap
    BY DEF Clean
  <2> QED BY <2>1, KmallocStep DEF Kinds
<1> HIDE DEF d, b
<1>3. Sound(b, k) /\ Others(d, b, o) /\ b.pt = d.pt /\ b.ws = d.ws
  <2>1. \A i \in Nat : <<o, "kstack", i>> \notin d.heap
    BY <1>2 DEF Clean
  <2> QED BY <1>1, <1>2, <2>1, KernStackStep
<1>4. b.pt[o] = {}
  BY <1>2, <1>3 DEF Pagewise, Clean
<1> HIDE DEF r
<1>5. Sound(r, k) /\ Others(b, r, o)
  BY <1>3, <1>4, LoadedStep DEF r
<1> QED BY <1>2, <1>3, <1>5 DEF Others, r, b

(* A step of e in the life l, which ends in the memory w, with x as the    *)
(* status of e, leaves the invariant as it was.                            *)
LEMMA Steps ==
  ASSUME IInv, NEW e \in Envs, NEW l \in 0..MaxLives, l >= life[e], NEW x \in Statuses,
         NEW w, Sound(w, NFrames), Others(mem, w, <<e, l>>), x = "FREE" => Clean(w, <<e, l>>),
         mem' = [w EXCEPT !.ok = TRUE], life' = [life EXCEPT ![e] = l],
         status' = [status EXCEPT ![e] = x],
         freeList' \in Seq(Envs), wsmax' \in [Envs -> Nat]
  PROVE  IInv'
<1>1. /\ status \in [Envs -> Statuses] /\ life \in [Envs -> 0..MaxLives] /\ w \in Memory
  BY DEF IInv, TypeOK, Sound
<1>2. /\ mem' \in Memory /\ mem'.ok /\ mem'.free = w.free /\ mem'.heap = w.heap /\ mem'.ws = w.ws
      /\ mem'.pt = w.pt /\ mem'.dirty = w.dirty /\ mem'.dpt = w.dpt
      /\ mem'.diskFree = w.diskFree /\ mem'.disk = w.disk /\ mem'.lost = w.lost
  <2>1. Assigned(mem', w, "ok", TRUE)
    BY <1>1, Put_ok
  <2> QED BY <1>1, <2>1 DEF Assigned
<1>3. /\ status' \in [Envs -> Statuses] /\ status'[e] = x
      /\ \A u \in Envs \ {e} : status'[u] = status[u]
      /\ life' \in [Envs -> 0..MaxLives] /\ life'[e] = l
      /\ \A u \in Envs \ {e} : life'[u] = life[u]
  BY <1>1
<1>4. TypeOK'
  BY <1>2, <1>3 DEF TypeOK
<1>5. Sound(mem', NFrames)
  BY <1>2, SoundSame, Numbers
<1>6. ASSUME NEW o \in Owners, Clean(w, o) PROVE Clean(mem', o)
  BY <1>2, <1>6 DEF Clean
<1>7. ASSUME NEW u \in Envs, NEW i \in 0..MaxLives, i > life'[u] PROVE Clean(mem', <<u, i>>)
  <2>1. i > life[u] /\ <<u, i>> # <<e, l>>
    <3>1. CASE u = e
      BY <1>1, <1>3, <1>7, <3>1, Numbers
    <3>2. CASE u # e
      BY <1>3, <1>7, <3>2
    <3> QED BY <3>1, <3>2
  <2>2. <<u, i>> \in Owners /\ Clean(mem, <<u, i>>)
    BY <2>1 DEF IInv, CleanInv, Owners
  <2>3. Clean(w, <<u, i>>)
    BY <2>1, <2>2 DEF Others
  <2> QED BY <1>6, <2>2, <2>3
<1>8. ASSUME NEW u \in Envs, status'[u] = "FREE" PROVE Clean(mem', <<u, life'[u]>>)
  <2>1. CASE u = e
    <3>1. <<e, l>> \in Owners
      BY DEF Owners
    <3> QED BY <1>3, <1>6, <1>8, <2>1, <3>1
  <2>2. CASE u # e
    <3>1. life'[u] = life[u] /\ status[u] = "FREE" /\ <<u, life[u]>> # <<e, l>>
      BY <1>3, <1>8, <2>2
    <3>2. <<u, life[u]>> \in Owners /\ Clean(mem, <<u, life[u]>>)
      BY <1>1, <3>1 DEF IInv, CleanInv, Own, Owners
    <3>3. Clean(w, <<u, life[u]>>)
      BY <3>1, <3>2 DEF Others
    <3> QED BY <1>6, <3>1, <3>2, <3>3
  <2> QED BY <2>1, <2>2
<1>9. CleanInv'
  BY <1>7, <1>8 DEF CleanInv, Own
<1> QED BY <1>4, <1>5, <1>9 DEF IInv

(* The same life, and a status that is not FREE.                           *)
LEMMA Lives ==
  ASSUME IInv, NEW e \in Envs, NEW x \in Statuses \ {"FREE"},
         NEW w, Sound(w, NFrames), Others(mem, w, Own(e)),
         mem' = [w EXCEPT !.ok = TRUE], status' = [status EXCEPT ![e] = x],
         UNCHANGED <<freeList, life, wsmax>>
  PROVE  IInv'
<1>1. /\ life \in [Envs -> 0..MaxLives] /\ freeList \in Seq(Envs) /\ wsmax \in [Envs -> Nat]
  BY DEF IInv, TypeOK
<1>2. life[e] \in 0..MaxLives /\ life[e] >= life[e] /\ life' = [life EXCEPT ![e] = life[e]]
  BY <1>1, Numbers
<1>3. Others(mem, w, <<e, life[e]>>)
  BY DEF Own
<1> QED BY <1>1, <1>2, <1>3, Steps
(* What the working set says is replaced.                                  *)
LEMMA WorkingSetIs ==
  ASSUME NEW k \in Nat, NEW m, Sound(m, k), NEW o \in Owners, NEW q \in Seq(Pages)
  PROVE  LET r == [m EXCEPT !.ws[o] = q]
         IN  Sound(r, k) /\ Others(m, r, o) /\ r.pt = m.pt /\ r.ok = m.ok
<1> DEFINE t == [m.ws EXCEPT ![o] = q]
           r == [m EXCEPT !.ws[o] = q]
<1>1. m \in Memory /\ m.ws \in [Owners -> Seq(Pages)]
  BY Shapes DEF Sound
<1>2. /\ r = [m EXCEPT !.ws = t] /\ t \in [Owners -> Seq(Pages)]
      /\ \A u \in Owners \ {o} : t[u] = m.ws[u]
  BY <1>1 DEF Memory
<1> HIDE DEF t, r
<1>3. /\ r \in Memory /\ r.ws = t /\ r.free = m.free /\ r.heap = m.heap /\ r.pt = m.pt
      /\ r.dirty = m.dirty /\ r.dpt = m.dpt /\ r.diskFree = m.diskFree /\ r.disk = m.disk
      /\ r.lost = m.lost /\ r.ok = m.ok
  <2>1. Assigned(r, m, "ws", t)
    BY <1>1, <1>2, Put_ws
  <2> QED BY <1>1, <1>2, <2>1 DEF Assigned
<1>4. Sound(r, k)
  BY <1>3, SoundSame
<1>5. Others(m, r, o)
  BY <1>2, <1>3 DEF Others, Clean
<1> QED BY <1>3, <1>4, <1>5 DEF r

(* The owner of a live slot is an owner.                                   *)
LEMMA LiveOwner ==
  ASSUME IInv, NEW e \in Envs
  PROVE  /\ Own(e) \in Owners /\ mem \in Memory /\ Sound(mem, NFrames) /\ mem.ok = TRUE
         /\ mem.ws[Own(e)] \in Seq(Pages) /\ NFrames \in Nat
<1>1. life[e] \in 0..MaxLives /\ mem \in Memory /\ Sound(mem, NFrames) /\ mem.ok
  BY DEF IInv, TypeOK
<1>2. Own(e) \in Owners
  BY <1>1 DEF Own, Owners
<1>3. mem.ok = TRUE
  BY <1>1 DEF Memory
<1> QED BY <1>1, <1>2, <1>3, Shapes, Numbers

(* The program writes.                                                     *)
LEMMA WriteInv ==
  ASSUME IInv, NEW e \in Envs, NEW p \in Pages, Write(e, p)
  PROVE  IInv'
<1> DEFINE o == Own(e)
           t == [mem.dirty EXCEPT ![o] = mem.dirty[o] \cup {p}]
           w == [mem EXCEPT !.dirty = t]
<1>1. o \in Owners /\ mem \in Memory /\ Sound(mem, NFrames) /\ mem.ok = TRUE /\ NFrames \in Nat
  BY LiveOwner
<1>2. mem' = [mem EXCEPT !.dirty[o] = @ \cup {p}] /\ status[e] = "NEW"
      /\ UNCHANGED <<status, freeList, life, wsmax>>
  BY DEF Write, Live
<1> HIDE DEF o
<1>3. t \in [Owners -> SUBSET Pages]
  BY <1>1, Shapes
<1>4. mem' = w
  BY <1>1, <1>2 DEF Memory
<1> HIDE DEF t, w
<1>5. /\ w \in Memory /\ w.free = mem.free /\ w.heap = mem.heap /\ w.ws = mem.ws /\ w.pt = mem.pt
      /\ w.dpt = mem.dpt /\ w.diskFree = mem.diskFree /\ w.disk = mem.disk
      /\ w.lost = mem.lost /\ w.ok = mem.ok
  <2>1. Assigned(w, mem, "dirty", t)
    BY <1>1, <1>3, Put_dirty DEF w
  <2> QED BY <1>1, <1>3, <2>1 DEF Assigned
<1>6. Sound(w, NFrames) /\ Others(mem, w, o)
  BY <1>1, <1>5, SoundSame DEF Others, Clean
<1>7. mem' = [w EXCEPT !.ok = TRUE]
  BY <1>1, <1>4, <1>5 DEF Memory
<1>8. status' = [status EXCEPT ![e] = "NEW"]
  BY <1>2 DEF IInv, TypeOK
<1>9. "NEW" \in Statuses \ {"FREE"}
  BY DEF Statuses
<1> QED BY <1>2, <1>6, <1>7, <1>8, <1>9, Lives DEF o

(* The environment goes to the exit queue.                                 *)
LEMMA ExitInv ==
  ASSUME IInv, NEW e \in Envs, env_exit(e)
  PROVE  IInv'
<1>1. Own(e) \in Owners /\ mem \in Memory /\ Sound(mem, NFrames) /\ mem.ok = TRUE
  BY LiveOwner
<1>2. status' = [status EXCEPT ![e] = "EXIT"] /\ UNCHANGED <<freeList, life, wsmax, mem>>
  BY DEF env_exit
<1>3. mem' = [mem EXCEPT !.ok = TRUE]
  BY <1>1, <1>2 DEF Memory
<1>4. Others(mem, mem, Own(e)) /\ "EXIT" \in Statuses \ {"FREE"}
  BY DEF Others, Statuses
<1> QED BY <1>1, <1>2, <1>3, <1>4, Lives

(* What a fault leads to.                                                  *)
LEMMA BecomesInv ==
  ASSUME IInv, NEW e \in Envs, NEW w, Sound(w, NFrames), Others(mem, w, Own(e)), Becomes(e, w)
  PROVE  IInv'
<1> DEFINE x == IF w.ok THEN "NEW" ELSE "EXIT"
<1>1. /\ mem' = [w EXCEPT !.ok = TRUE] /\ status' = [status EXCEPT ![e] = x]
      /\ UNCHANGED <<freeList, life, wsmax>>
  BY DEF Becomes
<1>2. x \in Statuses \ {"FREE"}
  BY DEF Statuses
<1> HIDE DEF x
<1> QED BY <1>1, <1>2, Lives

(* A fault with room in the working set.                                   *)
LEMMA PlacementInv ==
  ASSUME IInv, NEW e \in Envs, NEW p \in Pages, Placement(e, p)
  PROVE  IInv'
<1> DEFINE o == Own(e)
           w == MapNew(mem, o, p)
           c == env_page_ws_list_create_element(w, o, p)
           r == IF Legal(mem, o, p) THEN c ELSE Panic(w)
<1>1. p \notin mem.pt[o] /\ Becomes(e, r)
  BY DEF Placement
<1>2. o \in Owners /\ Sound(mem, NFrames) /\ NFrames \in Nat
  BY LiveOwner
<1> HIDE DEF o
<1>3. Sound(w, NFrames) /\ Others(mem, w, o)
  BY <1>1, <1>2, MapStep
<1>4. Sound(c, NFrames) /\ Others(mem, c, o)
  BY <1>1, <1>2, MapElementStep
<1> HIDE DEF w, c
<1>5. Sound(Panic(w), NFrames) /\ Others(mem, Panic(w), o)
  <2>1. Sound(Panic(w), NFrames) /\ Pagewise(w, Panic(w)) /\ Panic(w).heap = w.heap
    BY <1>2, <1>3, PanicStep
  <2> QED BY <1>3, <2>1 DEF Pagewise, Others, Clean
<1>6. Sound(r, NFrames) /\ Others(mem, r, o)
  BY <1>4, <1>5
<1> HIDE DEF r
<1> QED BY <1>1, <1>6, BecomesInv DEF o

(* A fault that replaces a page.                                           *)
LEMMA ReplacementInv ==
  ASSUME IInv, NEW e \in Envs, NEW p \in Pages, NEW v \in Pages, Replacement(e, p, v)
  PROVE  IInv'
<1> DEFINE o == Own(e)
           saved == IF v \in mem.dirty[o] THEN pf_update_env_page(mem, o, v) ELSE mem
           u == Unmap(saved, o, v)
           q == [i \in DOMAIN u.ws[o] |-> IF u.ws[o][i] = v THEN p ELSE u.ws[o][i]]
           taken == [u EXCEPT !.ws[o] = q]
           c == MapNew(taken, o, p)
           r == IF ~saved.ok THEN saved ELSE IF Legal(mem, o, p) THEN c ELSE Panic(c)
<1>1. o \in Owners /\ Sound(mem, NFrames) /\ NFrames \in Nat
  BY LiveOwner
<1>2. Sound(saved, NFrames) /\ Others(mem, saved, o) /\ saved.pt = mem.pt
  BY <1>1, UpdateStep DEF Others
<1>3. /\ p \notin mem.pt[o]
      /\ LET t == [u EXCEPT !.ws[o] = [i \in DOMAIN @ |-> IF @[i] = v THEN p ELSE @[i]]]
         IN  Becomes(e, IF ~saved.ok THEN saved
                        ELSE IF Legal(mem, o, p) THEN MapNew(t, o, p)
                        ELSE Panic(MapNew(t, o, p)))
  BY DEF Replacement
<1> HIDE DEF o, saved
<1>4. Sound(u, NFrames) /\ Others(saved, u, o) /\ u.pt[o] = saved.pt[o] \ {v}
  BY <1>1, <1>2, UnmapStep
<1> HIDE DEF u
<1>5. u \in Memory /\ u.ws[o] \in Seq(Pages)
  BY <1>1, <1>4, Shapes DEF Sound
<1>6. q \in Seq(Pages)
  BY <1>5
<1>7. taken = [u EXCEPT !.ws[o] = [i \in DOMAIN @ |-> IF @[i] = v THEN p ELSE @[i]]]
  BY <1>1, <1>5 DEF Memory
<1>8. Becomes(e, r)
  BY <1>3, <1>7
<1> HIDE DEF q
<1>9. Sound(taken, NFrames) /\ Others(u, taken, o) /\ taken.pt = u.pt
  BY <1>1, <1>4, <1>6, WorkingSetIs
<1> HIDE DEF taken
<1>10. Sound(c, NFrames) /\ Others(taken, c, o)
  <2>1. p \notin taken.pt[o]
    BY <1>2, <1>3, <1>4, <1>9
  <2> QED BY <1>1, <1>9, <2>1, MapStep
<1> HIDE DEF c
<1>11. Others(mem, c, o)
  BY <1>2, <1>4, <1>9, <1>10 DEF Others
<1>12. Sound(Panic(c), NFrames) /\ Others(mem, Panic(c), o)
  <2>1. Sound(Panic(c), NFrames) /\ Pagewise(c, Panic(c)) /\ Panic(c).heap = c.heap
    BY <1>1, <1>10, PanicStep
  <2> QED BY <1>11, <2>1 DEF Pagewise, Others, Clean
<1>13. Sound(r, NFrames) /\ Others(mem, r, o)
  BY <1>2, <1>10, <1>11, <1>12
<1> HIDE DEF r
<1> QED BY <1>8, <1>13, BecomesInv DEF o

(* A heap page is given back.                                              *)
LEMMA FreeUserMemInv ==
  ASSUME IInv, NEW e \in Envs, NEW p \in Pages, free_user_mem(e, p)
  PROVE  IInv'
<1> DEFINE o == Own(e)
           w == IF p \in ToSet(mem.ws[o]) THEN Unmap(mem, o, p) ELSE mem
           q == Filter(w.ws[o], Pages \ {p})
           v == [w EXCEPT !.ws[o] = q]
           r == pf_remove_env_page(v, o, p)
<1>1. o \in Owners /\ mem \in Memory /\ Sound(mem, NFrames) /\ mem.ok = TRUE /\ NFrames \in Nat
  BY LiveOwner
<1>2. /\ mem' = pf_remove_env_page([w EXCEPT !.ws[o] = Filter(@, Pages \ {p})], o, p)
      /\ status[e] = "NEW" /\ UNCHANGED <<status, freeList, life, wsmax>>
  BY DEF free_user_mem, Live
<1>3. Sound(w, NFrames) /\ Others(mem, w, o) /\ w.ok = TRUE
  BY <1>1, UnmapStep DEF Others
<1> HIDE DEF o, w
<1>4. w \in Memory /\ w.ws[o] \in Seq(Pages)
  BY <1>1, <1>3, Shapes DEF Sound
<1>5. q \in Seq(Pages)
  BY <1>4, FilterType
<1>6. v = [w EXCEPT !.ws[o] = Filter(@, Pages \ {p})]
  BY <1>1, <1>4 DEF Memory
<1>7. mem' = r
  BY <1>2, <1>6
<1> HIDE DEF q
<1>8. Sound(v, NFrames) /\ Others(w, v, o) /\ v.ok = TRUE
  BY <1>1, <1>3, <1>5, WorkingSetIs
<1> HIDE DEF v
<1>9. Sound(r, NFrames) /\ Others(v, r, o) /\ r.ok = TRUE
  BY <1>1, <1>8, RemoveStep
<1> HIDE DEF r
<1>10. Others(mem, r, o)
  BY <1>3, <1>8, <1>9 DEF Others
<1>11. mem' = [r EXCEPT !.ok = TRUE]
  BY <1>7, <1>9 DEF Sound, Memory
<1>12. status' = [status EXCEPT ![e] = "NEW"] /\ "NEW" \in Statuses \ {"FREE"}
  BY <1>2 DEF IInv, TypeOK, Statuses
<1> QED BY <1>2, <1>9, <1>10, <1>11, <1>12, Lives DEF o

(* The environment is freed.                                               *)
LEMMA FreeInv ==
  ASSUME IInv, NEW e \in Envs, env_free(e)
  PROVE  IInv'
<1> DEFINE o == Own(e)
           r == pf_free_env(TablesAndDirectory(WorkingSet(mem, o), o), o)
<1>1. o \in Owners /\ mem \in Memory /\ Sound(mem, NFrames) /\ mem.ok = TRUE /\ NFrames \in Nat
  BY LiveOwner
<1>2. /\ mem' = r /\ status' = [status EXCEPT ![e] = "FREE"] /\ freeList' = <<e>> \o freeList
      /\ wsmax' = [wsmax EXCEPT ![e] = 0] /\ UNCHANGED life
  BY DEF env_free, free_environment
<1> HIDE DEF o
<1>3. Sound(r, NFrames) /\ Others(mem, r, o) /\ r.ok = TRUE /\ Clean(r, o)
  BY <1>1, FreeStep
<1> HIDE DEF r
<1>4. mem' = [r EXCEPT !.ok = TRUE]
  BY <1>2, <1>3 DEF Sound, Memory
<1>5. /\ life \in [Envs -> 0..MaxLives] /\ freeList \in Seq(Envs) /\ wsmax \in [Envs -> Nat]
  BY DEF IInv, TypeOK
<1>6. freeList' \in Seq(Envs)
  <2>1. <<e>> \in Seq(Envs)
    OBVIOUS
  <2> QED BY <1>2, <1>5, <2>1, ConcatProperties
<1>7. wsmax' \in [Envs -> Nat]
  BY <1>2, <1>5
<1>8. life[e] \in 0..MaxLives /\ life[e] >= life[e] /\ life' = [life EXCEPT ![e] = life[e]]
  BY <1>2, <1>5, Numbers
<1>9. Others(mem, r, <<e, life[e]>>) /\ Clean(r, <<e, life[e]>>) /\ "FREE" \in Statuses
  BY <1>3 DEF o, Own, Statuses
<1> QED BY <1>2, <1>3, <1>4, <1>6, <1>7, <1>8, <1>9, Steps

(* A slot is used for a program.                                           *)
LEMMA CreateInv ==
  ASSUME IInv, NEW pr \in Programs, env_create(pr)
  PROVE  IInv'
<1> DEFINE e == Head(freeList)
           l == life[e] + 1
           o == <<e, l>>
           begun == InitEnvironment(mem, o)
           done == Loaded(begun, o, pr)
           x == IF ~begun.ok THEN "UNKNOWN" ELSE IF ~done.ok THEN "HALFMADE" ELSE "NEW"
<1>1. /\ status \in [Envs -> Statuses] /\ life \in [Envs -> 0..MaxLives] /\ freeList \in Seq(Envs)
      /\ wsmax \in [Envs -> Nat] /\ Sound(mem, NFrames)
  BY DEF IInv, TypeOK
<1>2. /\ freeList # <<>> /\ life[e] < MaxLives /\ life' = [life EXCEPT ![e] = l]
      /\ mem' = [done EXCEPT !.ok = TRUE] /\ wsmax' = [wsmax EXCEPT ![e] = pr.wsmax]
      /\ freeList' = (IF begun.ok THEN Tail(freeList) ELSE freeList)
      /\ status' = [status EXCEPT ![e] = x]
  BY <1>1 DEF env_create
<1>3. e \in Envs /\ Tail(freeList) \in Seq(Envs)
  BY <1>1, <1>2, OccursTail
<1> HIDE DEF e
<1>4. l \in 0..MaxLives /\ l > life[e] /\ l >= life[e] /\ NFrames \in Nat
  <2>1. life[e] \in Nat
    BY <1>1, <1>3
  <2> QED BY <1>2, <2>1, Numbers
<1> HIDE DEF l
<1>5. o \in Owners /\ Clean(mem, o)
  BY <1>3, <1>4 DEF IInv, CleanInv, Owners
<1> HIDE DEF o
<1>6. Sound(done, NFrames) /\ Others(mem, done, o)
  BY <1>1, <1>4, <1>5, CreateStep
<1>7. x \in Statuses /\ x # "FREE"
  BY DEF Statuses
<1> HIDE DEF begun, done, x
<1>8. freeList' \in Seq(Envs)
  BY <1>1, <1>2, <1>3
<1>9. wsmax' \in [Envs -> Nat]
  <2>1. pr.wsmax \in Nat
    BY ProgramPages
  <2> QED BY <1>1, <1>2, <2>1
<1>10. Others(mem, done, <<e, l>>)
  BY <1>6 DEF o
<1> QED BY <1>2, <1>3, <1>4, <1>6, <1>7, <1>8, <1>9, <1>10, Steps
----------------------------------------------------------------------------
(* The invariant holds, whatever is called.                                *)

(* Nothing is in use.                                                      *)
LEMMA InitInv == Init => IInv
<1> SUFFICES ASSUME Init PROVE IInv
  OBVIOUS
<1>1. /\ status = [e \in Envs |-> "FREE"] /\ freeList \in SetToSeqs(Envs)
      /\ life = [e \in Envs |-> 0] /\ wsmax = [e \in Envs |-> 0] /\ mem = InitMem
  BY DEF Init
<1>2. freeList \in Seq(Envs)
  <2>1. Cardinality(Envs) \in Nat
    BY EnvMemoryAssumption, FS_CardinalityType
  <2>2. freeList \in [1..Cardinality(Envs) -> Envs]
    BY <1>1 DEF SetToSeqs
  <2> HIDE DEF Init
  <2> QED BY <2>1, <2>2
<1> DEFINE free == [i \in 1..NDisk |-> NDisk + 1 - i]
<1>3. /\ free \in Seq(1..NDisk) /\ Distinct(free)
      /\ \A d \in 1..NDisk : Occurs(free, d)
  <2>1. free \in [1..NDisk -> 1..NDisk]
    BY Numbers
  <2>2. free \in Seq(1..NDisk)
    BY <2>1, Numbers
  <2>3. Distinct(free)
    BY Numbers DEF Distinct
  <2>4. ASSUME NEW d \in 1..NDisk PROVE Occurs(free, d)
    <3>1. NDisk + 1 - d \in 1..NDisk /\ free[NDisk + 1 - d] = d
      BY Numbers
    <3> QED BY <3>1 DEF Occurs
  <2> QED BY <2>2, <2>3, <2>4
<1> HIDE DEF free
<1>4. /\ mem.free = NFrames /\ mem.heap = {} /\ mem.ws = [o \in Owners |-> <<>>]
      /\ mem.pt = [o \in Owners |-> {}] /\ mem.dirty = [o \in Owners |-> {}]
      /\ mem.dpt = [o \in Owners |-> [p \in Pages |-> 0]] /\ mem.diskFree = free
      /\ mem.disk = [d \in 1..NDisk |-> <<>>] /\ mem.lost = 0 /\ mem.ok = TRUE
  BY <1>1 DEF InitMem, free
<1>5. mem \in Memory
  <2>1. /\ [o \in Owners |-> <<>>] \in [Owners -> Seq(Pages)]
        /\ [o \in Owners |-> {}] \in [Owners -> SUBSET Pages]
        /\ [o \in Owners |-> [p \in Pages |-> 0]] \in [Owners -> [Pages -> 0..NDisk]]
        /\ [d \in 1..NDisk |-> <<>>] \in [1..NDisk -> (Owners \X Pages) \cup {<<>>}]
        /\ {} \in SUBSET Structures
    BY Numbers, OccursEmpty
  <2>2. mem = [free |-> mem.free, heap |-> mem.heap, ws |-> mem.ws, pt |-> mem.pt,
               dirty |-> mem.dirty, dpt |-> mem.dpt, diskFree |-> mem.diskFree,
               disk |-> mem.disk, lost |-> mem.lost, ok |-> mem.ok]
    BY <1>1 DEF InitMem
  <2>3. NFrames \in Nat /\ 0 \in Nat
    BY Numbers
  <2> QED BY <1>3, <1>4, <2>1, <2>2, <2>3 DEF Memory
<1>6. Counted(mem, NFrames)
  <2>1. MappedIn(mem) = {}
    BY <1>4 DEF MappedIn
  <2>2. IsFiniteSet({}) /\ Cardinality({}) = 0
    BY FS_EmptySet
  <2> QED BY <1>4, <2>1, <2>2, Numbers DEF Counted
<1>7. Linked(mem) /\ Written(mem)
  BY <1>3, <1>4 DEF Linked, Written
<1>8. ASSUME NEW o \in Owners PROVE Clean(mem, o)
  BY <1>4 DEF Clean
<1>9. CleanInv
  <2>1. \A e \in Envs : \A l \in 0..MaxLives : <<e, l>> \in Owners
    BY DEF Owners
  <2>2. \A e \in Envs : life[e] \in 0..MaxLives
    BY <1>1, Numbers
  <2> QED BY <1>8, <2>1, <2>2 DEF CleanInv, Own
<1>10. TypeOK
  BY <1>1, <1>2, <1>4, <1>5, Numbers DEF TypeOK, Statuses
<1> QED BY <1>5, <1>6, <1>7, <1>9, <1>10 DEF IInv, Sound

(* One case for each call.                                                 *)
LEMMA NextInv == IInv /\ [Next]_vars => IInv'
<1> SUFFICES ASSUME IInv, [Next]_vars PROVE IInv'
  OBVIOUS
<1>1. CASE UNCHANGED vars
  BY <1>1 DEF vars, IInv, TypeOK, CleanInv, Own
<1>2. ASSUME NEW pr \in Programs, env_create(pr) PROVE IInv'
  BY <1>2, CreateInv
<1>3. ASSUME NEW e \in Envs, NEW p \in Pages, Write(e, p) PROVE IInv'
  BY <1>3, WriteInv
<1>4. ASSUME NEW e \in Envs, NEW p \in Pages, Placement(e, p) PROVE IInv'
  BY <1>4, PlacementInv
<1>5. ASSUME NEW e \in Envs, NEW p \in Pages, free_user_mem(e, p) PROVE IInv'
  BY <1>5, FreeUserMemInv
<1>6. ASSUME NEW e \in Envs, NEW p \in Pages, NEW v \in Pages, Replacement(e, p, v) PROVE IInv'
  BY <1>6, ReplacementInv
<1>7. ASSUME NEW e \in Envs, env_exit(e) PROVE IInv'
  BY <1>7, ExitInv
<1>8. ASSUME NEW e \in Envs, env_free(e) PROVE IInv'
  BY <1>8, FreeInv
<1> QED BY <1>1, <1>2, <1>3, <1>4, <1>5, <1>6, <1>7, <1>8 DEF Next

(* The invariant: what memory is made of, that every frame and every disk  *)
(* frame is accounted for, that a disk frame in use was written for its    *)
(* page, and that nothing is left of the lives that are over.              *)
THEOREM Invariance == Spec => []IInv
BY InitInv, NextInv, PTL DEF Spec

(* The types of env_status, env_free_list and of what user_environment.c   *)
(* keeps for each environment.                                             *)
THEOREM TypeCorrect == Spec => []TypeOK
BY Invariance, PTL DEF IInv

(* No call of user_environment.c loses a frame or a disk frame, beyond the *)
(* two known failures, or frees one twice: for any number of environments, *)
(* programs, pages, frames and disk frames.                                *)
THEOREM FramesKept == Spec => []FramesAccountedFor
<1>1. ASSUME IInv PROVE FramesAccountedFor
  <2>1. MappedIn(mem) = Mapped
    BY DEF MappedIn, Mapped
  <2>2. Sound(mem, NFrames) /\ mem.dpt \in [Owners -> [Pages -> 0..NDisk]]
    BY <1>1, Shapes DEF IInv, Sound
  <2>3. mem.free + Cardinality(mem.heap) + Cardinality(Mapped) + mem.lost = NFrames
    BY <2>1, <2>2 DEF Sound, Counted
  <2>4. IsInjective(mem.diskFree)
    BY <2>2 DEF Sound, Linked, Distinct, IsInjective
  <2>5. ASSUME NEW d \in 1..NDisk
        PROVE  Cardinality({x \in OnDisk : mem.dpt[x[1]][x[2]] = d})
                 = IF d \in ToSet(mem.diskFree) THEN 0 ELSE 1
    <3> DEFINE D == {x \in OnDisk : mem.dpt[x[1]][x[2]] = d}
    <3>1. d \in ToSet(mem.diskFree) <=> Occurs(mem.diskFree, d)
      BY DEF ToSet, Occurs
    <3>2. \A x \in D : /\ x[1] \in Owners /\ x[2] \in Pages /\ x = <<x[1], x[2]>>
                       /\ mem.dpt[x[1]][x[2]] # 0 /\ mem.dpt[x[1]][x[2]] = d
      BY DEF OnDisk
    <3>3. d # 0
      BY Numbers
    <3>4. CASE Occurs(mem.diskFree, d)
      <4>1. D = {}
        <5> SUFFICES ASSUME NEW x \in D PROVE FALSE
          OBVIOUS
        <5> HIDE DEF D
        <5> QED BY <2>2, <3>2, <3>4 DEF Sound, Linked
      <4> HIDE DEF D
      <4>2. Cardinality(D) = 0
        BY <4>1, FS_EmptySet
      <4> QED BY <3>1, <3>4, <4>2 DEF D
    <3>5. CASE ~Occurs(mem.diskFree, d)
      <4>1. PICK o \in Owners, p \in Pages : mem.dpt[o][p] = d
        BY <2>2, <3>5 DEF Sound, Linked
      <4>2. <<o, p>> \in D
        BY <3>3, <4>1 DEF OnDisk
      <4>3. ASSUME NEW x \in D PROVE x = <<o, p>>
        <5>1. /\ x[1] \in Owners /\ x[2] \in Pages /\ x = <<x[1], x[2]>>
              /\ mem.dpt[x[1]][x[2]] # 0 /\ mem.dpt[x[1]][x[2]] = mem.dpt[o][p]
          BY <3>2, <4>1
        <5>2. x[1] = o /\ x[2] = p
          <6> HIDE DEF D
          <6> DEFINE u == x[1]
                     q == x[2]
          <6>1. u \in Owners /\ q \in Pages /\ mem.dpt[u][q] # 0 /\ mem.dpt[u][q] = mem.dpt[o][p]
            BY <5>1
          <6> HIDE DEF u, q
          <6>2. u = o /\ q = p
            BY <2>2, <6>1 DEF Sound, Linked
          <6> QED BY <6>2 DEF u, q
        <5> QED BY <5>1, <5>2
      <4>4. D = {<<o, p>>}
        BY <4>2, <4>3
      <4> HIDE DEF D
      <4>5. Cardinality(D) = 1
        BY <4>4, FS_Singleton
      <4> QED BY <3>1, <3>5, <4>5 DEF D
    <3> QED BY <3>4, <3>5
  <2> QED BY <2>3, <2>4, <2>5 DEF FramesAccountedFor
<1> QED BY <1>1, Invariance, PTL

(* What an environment reads from the page file was written for that page  *)
(* in this life of its slot.                                               *)
THEOREM OwnPages == Spec => []ReadsItsOwn
<1>1. ASSUME IInv PROVE ReadsItsOwn
  <2> SUFFICES ASSUME NEW x \in OnDisk PROVE mem.disk[mem.dpt[x[1]][x[2]]] = x
    BY DEF ReadsItsOwn
  <2> DEFINE o == x[1]
             p == x[2]
  <2>1. o \in Owners /\ p \in Pages /\ x = <<o, p>> /\ mem.dpt[o][p] # 0
    BY DEF OnDisk
  <2> HIDE DEF o, p
  <2>2. mem.disk[mem.dpt[o][p]] = <<o, p>>
    BY <1>1, <2>1 DEF IInv, Sound, Written
  <2> QED BY <2>1, <2>2 DEF o, p
<1> QED BY <1>1, Invariance, PTL

(* env_free and the creations that succeed leave nothing of a slot that is *)
(* free.                                                                   *)
THEOREM NothingLeft == Spec => []NothingLeftBehind
<1>1. IInv => NothingLeftBehind
  BY DEF IInv, CleanInv, Clean, NothingLeftBehind
<1> QED BY <1>1, Invariance, PTL

----------------------------------------------------------------------------
(* Shared objects (module Sharing).                                        *)

SharedSlots == Envs \X S!HeapArea
FrameMem == [free : Seq(Frames), refs : [Frames -> Nat],
             va : [Frames -> S!HeapArea \cup {S!NoVa}],
             pt : [SharedSlots -> Frames \cup {NoFrame}]]

\* What sget keeps between its two calls, and the objects of a heap.
Requests == [va : S!HeapArea, owner : Envs \X Nat, name : Names]
Objects == [va : S!HeapArea, id : Ids]

\* Two objects of the list differ in their IDs, and in owner or name unless
\* the name is what longer ones are cut to; each has as many frames as pages.
Told(s, t) ==
  /\ s.id # t.id
  /\ s.owner = t.owner /\ s.name = t.name => S!IsCut(s.name)
KeysInv ==
  /\ \A i, j \in DOMAIN shares : i # j => Told(shares[i], shares[j])
  /\ \A s \in S!Listed : Len(s.frames) = s.size

\* A frame of an object is counted as often as the object, is not free and is
\* no other page's.
FramesInv ==
  /\ Distinct(shareMem.free)
  /\ \A s \in S!Listed : \A i \in 1..s.size : s.frames[i] # NoFrame =>
       /\ shareMem.refs[s.frames[i]] = s.references
       /\ ~Occurs(shareMem.free, s.frames[i])
       /\ \A t \in S!Listed : \A j \in 1..t.size :
            s.frames[i] = t.frames[j] => s = t /\ i = j

\* The pages of an object that r, an object of e's heap, maps.
Backs(m, s, e, r) ==
  /\ s.id = r.id
  /\ \A i \in 1..s.size : /\ r.va + i - 1 \in S!HeapArea /\ s.frames[i] # NoFrame
                          /\ m.pt[<<e, r.va + i - 1>>] = s.frames[i]
HeldInv ==
  \A e \in Envs : \A r \in alloc[e] : \E s \in S!Listed : Backs(shareMem, s, e, r)

\* Page x is one of the pages where e has placed an object that it holds.
Holds(e, x) ==
  \E r \in alloc[e], s \in S!Listed : s.id = r.id /\ x \in S!Extent(r.va, s.size)

\* A program maps nothing else, and a free slot nothing.
PagesInv ==
  \A e \in Envs :
    /\ S!Running(e) => \A v \in S!HeapArea : shareMem.pt[<<e, v>>] # NoFrame => Holds(e, v)
    /\ running[e] = "free" => /\ alloc[e] = {} /\ pending[e] = <<>>
                              /\ \A v \in S!HeapArea : shareMem.pt[<<e, v>>] = NoFrame

SharedInv == /\ S!TypeOK /\ KeysInv /\ PagesInv
             /\ ~lock => FramesInv /\ HeldInv

LEMMA SharedNumbers ==
  /\ IsFiniteSet(Frames) /\ HeapTop \in Nat /\ NoFrame \notin Frames
  /\ Sizes \subseteq Nat \ {0} /\ S!HeapArea = 1..HeapTop /\ S!NoVa = 0
BY SharedAssumption DEF S!SharingAssumption, S!HeapArea, S!NoVa, S!IsFiniteSet, IsFiniteSet

\* y has k references of f and the entry g in slot s, and is otherwise like x.
Entered(x, y, f, k, s, g) ==
  /\ y \in FrameMem
  /\ \A h \in Frames : y.refs[h] = IF h = f THEN k ELSE x.refs[h]
  /\ \A t \in SharedSlots : y.pt[t] = IF t = s THEN g ELSE x.pt[t]

\* The updates that the calls make.
WithEntry(x, f, k, s, g) == [x EXCEPT !.refs[f] = k, !.pt[s] = g]
WithRefs(x, f, k) == [x EXCEPT !.refs[f] = k]

(* One frame joins, or leaves, the pages of an environment.                *)
LEMMA PutEntry ==
  ASSUME NEW x \in FrameMem, NEW f \in Frames, NEW k \in Nat,
         NEW s \in SharedSlots, NEW g \in Frames \cup {NoFrame}
  PROVE  LET y == WithEntry(x, f, k, s, g)
         IN  Entered(x, y, f, k, s, g) /\ y.free = x.free
<1> DEFINE y == WithEntry(x, f, k, s, g)
           R == [x.refs EXCEPT ![f] = k]
           P == [x.pt EXCEPT ![s] = g]
<1>1. R \in [Frames -> Nat] /\ P \in [SharedSlots -> Frames \cup {NoFrame}]
  BY DEF FrameMem
<1>2. y = [[x EXCEPT !.refs = R] EXCEPT !.pt = P]
  BY DEF FrameMem, WithEntry
<1>3. /\ \A h \in Frames : R[h] = IF h = f THEN k ELSE x.refs[h]
      /\ \A t \in SharedSlots : P[t] = IF t = s THEN g ELSE x.pt[t]
  BY DEF FrameMem
<1> HIDE DEF R, P, y
<1>4. /\ [x EXCEPT !.refs = R] \in FrameMem /\ [x EXCEPT !.refs = R].free = x.free
      /\ [x EXCEPT !.refs = R].refs = R
  BY <1>1 DEF FrameMem
<1> DEFINE w == [x EXCEPT !.refs = R]
<1> HIDE DEF w
<1>5. w \in FrameMem /\ w.free = x.free /\ w.refs = R /\ y = [w EXCEPT !.pt = P]
  BY <1>2, <1>4 DEF w
<1>6. y \in FrameMem /\ y.free = x.free /\ y.refs = R /\ y.pt = P
  BY <1>1, <1>5 DEF FrameMem
<1>7. Entered(x, y, f, k, s, g)
  BY <1>3, <1>6 DEF Entered
<1> QED BY <1>6, <1>7 DEF y

\* y has k references of f, and otherwise those of x.
Recounted(x, y, f, k) ==
  /\ y \in FrameMem /\ y.free = x.free /\ y.pt = x.pt
  /\ \A h \in Frames : y.refs[h] = IF h = f THEN k ELSE x.refs[h]

(* Nothing of a page table changes.                                        *)
LEMMA PutRefs ==
  ASSUME NEW x \in FrameMem, NEW f \in Frames, NEW k \in Nat
  PROVE  Recounted(x, WithRefs(x, f, k), f, k)
<1> DEFINE R == [x.refs EXCEPT ![f] = k]
<1>1. R \in [Frames -> Nat] /\ \A h \in Frames : R[h] = IF h = f THEN k ELSE x.refs[h]
  BY DEF FrameMem
<1>2. WithRefs(x, f, k) = [x EXCEPT !.refs = R]
  BY DEF FrameMem, WithRefs
<1> HIDE DEF R
<1> QED BY <1>1, <1>2 DEF FrameMem, Recounted

LEMMA PutVa ==
  ASSUME NEW x \in FrameMem, NEW f \in Frames, NEW v \in S!HeapArea \cup {S!NoVa}
  PROVE  LET y == [x EXCEPT !.va[f] = v]
         IN  y \in FrameMem /\ y.free = x.free /\ y.refs = x.refs /\ y.pt = x.pt
BY DEF FrameMem

(* A new page: the first free frame, with one reference.                   *)
LEMMA AllocPage ==
  ASSUME NEW m \in FrameMem, NEW s \in SharedSlots, NEW va \in S!HeapArea,
         m.free # <<>>, m.pt[s] = NoFrame
  PROVE  LET r == S!NewPage(m, s, va)
             f == Head(m.free)
         IN  f \in Frames /\ Entered(m, r, f, 1, s, f) /\ r.free = Tail(m.free)
<1> DEFINE r == S!NewPage(m, s, va)
           f == Head(m.free)
           w == S!allocate_frame(m)
           p == WithRefs(m, f, 0)
           q == [p EXCEPT !.va[f] = 0]
<1>1. f \in Frames /\ f # NoFrame /\ Tail(m.free) \in Seq(Frames)
  BY OccursTail, SharedNumbers DEF FrameMem
<1> HIDE DEF f
<1>2. w = [q EXCEPT !.free = Tail(m.free)]
  BY DEF S!allocate_frame, S!initialize_frame_info, S!NoVa, f, WithRefs
<1>3. Recounted(m, p, f, 0)
  BY <1>1, PutRefs
<1> HIDE DEF p
<1>4. q \in FrameMem /\ q.refs = p.refs /\ q.pt = p.pt
  BY <1>1, <1>3, PutVa, SharedNumbers DEF Recounted
<1> HIDE DEF q
<1>5. /\ [q EXCEPT !.free = Tail(m.free)] \in FrameMem
      /\ [q EXCEPT !.free = Tail(m.free)].free = Tail(m.free)
      /\ [q EXCEPT !.free = Tail(m.free)].refs = q.refs
      /\ [q EXCEPT !.free = Tail(m.free)].pt = q.pt
  BY <1>1, <1>4 DEF FrameMem
<1>6. r = S!map_frame(w, f, s, va)
  BY DEF S!NewPage, f
<1> HIDE DEF w, r
<1>7. /\ w \in FrameMem /\ w.free = Tail(m.free) /\ w.pt = m.pt
      /\ \A h \in Frames : w.refs[h] = IF h = f THEN 0 ELSE m.refs[h]
  BY <1>2, <1>3, <1>4, <1>5 DEF Recounted
<1> DEFINE x == [w EXCEPT !.va[f] = va]
<1>8. x \in FrameMem /\ x.free = w.free /\ x.refs = w.refs /\ x.pt = w.pt
  BY <1>1, <1>7, PutVa
<1>9. x.pt[s] = NoFrame /\ S!unmap_frame(x, s) = x
  BY <1>7, <1>8 DEF S!unmap_frame
<1>10. r = [x EXCEPT !.refs[f] = @ + 1, !.pt[s] = f]
  BY <1>1, <1>6, <1>9 DEF S!map_frame
<1> HIDE DEF x
<1>11. x.refs[f] = 0
  BY <1>1, <1>7, <1>8
<1>12. r = WithEntry(x, f, 1, s, f) /\ 1 \in Nat /\ f \in Frames \cup {NoFrame}
  BY <1>1, <1>10, <1>11 DEF WithEntry
<1>13. Entered(x, r, f, 1, s, f) /\ r.free = x.free
  BY <1>1, <1>8, <1>12, PutEntry
<1>14. Entered(m, r, f, 1, s, f)
  BY <1>1, <1>7, <1>8, <1>13 DEF Entered
<1> QED BY <1>1, <1>7, <1>8, <1>13, <1>14 DEF f, r

(* map_frame: one reference more.                                          *)
LEMMA MapFrame ==
  ASSUME NEW m \in FrameMem, NEW s \in SharedSlots, NEW va \in S!HeapArea,
         NEW f \in Frames, m.pt[s] = NoFrame
  PROVE  LET r == S!map_frame(m, f, s, va)
         IN  Entered(m, r, f, m.refs[f] + 1, s, f) /\ r.free = m.free
<1> DEFINE r == S!map_frame(m, f, s, va)
           x == [m EXCEPT !.va[f] = va]
<1>1. x \in FrameMem /\ x.free = m.free /\ x.refs = m.refs /\ x.pt = m.pt
  BY PutVa
<1>2. f # NoFrame
  BY SharedNumbers
<1>3. x.pt[s] = NoFrame /\ S!unmap_frame(x, s) = x
  BY <1>1 DEF S!unmap_frame
<1>4. r = [x EXCEPT !.refs[f] = @ + 1, !.pt[s] = f]
  BY <1>2, <1>3 DEF S!map_frame
<1> HIDE DEF x, r
<1>5. m.refs[f] + 1 \in Nat /\ x.refs[f] = m.refs[f]
  BY <1>1 DEF FrameMem
<1> DEFINE k == m.refs[f] + 1
<1>6. r = WithEntry(x, f, k, s, f)
  BY <1>4, <1>5 DEF WithEntry
<1> HIDE DEF k
<1>7. k \in Nat /\ f \in Frames \cup {NoFrame}
  BY <1>5 DEF k
<1>8. Entered(x, r, f, k, s, f) /\ r.free = x.free
  BY <1>1, <1>6, <1>7, PutEntry
<1>9. Entered(m, r, f, k, s, f)
  BY <1>1, <1>8 DEF Entered
<1> QED BY <1>1, <1>8, <1>9 DEF k, r

(* unmap_frame: one reference less; the frame is freed with the last.      *)
LEMMA UnmapFrame ==
  ASSUME NEW m \in FrameMem, NEW s \in SharedSlots, NEW f \in Frames,
         m.pt[s] = f, m.refs[f] > 0
  PROVE  LET r == S!unmap_frame(m, s)
         IN  /\ Entered(m, r, f, m.refs[f] - 1, s, NoFrame)
             /\ m.refs[f] > 1 => r.free = m.free
<1> DEFINE r == S!unmap_frame(m, s)
           w == S!decrement_references(m, f)
           k == m.refs[f] - 1
<1>0. m.refs[f] \in Nat /\ m.free \in Seq(Frames) /\ k \in Nat /\ w = S!decrement_references(m, f)
  BY DEF FrameMem
<1>1. r = [w EXCEPT !.pt[s] = NoFrame]
  BY SharedNumbers DEF S!unmap_frame
<1> HIDE DEF w, r, k
<1>2. /\ w \in FrameMem /\ (m.refs[f] > 1 => w.free = m.free) /\ w.pt = m.pt
      /\ \A h \in Frames : w.refs[h] = IF h = f THEN k ELSE m.refs[h]
  <2>1. CASE m.refs[f] = 1
    <3> DEFINE q == <<f>> \o m.free
               x == WithRefs(m, f, 0)
               y == [x EXCEPT !.va[f] = 0]
    <3>1. q \in Seq(Frames)
      BY <1>0
    <3>2. w = [y EXCEPT !.free = q]
      BY <1>0, <2>1 DEF S!decrement_references, S!free_frame, S!initialize_frame_info,
                        S!NoVa, WithRefs
    <3>3. Recounted(m, x, f, 0)
      BY PutRefs
    <3> HIDE DEF x, q
    <3>4. y \in FrameMem /\ y.refs = x.refs /\ y.pt = x.pt
      BY <3>3, PutVa, SharedNumbers DEF Recounted
    <3> HIDE DEF y
    <3>5. w \in FrameMem /\ w.refs = y.refs /\ w.pt = y.pt
      BY <3>1, <3>2, <3>4 DEF FrameMem
    <3>6. k = 0
      BY <2>1 DEF k
    <3>7. \A h \in Frames : w.refs[h] = IF h = f THEN k ELSE m.refs[h]
      BY <3>3, <3>4, <3>5, <3>6 DEF Recounted
    <3>8. w.pt = m.pt /\ w \in FrameMem /\ ~(m.refs[f] > 1)
      BY <2>1, <3>3, <3>4, <3>5 DEF Recounted
    <3> QED BY <3>7, <3>8
  <2>2. CASE m.refs[f] # 1
    <3>1. w = [m EXCEPT !.refs[f] = @ - 1]
      BY <1>0, <2>2 DEF S!decrement_references
    <3>2. w = WithRefs(m, f, k)
      BY <3>1 DEF k, WithRefs
    <3>3. Recounted(m, w, f, k)
      BY <1>0, <3>2, PutRefs
    <3> QED BY <3>3 DEF Recounted
  <2> QED BY <2>1, <2>2
<1>3. /\ r \in FrameMem /\ r.free = w.free /\ r.refs = w.refs
      /\ \A t \in SharedSlots : r.pt[t] = IF t = s THEN NoFrame ELSE w.pt[t]
  BY <1>1, <1>2 DEF FrameMem
<1>4. Entered(m, r, f, k, s, NoFrame)
  BY <1>2, <1>3 DEF Entered
<1> QED BY <1>2, <1>3, <1>4 DEF k, r
----------------------------------------------------------------------------
(* The loops over the pages of an object.                                  *)

\* a is m after i pages from v of e on have got the entries h, and the frames
\* g the references c.
Walked(m, a, e, v, g, h, c, i) ==
  /\ a \in FrameMem
  /\ \A f \in Frames : a.refs[f] = IF \E j \in 1..i : g[j] = f THEN c ELSE m.refs[f]
  /\ \A u \in Envs, x \in S!HeapArea :
       a.pt[<<u, x>>] = IF u = e /\ x \in v..(v + i - 1) THEN h[x - v + 1] ELSE m.pt[<<u, x>>]

(* No page yet.                                                            *)
LEMMA WalkStart ==
  ASSUME NEW m \in FrameMem, NEW e \in Envs, NEW v \in S!HeapArea, NEW g, NEW h, NEW c
  PROVE  Walked(m, m, e, v, g, h, c, 0)
<1>1. v \in Int /\ 1..0 = {} /\ v..(v + 0 - 1) = {}
  BY SharedNumbers
<1> QED BY <1>1 DEF Walked

(* One page more.                                                          *)
LEMMA WalkStep ==
  ASSUME NEW m \in FrameMem, NEW a, NEW b, NEW e \in Envs, NEW v \in S!HeapArea,
         NEW g, NEW h, NEW c, NEW i \in Nat \ {0}, v + i - 1 \in S!HeapArea, g[i] \in Frames,
         Walked(m, a, e, v, g, h, c, i - 1),
         Entered(a, b, g[i], c, <<e, v + i - 1>>, h[i])
  PROVE  Walked(m, b, e, v, g, h, c, i)
<1>0. v \in Int /\ i \in Int /\ S!HeapArea \subseteq Int
  BY SharedNumbers
<1>1. b \in FrameMem
  BY DEF Entered
<1>2. ASSUME NEW f \in Frames
      PROVE  b.refs[f] = IF \E j \in 1..i : g[j] = f THEN c ELSE m.refs[f]
  <2>1. b.refs[f] = IF f = g[i] THEN c ELSE a.refs[f]
    BY DEF Entered
  <2>2. a.refs[f] = IF \E j \in 1..(i - 1) : g[j] = f THEN c ELSE m.refs[f]
    BY DEF Walked
  <2>3. (\E j \in 1..i : g[j] = f) <=> f = g[i] \/ \E j \in 1..(i - 1) : g[j] = f
    <3>1. \A j : j \in 1..i <=> j = i \/ j \in 1..(i - 1)
      BY <1>0
    <3> QED BY <3>1
  <2> QED BY <2>1, <2>2, <2>3
<1>3. ASSUME NEW u \in Envs, NEW x \in S!HeapArea
      PROVE  b.pt[<<u, x>>] = IF u = e /\ x \in v..(v + i - 1) THEN h[x - v + 1]
                              ELSE m.pt[<<u, x>>]
  <2>1. <<u, x>> \in SharedSlots
    BY DEF SharedSlots
  <2>2. b.pt[<<u, x>>] = IF u = e /\ x = v + i - 1 THEN h[i] ELSE a.pt[<<u, x>>]
    BY <2>1 DEF Entered
  <2>3. a.pt[<<u, x>>] = IF u = e /\ x \in v..(v + (i - 1) - 1) THEN h[x - v + 1]
                         ELSE m.pt[<<u, x>>]
    BY DEF Walked
  <2>4. /\ x = v + i - 1 => x - v + 1 = i /\ x \in v..(v + i - 1)
        /\ x # v + i - 1 => (x \in v..(v + i - 1) <=> x \in v..(v + (i - 1) - 1))
    BY <1>0
  <2> QED BY <2>2, <2>3, <2>4
<1> QED BY <1>1, <1>2, <1>3 DEF Walked

\* r is m after k pages from v of e on have got the first k free frames.
Took(m, r, e, v, k) ==
  /\ Walked(m, r, e, v, m.free, m.free, 1, k)
  /\ Len(r.free) = Len(m.free) - k
  /\ \A j \in 1..(Len(m.free) - k) : r.free[j] = m.free[j + k]

(* create_shared_object: n new frames, the first of the free ones.         *)
LEMMA MapNewLoop ==
  ASSUME NEW m \in FrameMem, m = shareMem, NEW e \in Envs, NEW v \in S!HeapArea,
         NEW k \in 0..Len(m.free),
         \A i \in 1..k : /\ v + i - 1 \in S!HeapArea
                         /\ m.pt[<<e, v + i - 1>>] = NoFrame
  PROVE  Took(m, S!MapNew(e, v, k), e, v, k)
<1> DEFINE l == m.free
           n == k
           s == [i \in 1..n |-> i]
           step(a, i) == S!NewPage(a, <<e, v + i - 1>>, v + i - 1)
           Q == [i \in 0..n |-> {a \in FrameMem :
                  /\ Walked(m, a, e, v, l, l, 1, i)
                  /\ Len(a.free) = Len(l) - i
                  /\ \A j \in 1..(Len(l) - i) : a.free[j] = l[j + i]}]
           G == [i \in 1..n |-> [a \in FrameMem |-> step(a, s[i])]]
           from(x) == CHOOSE f : f = [i \in 0..n |-> IF i = 0 THEN x ELSE step(f[i - 1], s[i])]
           after == from(m)
           r == S!MapNew(e, v, n)
<1>1. n \in Nat /\ n <= Len(l) /\ Len(s) = n /\ l \in Seq(Frames) /\ Len(l) \in Nat
  BY DEF FrameMem
<1>2. r = after[n]
  <2>1. r = from(shareMem)[n]
    BY <1>1 DEF S!MapNew, S!Each
  <2> HIDE DEF r, from
  <2> QED BY <2>1
<1>3. Q \in [0..n -> SUBSET FrameMem]
  OBVIOUS
<1>4. m \in Q[0]
  <2>1. \A j \in 1..(Len(l) - 0) : l[j] = l[j + 0]
    BY <1>1
  <2> QED BY <1>1, <2>1, WalkStart
<1>5. ASSUME NEW i \in 1..n, NEW a \in Q[i - 1] PROVE G[i][a] \in Q[i]
  <2>1. /\ i \in Nat \ {0} /\ i - 1 \in 0..n /\ i \in 0..n /\ v + i - 1 \in S!HeapArea
        /\ m.pt[<<e, v + i - 1>>] = NoFrame /\ Len(l) - (i - 1) >= 1
        /\ <<e, v + i - 1>> \in SharedSlots /\ 1 + (i - 1) = i
    BY <1>1 DEF SharedSlots
  <2>2. /\ a \in FrameMem /\ Walked(m, a, e, v, l, l, 1, i - 1)
        /\ Len(a.free) = Len(l) - (i - 1)
        /\ \A j \in 1..(Len(l) - (i - 1)) : a.free[j] = l[j + (i - 1)]
    BY <2>1
  <2>3. G[i][a] = step(a, i)
    BY <2>2
  <2> DEFINE c == step(a, i)
  <2>4. a.free \in Seq(Frames) /\ a.free # <<>> /\ Head(a.free) = l[i]
    <3>1. a.free \in Seq(Frames)
      BY <2>2 DEF FrameMem
    <3>2. a.free # <<>>
      BY <1>1, <2>1, <2>2, <3>1
    <3>3. a.free[1] = l[i]
      BY <1>1, <2>1, <2>2
    <3> QED BY <3>1, <3>2, <3>3
  <2>5. a.pt[<<e, v + i - 1>>] = NoFrame
    <3>1. v + i - 1 \notin v..(v + (i - 1) - 1)
      BY <2>1, SharedNumbers
    <3> QED BY <2>1, <2>2, <3>1 DEF Walked
  <2>6. /\ l[i] \in Frames /\ Entered(a, c, l[i], 1, <<e, v + i - 1>>, l[i])
        /\ c.free = Tail(a.free)
    <3> HIDE DEF l
    <3> QED BY <2>1, <2>2, <2>4, <2>5, AllocPage
  <2> HIDE DEF c, G, s
  <2>7. Walked(m, c, e, v, l, l, 1, i)
    <3> HIDE DEF l
    <3> QED BY <2>1, <2>2, <2>6, WalkStep
  <2>8. Len(c.free) = Len(l) - i /\ \A j \in 1..(Len(l) - i) : c.free[j] = l[j + i]
    <3>1. /\ Len(Tail(a.free)) = Len(a.free) - 1
          /\ \A j \in 1..Len(Tail(a.free)) : Tail(a.free)[j] = a.free[j + 1]
      BY <2>4, HeadTailProperties
    <3>2. ASSUME NEW j \in 1..(Len(l) - i) PROVE c.free[j] = l[j + i]
      <4>1. /\ j \in 1..Len(Tail(a.free)) /\ j + 1 \in 1..(Len(l) - (i - 1))
            /\ (j + 1) + (i - 1) = j + i
        BY <1>1, <2>1, <2>2, <3>1
      <4> QED BY <2>2, <2>6, <3>1, <4>1
    <3>3. Len(c.free) = Len(l) - i
      BY <1>1, <2>1, <2>2, <2>6, <3>1
    <3> QED BY <3>2, <3>3
  <2>9. c \in FrameMem
    BY <2>7 DEF Walked
  <2>10. c \in Q[i]
    BY <2>1, <2>7, <2>8, <2>9
  <2> QED BY <2>3, <2>10 DEF c
<1> HIDE DEF Q
<1>6. /\ \E f \in [0..n -> FrameMem] : f[0] = m /\ \A i \in 1..n : f[i] = G[i][f[i - 1]]
      /\ \A f : (/\ f[0] = m
                 /\ \A i \in 1..n : f[i - 1] \in FrameMem => f[i] = G[i][f[i - 1]])
                => f[n] \in Q[n]
  <2>1. n \in Nat /\ \A i \in 1..n : \A a \in Q[i - 1] : G[i][a] \in Q[i]
    BY <1>1, <1>5
  <2> HIDE DEF G, n, after, r, s, l
  <2>2. Leads(n, FrameMem, Q, G, m)
    BY <1>3, <1>4, <2>1 DEF Leads
  <2> QED BY <2>2, Chain
<1>7. after = [i \in 0..n |-> IF i = 0 THEN m ELSE step(after[i - 1], s[i])]
  <2>1. PICK f \in [0..n -> FrameMem] : f[0] = m /\ \A i \in 1..n : f[i] = G[i][f[i - 1]]
    BY <1>6
  <2>2. ASSUME NEW i \in 0..n PROVE f[i] = IF i = 0 THEN m ELSE step(f[i - 1], s[i])
    <3>1. CASE i = 0
      BY <2>1, <3>1
    <3>2. CASE i # 0
      <4>1. i \in 1..n /\ i - 1 \in 0..n
        BY <1>1, <3>2
      <4>2. f[i - 1] \in FrameMem
        BY <4>1
      <4> QED BY <2>1, <3>2, <4>1, <4>2
    <3> QED BY <3>1, <3>2
  <2> HIDE DEF G, s, step
  <2>3. f = [i \in 0..n |-> IF i = 0 THEN m ELSE step(f[i - 1], s[i])]
    BY <2>2
  <2> QED BY <2>3
<1>8. after[0] = m /\ \A i \in 1..n : after[i - 1] \in FrameMem => after[i] = G[i][after[i - 1]]
  <2>1. ASSUME NEW i \in 1..n, after[i - 1] \in FrameMem PROVE after[i] = G[i][after[i - 1]]
    <3>1. i \in 0..n /\ i # 0
      BY <1>1
    <3>2. after[i] = step(after[i - 1], s[i])
      <4> HIDE DEF step, s, after, G
      <4> QED BY <1>7, <3>1
    <3> HIDE DEF after, step, s
    <3> QED BY <2>1, <3>2
  <2>2. after[0] = m
    <3> HIDE DEF step, s, after, G
    <3> QED BY <1>1, <1>7
  <2> QED BY <2>1, <2>2
<1>9. r \in Q[n]
  <2> HIDE DEF after, G, r, n
  <2> QED BY <1>2, <1>6, <1>8
<1>10. /\ Walked(m, r, e, v, l, l, 1, n) /\ Len(r.free) = Len(l) - n
       /\ \A j \in 1..(Len(l) - n) : r.free[j] = l[j + n]
  BY <1>1, <1>9 DEF Q
<1>11. Took(m, r, e, v, n)
  <2> HIDE DEF r, n
  <2> QED BY <1>10 DEF Took, l
<1> QED BY <1>11 DEF r, n

\* The loops over the pages of an object o, from page v of e on: the entries
\* are g, and its frames have k references.
Ready(m, e, v, o, g, k) ==
  \A i \in 1..o.size :
    /\ v + i - 1 \in S!HeapArea /\ m.pt[<<e, v + i - 1>>] = g[i]
    /\ o.frames[i] \in Frames /\ m.refs[o.frames[i]] = k
    /\ \A j \in 1..o.size : o.frames[i] = o.frames[j] => i = j

None(o) == [i \in 1..o.size |-> NoFrame]

(* get_shared_object: every page of the object o, one reference more.      *)
LEMMA MapShareLoop ==
  ASSUME NEW m \in FrameMem, m = shareMem, NEW e \in Envs, NEW v \in S!HeapArea,
         NEW o, o.size \in Nat, NEW k \in Nat, Ready(m, e, v, o, None(o), k)
  PROVE  LET r == S!MapShare(e, v, o)
         IN  Walked(m, r, e, v, o.frames, o.frames, k + 1, o.size) /\ r.free = m.free
<1> DEFINE g == o.frames
           n == o.size
           s == [i \in 1..n |-> i]
           h == g
           c == k + 1
           Free(a) == a.free = m.free
           step(a, i) == IF v + i - 1 \in S!HeapArea
                         THEN S!map_frame(a, g[i], <<e, v + i - 1>>, v + i - 1) ELSE a
           Q == [i \in 0..n |-> {a \in FrameMem : Walked(m, a, e, v, g, h, c, i) /\ Free(a)}]
           G == [i \in 1..n |-> [a \in FrameMem |-> step(a, s[i])]]
           from(x) == CHOOSE f : f = [i \in 0..n |-> IF i = 0 THEN x ELSE step(f[i - 1], s[i])]
           after == from(m)
           r == S!MapShare(e, v, o)
<1>1. n \in Nat /\ Len(s) = n
  OBVIOUS
<1>2. r = after[n]
  <2>1. r = from(shareMem)[n]
    <3>1. r = LET t == [i \in 1..n |-> i]
                  f == CHOOSE f : f = [i \in 0..Len(t) |->
                                         IF i = 0 THEN shareMem ELSE step(f[i - 1], t[i])]
              IN f[Len(t)]
      BY Zenon DEF S!MapShare, S!Each
    <3> HIDE DEF step, r
    <3> QED BY <1>1, <3>1
  <2> HIDE DEF r, from
  <2> QED BY <2>1
<1>3. Q \in [0..n -> SUBSET FrameMem]
  OBVIOUS
<1>4. m \in Q[0]
  BY <1>1, WalkStart
<1>5. ASSUME NEW i \in 1..n, NEW a \in Q[i - 1] PROVE G[i][a] \in Q[i]
  <2>1. /\ i \in Nat \ {0} /\ i - 1 \in 0..n /\ i \in 0..n /\ v + i - 1 \in S!HeapArea
        /\ <<e, v + i - 1>> \in SharedSlots /\ g[i] \in Frames
        /\ \A j \in 1..(i - 1) : g[j] # g[i]
        /\ m.pt[<<e, v + i - 1>>] = NoFrame /\ m.refs[g[i]] = k
    BY <1>1 DEF SharedSlots, Ready, None
  <2>2. /\ a \in FrameMem /\ Walked(m, a, e, v, g, h, c, i - 1) /\ Free(a)
    BY <2>1
  <2>3. G[i][a] = step(a, i)
    BY <2>2
  <2> DEFINE b == step(a, i)
  <2>4. a.pt[<<e, v + i - 1>>] = m.pt[<<e, v + i - 1>>] /\ a.refs[g[i]] = m.refs[g[i]]
    <3>1. v + i - 1 \notin v..(v + (i - 1) - 1)
      BY <2>1, SharedNumbers
    <3> QED BY <2>1, <2>2, <3>1 DEF Walked
  <2>5. Entered(a, b, g[i], c, <<e, v + i - 1>>, h[i]) /\ Free(b)
    <3>1. /\ a.pt[<<e, v + i - 1>>] = NoFrame /\ a.refs[g[i]] + 1 = c /\ h[i] = g[i]
          /\ b = S!map_frame(a, g[i], <<e, v + i - 1>>, v + i - 1)
      BY <2>1, <2>4
    <3> HIDE DEF g, c, h, b
    <3> QED BY <2>1, <2>2, <3>1, MapFrame
  <2> HIDE DEF b, G, s
  <2>6. Walked(m, b, e, v, g, h, c, i)
    <3> HIDE DEF g, h, c
    <3> QED BY <2>1, <2>2, <2>5, WalkStep
  <2>7. b \in FrameMem
    BY <2>6 DEF Walked
  <2>8. b \in Q[i]
    BY <2>1, <2>5, <2>6, <2>7
  <2> QED BY <2>3, <2>8 DEF b
<1> HIDE DEF Q
<1>6. /\ \E f \in [0..n -> FrameMem] : f[0] = m /\ \A i \in 1..n : f[i] = G[i][f[i - 1]]
      /\ \A f : (/\ f[0] = m
                 /\ \A i \in 1..n : f[i - 1] \in FrameMem => f[i] = G[i][f[i - 1]])
                => f[n] \in Q[n]
  <2>1. n \in Nat /\ \A i \in 1..n : \A a \in Q[i - 1] : G[i][a] \in Q[i]
    BY <1>1, <1>5
  <2> HIDE DEF G, n, after, r, s, g, h, c
  <2>2. Leads(n, FrameMem, Q, G, m)
    BY <1>3, <1>4, <2>1 DEF Leads
  <2> QED BY <2>2, Chain
<1>7. after = [i \in 0..n |-> IF i = 0 THEN m ELSE step(after[i - 1], s[i])]
  <2>1. PICK f \in [0..n -> FrameMem] : f[0] = m /\ \A i \in 1..n : f[i] = G[i][f[i - 1]]
    BY <1>6
  <2>2. ASSUME NEW i \in 0..n PROVE f[i] = IF i = 0 THEN m ELSE step(f[i - 1], s[i])
    <3>1. CASE i = 0
      BY <2>1, <3>1
    <3>2. CASE i # 0
      <4>1. i \in 1..n /\ i - 1 \in 0..n
        BY <1>1, <3>2
      <4>2. f[i - 1] \in FrameMem
        BY <4>1
      <4> QED BY <2>1, <3>2, <4>1, <4>2
    <3> QED BY <3>1, <3>2
  <2> HIDE DEF G, s, step
  <2>3. f = [i \in 0..n |-> IF i = 0 THEN m ELSE step(f[i - 1], s[i])]
    BY <2>2
  <2> QED BY <2>3
<1>8. after[0] = m /\ \A i \in 1..n : after[i - 1] \in FrameMem => after[i] = G[i][after[i - 1]]
  <2>1. ASSUME NEW i \in 1..n, after[i - 1] \in FrameMem PROVE after[i] = G[i][after[i - 1]]
    <3>1. i \in 0..n /\ i # 0
      BY <1>1
    <3>2. after[i] = step(after[i - 1], s[i])
      <4> HIDE DEF step, s, after, G
      <4> QED BY <1>7, <3>1
    <3> HIDE DEF after, step, s
    <3> QED BY <2>1, <3>2
  <2>2. after[0] = m
    <3> HIDE DEF step, s, after, G
    <3> QED BY <1>1, <1>7
  <2> QED BY <2>1, <2>2
<1>9. r \in Q[n]
  <2> HIDE DEF after, G, r, n
  <2> QED BY <1>2, <1>6, <1>8
<1> QED BY <1>1, <1>9 DEF Q

(* delete_shared_object: every page of the object o, one reference less.   *)
LEMMA UnmappedLoop ==
  ASSUME NEW m \in FrameMem, m = shareMem, NEW e \in Envs, NEW v \in S!HeapArea,
         NEW o, o.size \in Nat, NEW k \in Nat \ {0}, Ready(m, e, v, o, o.frames, k)
  PROVE  LET r == S!Unmapped(e, v, o)
         IN  Walked(m, r, e, v, o.frames, None(o), k - 1, o.size) /\ (k > 1 => r.free = m.free)
<1> DEFINE g == o.frames
           n == o.size
           s == [i \in 1..n |-> i]
           h == None(o)
           c == k - 1
           Free(a) == k > 1 => a.free = m.free
           step(a, i) == IF v + i - 1 \in S!HeapArea
                         THEN S!unmap_frame(a, <<e, v + i - 1>>) ELSE a
           Q == [i \in 0..n |-> {a \in FrameMem : Walked(m, a, e, v, g, h, c, i) /\ Free(a)}]
           G == [i \in 1..n |-> [a \in FrameMem |-> step(a, s[i])]]
           from(x) == CHOOSE f : f = [i \in 0..n |-> IF i = 0 THEN x ELSE step(f[i - 1], s[i])]
           after == from(m)
           r == S!Unmapped(e, v, o)
<1>1. n \in Nat /\ Len(s) = n
  OBVIOUS
<1>2. r = after[n]
  <2>1. r = from(shareMem)[n]
    <3>1. r = LET t == [i \in 1..n |-> i]
                  f == CHOOSE f : f = [i \in 0..Len(t) |->
                                         IF i = 0 THEN shareMem ELSE step(f[i - 1], t[i])]
              IN f[Len(t)]
      BY Zenon DEF S!Unmapped, S!Each
    <3> HIDE DEF step, r
    <3> QED BY <1>1, <3>1
  <2> HIDE DEF r, from
  <2> QED BY <2>1
<1>3. Q \in [0..n -> SUBSET FrameMem]
  OBVIOUS
<1>4. m \in Q[0]
  BY <1>1, WalkStart
<1>5. ASSUME NEW i \in 1..n, NEW a \in Q[i - 1] PROVE G[i][a] \in Q[i]
  <2>1. /\ i \in Nat \ {0} /\ i - 1 \in 0..n /\ i \in 0..n /\ v + i - 1 \in S!HeapArea
        /\ <<e, v + i - 1>> \in SharedSlots /\ g[i] \in Frames
        /\ \A j \in 1..(i - 1) : g[j] # g[i]
        /\ m.pt[<<e, v + i - 1>>] = g[i] /\ m.refs[g[i]] = k
    BY <1>1 DEF SharedSlots, Ready
  <2>2. /\ a \in FrameMem /\ Walked(m, a, e, v, g, h, c, i - 1) /\ Free(a)
    BY <2>1
  <2>3. G[i][a] = step(a, i)
    BY <2>2
  <2> DEFINE b == step(a, i)
  <2>4. a.pt[<<e, v + i - 1>>] = m.pt[<<e, v + i - 1>>] /\ a.refs[g[i]] = m.refs[g[i]]
    <3>1. v + i - 1 \notin v..(v + (i - 1) - 1)
      BY <2>1, SharedNumbers
    <3> QED BY <2>1, <2>2, <3>1 DEF Walked
  <2>5. Entered(a, b, g[i], c, <<e, v + i - 1>>, h[i]) /\ Free(b)
    <3>1. /\ a.pt[<<e, v + i - 1>>] = g[i] /\ a.refs[g[i]] = k /\ k > 0 /\ h[i] = NoFrame
          /\ b = S!unmap_frame(a, <<e, v + i - 1>>)
      BY <2>1, <2>4 DEF None
    <3> HIDE DEF g, h, b
    <3> QED BY <2>1, <2>2, <3>1, UnmapFrame
  <2> HIDE DEF b, G, s
  <2>6. Walked(m, b, e, v, g, h, c, i)
    <3> HIDE DEF g, h, c
    <3> QED BY <2>1, <2>2, <2>5, WalkStep
  <2>7. b \in FrameMem
    BY <2>6 DEF Walked
  <2>8. b \in Q[i]
    BY <2>1, <2>5, <2>6, <2>7
  <2> QED BY <2>3, <2>8 DEF b
<1> HIDE DEF Q
<1>6. /\ \E f \in [0..n -> FrameMem] : f[0] = m /\ \A i \in 1..n : f[i] = G[i][f[i - 1]]
      /\ \A f : (/\ f[0] = m
                 /\ \A i \in 1..n : f[i - 1] \in FrameMem => f[i] = G[i][f[i - 1]])
                => f[n] \in Q[n]
  <2>1. n \in Nat /\ \A i \in 1..n : \A a \in Q[i - 1] : G[i][a] \in Q[i]
    BY <1>1, <1>5
  <2> HIDE DEF G, n, after, r, s, g, h, c
  <2>2. Leads(n, FrameMem, Q, G, m)
    BY <1>3, <1>4, <2>1 DEF Leads
  <2> QED BY <2>2, Chain
<1>7. after = [i \in 0..n |-> IF i = 0 THEN m ELSE step(after[i - 1], s[i])]
  <2>1. PICK f \in [0..n -> FrameMem] : f[0] = m /\ \A i \in 1..n : f[i] = G[i][f[i - 1]]
    BY <1>6
  <2>2. ASSUME NEW i \in 0..n PROVE f[i] = IF i = 0 THEN m ELSE step(f[i - 1], s[i])
    <3>1. CASE i = 0
      BY <2>1, <3>1
    <3>2. CASE i # 0
      <4>1. i \in 1..n /\ i - 1 \in 0..n
        BY <1>1, <3>2
      <4>2. f[i - 1] \in FrameMem
        BY <4>1
      <4> QED BY <2>1, <3>2, <4>1, <4>2
    <3> QED BY <3>1, <3>2
  <2> HIDE DEF G, s, step
  <2>3. f = [i \in 0..n |-> IF i = 0 THEN m ELSE step(f[i - 1], s[i])]
    BY <2>2
  <2> QED BY <2>3
<1>8. after[0] = m /\ \A i \in 1..n : after[i - 1] \in FrameMem => after[i] = G[i][after[i - 1]]
  <2>1. ASSUME NEW i \in 1..n, after[i - 1] \in FrameMem PROVE after[i] = G[i][after[i - 1]]
    <3>1. i \in 0..n /\ i # 0
      BY <1>1
    <3>2. after[i] = step(after[i - 1], s[i])
      <4> HIDE DEF step, s, after, G
      <4> QED BY <1>7, <3>1
    <3> HIDE DEF after, step, s
    <3> QED BY <2>1, <3>2
  <2>2. after[0] = m
    <3> HIDE DEF step, s, after, G
    <3> QED BY <1>1, <1>7
  <2> QED BY <2>1, <2>2
<1>9. r \in Q[n]
  <2> HIDE DEF after, G, r, n
  <2> QED BY <1>2, <1>6, <1>8
<1> QED BY <1>1, <1>9 DEF Q
----------------------------------------------------------------------------
(* The list of shares.                                                     *)

(* What TypeOK says in the words of these proofs.                          *)
LEMMA SharedTypes ==
  ASSUME S!TypeOK
  PROVE  /\ shareMem \in FrameMem /\ shares \in Seq(S!Share)
         /\ S!Listed = {shares[i] : i \in DOMAIN shares} /\ S!Listed \subseteq S!Share
         /\ \A e \in Envs : /\ alloc[e] \subseteq Objects
                            /\ pending[e] \in Seq(Requests)
                            /\ Len(pending[e]) <= 1
                            /\ running[e] \in {"running", "exit", "free"} /\ gen[e] \in Nat
         /\ pending \in [Envs -> Seq(Requests)]
<1>1. shareMem \in FrameMem
  BY DEF S!TypeOK, S!IsMemory, FrameMem, SharedSlots
<1>2. shares \in Seq(S!Share)
  BY DEF S!TypeOK
<1>3. S!Listed = {shares[i] : i \in DOMAIN shares}
  BY DEF S!Listed, S!ToSet
<1>4. S!Listed \subseteq S!Share
  BY <1>2, <1>3
<1>6. pending \in [Envs -> Seq(Requests)]
  BY DEF S!TypeOK, Requests
<1>5. ASSUME NEW e \in Envs
      PROVE  /\ alloc[e] \subseteq Objects
             /\ pending[e] \in Seq(Requests)
             /\ Len(pending[e]) <= 1
             /\ running[e] \in {"running", "exit", "free"} /\ gen[e] \in Nat
  BY <1>6 DEF S!TypeOK, Objects
<1> QED BY <1>1, <1>2, <1>3, <1>4, <1>5, <1>6

(* The fields of a share.                                                  *)
LEMMA ShareFields ==
  ASSUME NEW s \in S!Share
  PROVE  /\ s.id \in Ids /\ s.owner \in Envs \X Nat /\ s.name \in Names
         /\ s.size \in Nat \ {0} /\ s.size \in Sizes /\ s.references \in Nat
         /\ s.frames \in Seq(Frames \cup {NoFrame})
BY SharedNumbers DEF S!Share

(* IDs tell the objects apart.                                             *)
LEMMA OneShare ==
  ASSUME S!TypeOK, KeysInv, NEW s \in S!Listed, NEW t \in S!Listed, s.id = t.id
  PROVE  s = t
BY SharedTypes DEF KeysInv, Told

(* find_share returns an object of that owner and name, if there is one.   *)
LEMMA FoundShare ==
  ASSUME S!TypeOK, NEW o, NEW a
  PROVE  /\ S!Found(o, a) = <<>> => \A s \in S!Listed : ~(s.owner = o /\ s.name = a)
         /\ S!Found(o, a) # <<>> => LET s == Head(S!Found(o, a))
                                    IN  s \in S!Listed /\ s.owner = o /\ s.name = a
<1> DEFINE P == {s \in S!Listed : s.owner = o /\ s.name = a}
           r == S!Found(o, a)
<1>1. r = Filter(shares, P)
  <2>1. r = S!Filter(shares, P)
    BY DEF S!Found
  <2>2. S!Filter(shares, P) = Filter(shares, P)
    <3> HIDE DEF P
    <3> QED BY Zenon DEF S!Filter, S!PlacesOf, S!Nth, S!Rank, Filter, PlacesOf, Nth, Rank,
                       S!Cardinality, Cardinality, S!IsFiniteSet, IsFiniteSet
  <2> QED BY <2>1, <2>2
<1>2. shares \in Seq(S!Share) /\ S!Listed = {shares[i] : i \in DOMAIN shares}
  BY SharedTypes
<1> HIDE DEF r, P
<1>3. r \in Seq(S!Share) /\ \A s : Occurs(r, s) <=> Occurs(shares, s) /\ s \in P
  BY <1>1, <1>2, FilterType, FilterOccurs
<1>4. ASSUME r = <<>>, NEW s \in S!Listed PROVE ~(s.owner = o /\ s.name = a)
  <2>1. ~Occurs(r, s) /\ Occurs(shares, s)
    BY <1>2, <1>4, OccursEmpty DEF Occurs
  <2> QED BY <1>3, <2>1 DEF P
<1>5. ASSUME r # <<>> PROVE Head(r) \in S!Listed /\ Head(r).owner = o /\ Head(r).name = a
  <2>1. Occurs(r, Head(r))
    BY <1>3, <1>5, OccursTail
  <2> QED BY <1>3, <2>1 DEF P
<1> QED BY <1>4, <1>5 DEF r

(* A new object joins the list, which is not taken for one that is there.  *)
LEMMA NewShare ==
  ASSUME S!TypeOK, KeysInv, NEW z \in S!Share, shares' = <<z>> \o shares,
         Len(z.frames) = z.size,
         \A t \in S!Listed : Told(t, z)
  PROVE  /\ shares' \in Seq(S!Share) /\ S!Listed' = S!Listed \cup {z} /\ KeysInv'
<1>1. shares \in Seq(S!Share) /\ S!Listed = {shares[i] : i \in DOMAIN shares}
  BY SharedTypes
<1>2. /\ shares' \in Seq(S!Share) /\ DOMAIN shares' = 1..(Len(shares) + 1)
      /\ shares'[1] = z /\ \A i \in 1..Len(shares) : shares'[i + 1] = shares[i]
      /\ DOMAIN shares = 1..Len(shares) /\ Len(shares) \in Nat
  BY <1>1
<1>3. \A i \in DOMAIN shares' : \/ i = 1 /\ shares'[i] = z
                                \/ /\ i - 1 \in DOMAIN shares /\ i \in Int
                                   /\ shares'[i] = shares[i - 1]
  <2>1. \A i \in 1..(Len(shares) + 1) : i = 1 \/ (i - 1 \in 1..Len(shares) /\ (i - 1) + 1 = i)
    BY <1>2
  <2> QED BY <1>2, <2>1
<1>4. S!Listed' = {shares'[i] : i \in DOMAIN shares'}
  BY DEF S!Listed, S!ToSet
<1>5. S!Listed' = S!Listed \cup {z}
  <2>1. \A i \in DOMAIN shares : i + 1 \in DOMAIN shares' /\ shares'[i + 1] = shares[i]
    BY <1>2
  <2>2. 1 \in DOMAIN shares' /\ shares'[1] = z
    BY <1>2
  <2>3. ASSUME NEW i \in DOMAIN shares' PROVE shares'[i] \in S!Listed \cup {z}
    BY <1>1, <1>3
  <2>4. S!Listed \subseteq S!Listed'
    BY <1>1, <1>4, <2>1
  <2> QED BY <1>4, <2>2, <2>3, <2>4
<1>6. ASSUME NEW i \in DOMAIN shares', NEW j \in DOMAIN shares',
             i # j
      PROVE  Told(shares'[i], shares'[j])
  <2>0. \A t \in S!Listed : Told(t, z) /\ Told(z, t)
    BY DEF Told
  <2>1. \A k \in DOMAIN shares : shares[k] \in S!Listed
    BY <1>1
  <2>2. CASE i = 1 \/ j = 1
    <3>1. \A k \in DOMAIN shares' : k # 1 => shares'[k] \in S!Listed
      BY <1>3, <2>1
    <3>2. shares'[1] = z
      BY <1>2
    <3>3. CASE i = 1
      BY <1>6, <2>0, <3>1, <3>2, <3>3
    <3>4. CASE j = 1
      BY <1>6, <2>0, <3>1, <3>2, <3>4
    <3> QED BY <2>2, <3>3, <3>4
  <2>3. CASE i # 1 /\ j # 1
    <3>1. /\ i - 1 \in DOMAIN shares /\ i \in Int /\ shares'[i] = shares[i - 1]
          /\ j - 1 \in DOMAIN shares /\ j \in Int /\ shares'[j] = shares[j - 1]
      BY <1>3, <2>3
    <3> DEFINE a == i - 1
               b == j - 1
    <3>2. /\ a \in DOMAIN shares /\ shares'[i] = shares[a]
          /\ b \in DOMAIN shares /\ shares'[j] = shares[b]
      BY <3>1
    <3>3. a # b
      BY <1>6, <3>1
    <3> HIDE DEF a, b
    <3> QED BY <3>2, <3>3 DEF KeysInv
  <2> QED BY <2>2, <2>3
<1>7. \A s \in S!Listed' : Len(s.frames) = s.size
  BY <1>5 DEF KeysInv
<1>8. KeysInv'
  BY <1>6, <1>7 DEF KeysInv, Told, S!IsCut
<1> QED BY <1>2, <1>5, <1>8

(* The references of one object change.                                    *)
LEMMA Rereferenced ==
  ASSUME S!TypeOK, KeysInv, NEW s \in S!Listed, NEW d \in Int, s.references + d \in Nat,
         shares' = S!Referenced(s, d)
  PROVE  \E z \in S!Share :
           /\ z.id = s.id /\ z.owner = s.owner /\ z.name = s.name /\ z.size = s.size
           /\ z.frames = s.frames /\ z.references = s.references + d
           /\ shares' \in Seq(S!Share) /\ S!Listed' = (S!Listed \ {s}) \cup {z}
           /\ KeysInv'
<1> DEFINE z == [s EXCEPT !.references = @ + d]
<1>1. /\ shares \in Seq(S!Share) /\ S!Listed = {shares[i] : i \in DOMAIN shares}
      /\ S!Listed \subseteq S!Share
  BY SharedTypes
<1>2. /\ z \in S!Share /\ z.id = s.id /\ z.owner = s.owner /\ z.name = s.name
      /\ z.size = s.size /\ z.frames = s.frames /\ z.references = s.references + d
  BY <1>1 DEF S!Share
<1>3. /\ DOMAIN shares' = DOMAIN shares
      /\ \A i \in DOMAIN shares : shares'[i] = IF shares[i] = s THEN z ELSE shares[i]
  <2>1. \A i \in DOMAIN shares : shares[i].id = s.id <=> shares[i] = s
    BY <1>1, OneShare
  <2> QED BY <2>1 DEF S!Referenced
<1> HIDE DEF z
<1>4. shares' \in Seq(S!Share)
  <2>1. DOMAIN shares = 1..Len(shares) /\ Len(shares) \in Nat
    BY <1>1
  <2>2. \A i \in 1..Len(shares) : shares'[i] \in S!Share
    BY <1>1, <1>2, <1>3, <2>1
  <2>3. shares' = [i \in 1..Len(shares) |-> shares'[i]]
    BY <1>3, <2>1 DEF S!Referenced
  <2> QED BY <2>1, <2>2, <2>3, IsASeq
<1>5. S!Listed' = (S!Listed \ {s}) \cup {z}
  <2>1. S!Listed' = {shares'[i] : i \in DOMAIN shares'}
    BY DEF S!Listed, S!ToSet
  <2>2. \E i \in DOMAIN shares : shares[i] = s
    BY <1>1
  <2> QED BY <1>1, <1>3, <2>1, <2>2
<1>6. \A i \in DOMAIN shares : /\ shares'[i].id = shares[i].id
                               /\ shares'[i].owner = shares[i].owner
                               /\ shares'[i].name = shares[i].name
  BY <1>2, <1>3
<1>7. \A t \in S!Listed' : Len(t.frames) = t.size
  BY <1>2, <1>5 DEF KeysInv
<1>8. KeysInv'
  BY <1>3, <1>6, <1>7 DEF KeysInv, Told, S!IsCut
<1> QED BY <1>2, <1>4, <1>5, <1>8
----------------------------------------------------------------------------
(* What a loop leaves alone.                                               *)

\* b and m differ, in the tables, at most in the pages P of e.
Elsewhere(m, b, e, P) ==
  \A u \in Envs, x \in S!HeapArea : ~(u = e /\ x \in P) => b.pt[<<u, x>>] = m.pt[<<u, x>>]

LEMMA WalkedElsewhere ==
  ASSUME NEW m, NEW b, NEW e \in Envs, NEW v, NEW g, NEW h, NEW c, NEW i,
         Walked(m, b, e, v, g, h, c, i)
  PROVE  b \in FrameMem /\ Elsewhere(m, b, e, S!Extent(v, i))
BY DEF Walked, Elsewhere, S!Extent

(* An object that those pages do not belong to stays backed.               *)
LEMMA StillBacked ==
  ASSUME NEW m, NEW b, NEW e \in Envs, NEW P, Elsewhere(m, b, e, P),
         NEW u \in Envs, NEW r, NEW s, Backs(m, s, u, r),
         u = e => \A i \in 1..s.size : r.va + i - 1 \notin P,
         NEW z, z.id = s.id, z.size = s.size, z.frames = s.frames
  PROVE  Backs(b, z, u, r)
<1>1. \A i \in 1..s.size : b.pt[<<u, r.va + i - 1>>] = m.pt[<<u, r.va + i - 1>>]
  BY DEF Backs, Elsewhere
<1> QED BY <1>1 DEF Backs

(* Nor do pages at which nothing was mapped.                               *)
LEMMA EmptyStillBacked ==
  ASSUME NEW m, NEW b, NEW e \in Envs, NEW P, Elsewhere(m, b, e, P),
         \A x \in P : m.pt[<<e, x>>] = NoFrame,
         NEW u \in Envs, NEW r, NEW s, Backs(m, s, u, r),
         NEW z, z.id = s.id, z.size = s.size, z.frames = s.frames
  PROVE  Backs(b, z, u, r)
<1>1. u = e => \A i \in 1..s.size : r.va + i - 1 \notin P
  BY DEF Backs
<1> QED BY <1>1, StillBacked

(* The pages of a place, by their numbers.                                 *)
LEMMA ExtentPages ==
  ASSUME NEW v \in S!HeapArea, NEW n \in Nat
  PROVE  /\ \A i \in 1..n : v + i - 1 \in S!Extent(v, n)
         /\ \A x \in S!Extent(v, n) : x - v + 1 \in 1..n /\ v + (x - v + 1) - 1 = x
         /\ \A k \in 0..n : S!Extent(v, k) \subseteq S!Extent(v, n)
BY SharedNumbers DEF S!Extent

(* The frames of create_shared_object, mapped where nothing was.           *)
LEMMA MapNewStep ==
  ASSUME S!TypeOK, NEW e \in Envs, NEW v \in S!HeapArea, NEW n \in Nat, S!Fresh(e, v, n),
         NEW k, k \in 0..Len(shareMem.free), k <= n
  PROVE  Took(shareMem, S!MapNew(e, v, k), e, v, k)
<1>1. k \in 0..n /\ shareMem \in FrameMem
  BY SharedTypes DEF FrameMem
<1>2. \A i \in 1..k : /\ v + i - 1 \in S!HeapArea
                      /\ shareMem.pt[<<e, v + i - 1>>] = NoFrame
  <2>1. \A i \in 1..k : i \in 1..n
    BY <1>1
  <2> QED BY <2>1, ExtentPages DEF S!Fresh
<1>3. PICK m \in FrameMem : m = shareMem
  BY <1>1
<1>4. /\ \A i \in 1..k : v + i - 1 \in S!HeapArea /\ m.pt[<<e, v + i - 1>>] = NoFrame
      /\ k \in 0..Len(m.free)
  BY <1>2, <1>3
<1>5. Took(m, S!MapNew(e, v, k), e, v, k)
  BY <1>3, <1>4, MapNewLoop
<1> QED BY <1>3, <1>5

(* The loop gets no further than there are free frames.                    *)
LEMMA SufficientFrames ==
  ASSUME S!TypeOK, NEW e \in Envs, NEW v \in S!HeapArea, NEW n \in Nat, S!Fresh(e, v, n),
         S!Suffice(e, v, n)
  PROVE  n <= Len(shareMem.free)
<1> DEFINE k == Len(shareMem.free)
<1>1. k \in Nat
  BY SharedTypes DEF FrameMem
<1> SUFFICES ASSUME k < n PROVE FALSE
  BY <1>1
<1>2. k \in 0..Len(shareMem.free) /\ k <= n /\ k \in 0..(n - 1)
  BY <1>1
<1> DEFINE m == S!MapNew(e, v, k)
<1>3. Took(shareMem, m, e, v, k)
  <2> HIDE DEF k
  <2> QED BY <1>2, MapNewStep
<1>4. m.free # <<>>
  BY <1>2 DEF S!Suffice, S!OutOfFrames
<1>5. m.free \in Seq(Frames) /\ Len(m.free) = 0
  BY <1>1, <1>3 DEF Took, Walked, FrameMem
<1> HIDE DEF m
<1> QED BY <1>4, <1>5
----------------------------------------------------------------------------
(* Each call keeps the invariant.                                          *)

\* z becomes an object of the list, and e is a program that may ask for it.
Joins(e, z) ==
  /\ S!Running(e) /\ ~lock /\ pending[e] = <<>>
  /\ z \in S!Share /\ \A t \in S!Listed : t.id # z.id
  /\ shares' \in Seq(S!Share) /\ S!Listed' = S!Listed \cup {z} /\ KeysInv'

(* smalloc, from its arguments to the new object of the list.  find_share  *)
(* has not found the whole name; an object of the name it is cut to is     *)
(* there only if there was something to cut.                               *)
LEMMA CreatedShare ==
  ASSUME S!TypeOK, KeysInv, NEW e \in Envs, NEW name \in Names, S!MayCreate(e, name),
         NEW id \in S!FreeIds,
         NEW f \in Seq(Frames \cup {NoFrame}), Len(f) \in Sizes,
         shares' = <<S!alloc_share(id, S!envId(e), name, f)>> \o shares
  PROVE  Joins(e, S!alloc_share(id, S!envId(e), name, f))
<1> DEFINE z == S!alloc_share(id, S!envId(e), name, f)
<1>1. S!Running(e) /\ ~lock /\ pending[e] = <<>> /\ S!Found(S!envId(e), name) = <<>>
  BY DEF S!MayCreate
<1>2. id \in Ids /\ \A t \in S!Listed : t.id # id
  BY DEF S!FreeIds
<1>3. S!envId(e) \in Envs \X Nat /\ Cut[name] \in Names
  BY SharedTypes, SharedAssumption DEF S!envId, S!SharingAssumption
<1>4. /\ z \in S!Share /\ z.id = id /\ z.size = Len(f) /\ z.references = 1
      /\ z.frames = f /\ z.owner = S!envId(e) /\ z.name = Cut[name]
  BY <1>2, <1>3 DEF S!alloc_share, S!Share
<1> HIDE DEF z
<1>5. ASSUME NEW t \in S!Listed PROVE Told(t, z)
  <2>1. ~(t.owner = S!envId(e) /\ t.name = name)
    BY <1>1, FoundShare
  <2>2. ASSUME t.owner = z.owner, t.name = z.name PROVE S!IsCut(t.name)
    <3>1. Cut[name] # name /\ Cut[name] = t.name
      BY <1>4, <2>1, <2>2
    <3> QED BY <3>1 DEF S!IsCut
  <2> QED BY <1>2, <1>4, <2>2 DEF Told
<1>6. shares' \in Seq(S!Share) /\ S!Listed' = S!Listed \cup {z} /\ KeysInv'
  <2>1. shares' = <<z>> \o shares
    BY DEF z
  <2> QED BY <1>4, <1>5, <2>1, NewShare
<1> QED BY <1>1, <1>2, <1>4, <1>6 DEF z, Joins

(* A program whose heap gets one object more, with the pages of that, maps *)
(* nothing outside its objects; nothing else changes for the others.       *)
LEMMA PagesJoin ==
  ASSUME S!TypeOK, PagesInv, NEW e \in Envs, S!Running(e), running' = running,
         NEW P, Elsewhere(shareMem, shareMem', e, P),
         NEW w, alloc'[e] = alloc[e] \cup {w},
         \A u \in Envs : u # e => alloc'[u] = alloc[u] /\ pending'[u] = pending[u],
         \A s \in S!Listed : \E t \in S!Listed' : t.id = s.id /\ t.size = s.size,
         \E t \in S!Listed' : t.id = w.id /\ P = S!Extent(w.va, t.size)
  PROVE  PagesInv'
<1>1. ASSUME NEW u \in Envs, S!Running(u), NEW x \in S!HeapArea,
             shareMem'.pt[<<u, x>>] # NoFrame
      PROVE  \E r \in alloc'[u], t \in S!Listed' : t.id = r.id /\ x \in S!Extent(r.va, t.size)
  <2>1. CASE u = e /\ x \in P
    BY <2>1
  <2>2. CASE ~(u = e /\ x \in P)
    <3>1. Holds(u, x)
      BY <1>1, <2>2 DEF PagesInv, Elsewhere
    <3>2. PICK r \in alloc[u], s \in S!Listed : s.id = r.id /\ x \in S!Extent(r.va, s.size)
      BY <3>1 DEF Holds
    <3>3. PICK t \in S!Listed' : t.id = s.id /\ t.size = s.size
      OBVIOUS
    <3> QED BY <3>2, <3>3
  <2> QED BY <2>1, <2>2
<1>2. ASSUME NEW u \in Envs, running[u] = "free"
      PROVE  /\ alloc'[u] = {} /\ pending'[u] = <<>>
             /\ \A x \in S!HeapArea : shareMem'.pt[<<u, x>>] = NoFrame
  <2>1. u # e
    BY <1>2 DEF S!Running
  <2> QED BY <1>2, <2>1 DEF PagesInv, Elsewhere
<1> QED BY <1>1, <1>2 DEF PagesInv, Holds, S!Running, S!HeapArea, S!Extent

LEMMA CreateKeeps ==
  ASSUME SharedInv, NEW e \in Envs, NEW name \in Names, NEW n \in Sizes, NEW v \in S!HeapArea,
         NEW id \in S!FreeIds, S!create_shared_object(e, name, n, v, id), ~clashed'
  PROVE  SharedInv'
<1> DEFINE l == shareMem.free
           f == S!framesStorage(e, v, n, n)
           z == S!alloc_share(id, S!envId(e), name, f)
           w == [va |-> v, id |-> id]
           P == S!Extent(v, n)
<1>1. /\ S!TypeOK /\ KeysInv /\ PagesInv
      /\ S!MayCreate(e, name) /\ P \subseteq S!HeapArea /\ S!Suffice(e, v, n)
      /\ S!Fresh(e, v, n)
      /\ shares' = <<z>> \o shares /\ shareMem' = S!MapNew(e, v, n)
      /\ alloc' = [alloc EXCEPT ![e] = @ \cup {w}]
      /\ UNCHANGED <<lock, running, gen, pending>>
  BY DEF SharedInv, S!create_shared_object
<1>2. /\ n \in Nat \ {0} /\ l \in Seq(Frames) /\ shareMem \in FrameMem /\ id \in Ids
      /\ shares \in Seq(S!Share)
  BY <1>1, SharedNumbers, SharedTypes DEF FrameMem, S!FreeIds
<1>3. n <= Len(l)
  BY <1>1, <1>2, SufficientFrames
<1>4. /\ Walked(shareMem, shareMem', e, v, l, l, 1, n)
      /\ Len(shareMem'.free) = Len(l) - n
      /\ \A j \in 1..(Len(l) - n) : shareMem'.free[j] = l[j + n]
  <2> DEFINE k == n
  <2>1. k \in 0..Len(shareMem.free) /\ k <= n
    BY <1>2, <1>3 DEF l
  <2> HIDE DEF k, l
  <2>2. Took(shareMem, S!MapNew(e, v, k), e, v, k)
    BY <1>1, <1>2, <2>1, MapNewStep
  <2> QED BY <1>1, <2>2 DEF k, l, Took
<1>5. \A i \in 1..n : v + i - 1 \in S!HeapArea /\ shareMem'.pt[<<e, v + i - 1>>] = l[i]
  <2> SUFFICES ASSUME NEW i \in 1..n
               PROVE  v + i - 1 \in S!HeapArea /\ shareMem'.pt[<<e, v + i - 1>>] = l[i]
    OBVIOUS
  <2>1. v \in Int /\ i \in Int
    BY <1>2, SharedNumbers
  <2>2. v + i - 1 \in v..(v + n - 1) /\ (v + i - 1) - v + 1 = i
    BY <1>2, <2>1
  <2>3. v + i - 1 \in S!HeapArea
    BY <1>1, <2>2 DEF S!Extent
  <2> QED BY <1>4, <2>2, <2>3 DEF Walked
<1>6. /\ f \in Seq(Frames \cup {NoFrame}) /\ Len(f) = n
      /\ \A i \in 1..n : f[i] = l[i] /\ f[i] \in Frames /\ i \in DOMAIN l
  <2>1. \A i \in 1..n : l[i] \in Frames /\ i \in DOMAIN l
    BY <1>2, <1>3
  <2>2. f = [i \in 1..n |-> IF i <= n THEN shareMem'.pt[<<e, v + i - 1>>] ELSE NoFrame]
    BY <1>1 DEF S!framesStorage
  <2>3. \A i \in 1..n : f[i] = l[i]
    <3> HIDE DEF f, l
    <3> QED BY <1>2, <1>5, <2>2
  <2>4. f = [i \in 1..n |-> f[i]]
    BY <2>2
  <2> HIDE DEF f, l
  <2>5. \A i \in 1..n : f[i] \in Frames \cup {NoFrame}
    BY <2>1, <2>3
  <2>6. n \in Nat /\ f \in [1..n -> Frames \cup {NoFrame}]
    BY <1>2, <2>4, <2>5
  <2>7. f \in Seq(Frames \cup {NoFrame}) /\ Len(f) = n
    BY <2>6, IsASeq
  <2> QED BY <2>1, <2>3, <2>7
<1> HIDE DEF f
<1>7. /\ S!Running(e) /\ ~lock /\ pending[e] = <<>>
      /\ z \in S!Share /\ z.id = id /\ z.size = n /\ z.references = 1 /\ z.frames = f
      /\ shares' \in Seq(S!Share) /\ S!Listed' = S!Listed \cup {z} /\ KeysInv'
      /\ \A t \in S!Listed : t.id # id
  <2>1. /\ S!TypeOK /\ KeysInv /\ S!MayCreate(e, name) /\ shares' = <<z>> \o shares
        /\ f \in Seq(Frames \cup {NoFrame}) /\ Len(f) = n /\ Len(f) \in Sizes
    BY <1>1, <1>6
  <2>2. Joins(e, z)
    BY <2>1, CreatedShare
  <2>3. z.id = id /\ z.size = Len(f) /\ z.references = 1 /\ z.frames = f
    BY DEF S!alloc_share
  <2> HIDE DEF z
  <2> QED BY <2>1, <2>2, <2>3 DEF Joins
<1> HIDE DEF z, P, l
<1>8. /\ shareMem' \in FrameMem /\ Elsewhere(shareMem, shareMem', e, P)
      /\ \A x \in P : shareMem.pt[<<e, x>>] = NoFrame
  BY <1>1, <1>4, WalkedElsewhere DEF P, S!Fresh
<1>9. /\ alloc'[e] = alloc[e] \cup {w} /\ \A u \in Envs : u # e => alloc'[u] = alloc[u]
      /\ w \in Objects /\ w.va = v /\ w.id = id
  BY <1>1, <1>2 DEF S!TypeOK, Objects
<1> HIDE DEF w
<1>10. S!TypeOK'
  <2>1. S!IsMemory(shareMem, Envs \X S!HeapArea, S!HeapArea \cup {S!NoVa})'
    BY <1>8 DEF S!IsMemory, FrameMem, SharedSlots
  <2>2. alloc' \in [Envs -> SUBSET Objects]
    BY <1>1, <1>9 DEF S!TypeOK, Objects
  <2> QED BY <1>1, <1>7, <2>1, <2>2 DEF S!TypeOK, Objects
<1>11. FramesInv'
  <2>0. FramesInv
    BY <1>7 DEF SharedInv
  <2>1. Distinct(l) /\ Len(l) \in Nat /\ shareMem'.free \in Seq(Frames)
    BY <1>2, <1>8, <2>0 DEF FramesInv, FrameMem, l
  <2>2. \A j \in DOMAIN shareMem'.free : /\ j + n \in DOMAIN l /\ j + n \notin 1..n
                                         /\ shareMem'.free[j] = l[j + n]
    <3>1. DOMAIN shareMem'.free = 1..(Len(l) - n) /\ DOMAIN l = 1..Len(l)
      BY <1>2, <1>4, <2>1
    <3>2. \A j \in 1..(Len(l) - n) : j + n \in 1..Len(l) /\ j + n \notin 1..n
      BY <1>2, <1>3, <2>1
    <3> QED BY <1>4, <3>1, <3>2
  <2>3. Distinct(shareMem'.free)
    <3> SUFFICES ASSUME NEW i \in DOMAIN shareMem'.free, NEW j \in DOMAIN shareMem'.free,
                        shareMem'.free[i] = shareMem'.free[j]
                 PROVE  i = j
      BY DEF Distinct
    <3>1. i + n = j + n
      BY <2>1, <2>2 DEF Distinct
    <3>2. i \in Int /\ j \in Int
      BY <2>1
    <3> QED BY <1>2, <3>1, <3>2
  <2>4. \A g \in Frames : ~Occurs(l, g) => /\ shareMem'.refs[g] = shareMem.refs[g]
                                           /\ ~Occurs(shareMem'.free, g)
    <3>1. \A g \in Frames : ~Occurs(l, g) => ~\E j \in 1..n : l[j] = g
      BY <1>6 DEF Occurs
    <3> QED BY <1>4, <2>2, <3>1 DEF Walked, Occurs
  <2>5. \A i \in 1..n : /\ f[i] \in Frames /\ Occurs(l, f[i]) /\ shareMem'.refs[f[i]] = 1
                        /\ ~Occurs(shareMem'.free, f[i])
    <3> SUFFICES ASSUME NEW i \in 1..n
                 PROVE  /\ f[i] \in Frames /\ Occurs(l, f[i]) /\ shareMem'.refs[f[i]] = 1
                        /\ ~Occurs(shareMem'.free, f[i])
      OBVIOUS
    <3>1. f[i] = l[i] /\ f[i] \in Frames /\ i \in DOMAIN l
      BY <1>6
    <3>2. shareMem'.refs[f[i]] = 1
      BY <1>4, <3>1 DEF Walked
    <3>3. ~Occurs(shareMem'.free, f[i])
      BY <2>1, <2>2, <3>1 DEF Distinct, Occurs
    <3> QED BY <3>1, <3>2, <3>3 DEF Occurs
  <2>6. \A i, j \in 1..n : f[i] = f[j] => i = j
    BY <1>6, <2>1 DEF Distinct
  <2>7. \A s \in S!Listed : \A i \in 1..s.size : s.frames[i] # NoFrame =>
          s.frames[i] \in Frames /\ ~Occurs(l, s.frames[i])
    <3> SUFFICES ASSUME NEW s \in S!Listed, NEW i \in 1..s.size, s.frames[i] # NoFrame
                 PROVE  s.frames[i] \in Frames
      BY <2>0 DEF FramesInv, l
    <3>1. s.frames \in Seq(Frames \cup {NoFrame}) /\ Len(s.frames) = s.size
      BY <1>1, SharedTypes, ShareFields DEF KeysInv
    <3> QED BY <3>1
  <2>8. ASSUME NEW s \in S!Listed, NEW i \in 1..s.size, s.frames[i] # NoFrame
        PROVE  /\ shareMem'.refs[s.frames[i]] = s.references
               /\ ~Occurs(shareMem'.free, s.frames[i])
               /\ \A t \in S!Listed' : \A j \in 1..t.size :
                    s.frames[i] = t.frames[j] => s = t /\ i = j
    <3>1. /\ shareMem'.refs[s.frames[i]] = s.references /\ ~Occurs(shareMem'.free, s.frames[i])
      BY <2>0, <2>4, <2>7, <2>8 DEF FramesInv
    <3>2. \A j \in 1..z.size : s.frames[i] # z.frames[j]
      BY <1>7, <2>5, <2>7, <2>8
    <3> QED BY <1>7, <2>0, <2>8, <3>1, <3>2 DEF FramesInv
  <2>9. ASSUME NEW i \in 1..z.size
        PROVE  /\ shareMem'.refs[z.frames[i]] = z.references
               /\ ~Occurs(shareMem'.free, z.frames[i])
               /\ \A t \in S!Listed' : \A j \in 1..t.size :
                    z.frames[i] = t.frames[j] => z = t /\ i = j
    <3>1. i \in 1..n /\ z.frames[i] = f[i] /\ f[i] # NoFrame
      BY <1>7, <2>5, SharedNumbers
    <3>2. \A t \in S!Listed : \A j \in 1..t.size : z.frames[i] # t.frames[j]
      BY <2>5, <2>7, <3>1
    <3> QED BY <1>7, <2>5, <2>6, <3>1, <3>2
  <2> QED BY <1>7, <2>3, <2>8, <2>9 DEF FramesInv
<1>12. HeldInv'
  <2> SUFFICES ASSUME NEW u \in Envs, NEW r \in alloc'[u]
               PROVE  \E s \in S!Listed' : Backs(shareMem', s, u, r)
    BY DEF HeldInv, Backs, S!HeapArea
  <2>1. CASE r \in alloc[u]
    <3>1. PICK s \in S!Listed : Backs(shareMem, s, u, r)
      BY <1>7, <2>1 DEF SharedInv, HeldInv
    <3>2. Backs(shareMem', s, u, r)
      BY <1>8, <3>1, EmptyStillBacked
    <3> QED BY <1>7, <3>1, <3>2
  <2>2. CASE r \notin alloc[u]
    <3>1. u = e /\ r = w
      BY <1>9, <2>2
    <3>2. \A i \in 1..n : /\ v + i - 1 \in S!HeapArea /\ f[i] # NoFrame
                          /\ shareMem'.pt[<<e, v + i - 1>>] = f[i]
      BY <1>5, <1>6, SharedNumbers DEF l
    <3>3. Backs(shareMem', z, u, r)
      BY <1>7, <1>9, <3>1, <3>2 DEF Backs
    <3> QED BY <1>7, <3>3
  <2> QED BY <2>1, <2>2
<1>13. PagesInv'
  <2>1. \A s \in S!Listed : \E t \in S!Listed' : t.id = s.id /\ t.size = s.size
    BY <1>7
  <2>2. \E t \in S!Listed' : t.id = w.id /\ P = S!Extent(w.va, t.size)
    BY <1>7, <1>9 DEF P
  <2> QED BY <1>1, <1>7, <1>8, <1>9, <2>1, <2>2, PagesJoin
<1> QED BY <1>7, <1>10, <1>11, <1>12, <1>13 DEF SharedInv

(* An environment that panics with shareslock held ends; what it had begun *)
(* to map is its own.                                                      *)
LEMMA PagesStay ==
  ASSUME S!TypeOK, PagesInv, NEW e \in Envs, S!Running(e), NEW P,
         Elsewhere(shareMem, shareMem', e, P), UNCHANGED alloc,
         \A u \in Envs : running[u] = "free" => pending'[u] = pending[u],
         running' = [running EXCEPT ![e] = "exit"],
         \A s \in S!Listed : \E t \in S!Listed' : t.id = s.id /\ t.size = s.size
  PROVE  PagesInv'
<1>1. running'[e] = "exit" /\ \A u \in Envs : u # e => running'[u] = running[u]
  BY DEF S!TypeOK
<1>2. ASSUME NEW u \in Envs, running'[u] = "running", NEW x \in S!HeapArea,
             shareMem'.pt[<<u, x>>] # NoFrame
      PROVE  \E r \in alloc[u], t \in S!Listed' : t.id = r.id /\ x \in S!Extent(r.va, t.size)
  <2>1. u # e /\ running[u] = "running"
    BY <1>1, <1>2
  <2>2. shareMem.pt[<<u, x>>] # NoFrame
    BY <1>2, <2>1 DEF Elsewhere
  <2>3. PICK r \in alloc[u], s \in S!Listed : s.id = r.id /\ x \in S!Extent(r.va, s.size)
    BY <2>1, <2>2 DEF PagesInv, S!Running, Holds
  <2>4. PICK t \in S!Listed' : t.id = s.id /\ t.size = s.size
    OBVIOUS
  <2> QED BY <2>3, <2>4
<1>3. ASSUME NEW u \in Envs, running'[u] = "free"
      PROVE  /\ alloc[u] = {} /\ pending'[u] = <<>>
             /\ \A x \in S!HeapArea : shareMem'.pt[<<u, x>>] = NoFrame
  <2>1. u # e /\ running[u] = "free"
    BY <1>1, <1>3
  <2> QED BY <2>1 DEF PagesInv, Elsewhere
<1> QED BY <1>2, <1>3 DEF PagesInv, Holds, S!Running, S!HeapArea, S!Extent

LEMMA ExhaustsKeeps ==
  ASSUME SharedInv, NEW e \in Envs, NEW name \in Names, NEW n \in Sizes, NEW v \in S!HeapArea,
         NEW id \in S!FreeIds, NEW k \in 0..(n - 1),
         S!CreateExhausts(e, name, n, v, id, k), ~clashed'
  PROVE  SharedInv'
<1> DEFINE l == shareMem.free
           f == S!framesStorage(e, v, n, k)
           z == S!alloc_share(id, S!envId(e), name, f)
<1>1. /\ S!TypeOK /\ KeysInv /\ PagesInv
      /\ S!MayCreate(e, name) /\ S!Extent(v, n) \subseteq S!HeapArea
      /\ S!Suffice(e, v, k) /\ S!Fresh(e, v, k)
      /\ shares' = <<z>> \o shares /\ shareMem' = S!MapNew(e, v, k)
      /\ lock' = TRUE /\ running' = [running EXCEPT ![e] = "exit"]
      /\ UNCHANGED <<gen, alloc, pending>>
  BY DEF SharedInv, S!CreateExhausts
<1>2. n \in Nat \ {0} /\ k \in Nat /\ k <= n
  BY SharedNumbers
<1>3. Walked(shareMem, shareMem', e, v, l, l, 1, k)
  <2>1. k <= Len(shareMem.free) /\ Len(shareMem.free) \in Nat
    BY <1>1, <1>2, SufficientFrames, SharedTypes DEF FrameMem
  <2>2. k \in 0..Len(shareMem.free) /\ k <= k
    BY <1>2, <2>1
  <2>3. Took(shareMem, S!MapNew(e, v, k), e, v, k)
    BY <1>1, <1>2, <2>2, MapNewStep
  <2> QED BY <1>1, <2>3 DEF Took
<1>4. shareMem' \in FrameMem /\ Elsewhere(shareMem, shareMem', e, S!Extent(v, k))
  BY <1>3, WalkedElsewhere
<1>5. f \in Seq(Frames \cup {NoFrame}) /\ Len(f) = n
  <2>1. f = [i \in 1..n |-> IF i <= k THEN shareMem'.pt[<<e, v + i - 1>>] ELSE NoFrame]
    BY <1>1 DEF S!framesStorage
  <2>2. \A i \in 1..n : shareMem'.pt[<<e, v + i - 1>>] \in Frames \cup {NoFrame}
    BY <1>1, <1>2, <1>4, ExtentPages DEF FrameMem, SharedSlots
  <2> HIDE DEF f
  <2>3. \A i \in 1..n : f[i] \in Frames \cup {NoFrame}
    BY <2>1, <2>2
  <2>4. f = [i \in 1..n |-> f[i]]
    BY <2>1
  <2> QED BY <1>2, <2>3, <2>4, IsASeq
<1> HIDE DEF f
<1>6. /\ S!Running(e) /\ ~lock /\ pending[e] = <<>>
      /\ shares' \in Seq(S!Share) /\ S!Listed' = S!Listed \cup {z} /\ KeysInv'
  <2>1. /\ S!TypeOK /\ KeysInv /\ S!MayCreate(e, name) /\ shares' = <<z>> \o shares
        /\ f \in Seq(Frames \cup {NoFrame}) /\ Len(f) = n /\ Len(f) \in Sizes
    BY <1>1, <1>5
  <2>2. Joins(e, z)
    BY <2>1, CreatedShare
  <2> HIDE DEF z
  <2> QED BY <2>2 DEF Joins
<1> HIDE DEF z
<1>7. S!TypeOK'
  <2>1. S!IsMemory(shareMem, Envs \X S!HeapArea, S!HeapArea \cup {S!NoVa})'
    BY <1>4 DEF S!IsMemory, FrameMem, SharedSlots
  <2>2. running' \in [Envs -> {"running", "exit", "free"}]
    BY <1>1 DEF S!TypeOK
  <2> QED BY <1>1, <1>6, <2>1, <2>2 DEF S!TypeOK
<1>8. PagesInv'
  BY <1>1, <1>4, <1>6, PagesStay
<1> QED BY <1>1, <1>6, <1>7, <1>8 DEF SharedInv

LEMMA UnalignedKeeps ==
  ASSUME SharedInv, NEW e \in Envs, NEW name \in Names, NEW n \in Sizes,
         NEW id \in S!FreeIds, S!CreateUnaligned(e, name, n, id)
  PROVE  SharedInv'
<1> DEFINE f == [i \in 1..n |-> NoFrame]
           z == S!alloc_share(id, S!envId(e), name, f)
<1>1. /\ S!TypeOK /\ KeysInv /\ PagesInv /\ S!MayCreate(e, name)
      /\ shares' = <<z>> \o shares
      /\ UNCHANGED <<shareMem, lock, running, gen, alloc, pending>>
  BY DEF SharedInv, S!CreateUnaligned
<1>2. f \in Seq(Frames \cup {NoFrame}) /\ Len(f) = n /\ \A i \in 1..n : f[i] = NoFrame
  BY SharedNumbers
<1> HIDE DEF f
<1>3. /\ ~lock /\ z.size = n /\ z.frames = f
      /\ shares' \in Seq(S!Share) /\ S!Listed' = S!Listed \cup {z} /\ KeysInv'
  <2>1. /\ S!TypeOK /\ KeysInv /\ S!MayCreate(e, name) /\ shares' = <<z>> \o shares
        /\ f \in Seq(Frames \cup {NoFrame}) /\ Len(f) = n /\ Len(f) \in Sizes
    BY <1>1, <1>2
  <2>2. Joins(e, z)
    BY <2>1, CreatedShare
  <2>3. z.size = n /\ z.frames = f
    BY <2>1 DEF S!alloc_share
  <2> HIDE DEF z
  <2> QED BY <2>2, <2>3 DEF Joins
<1> HIDE DEF z
<1>4. S!TypeOK'
  BY <1>1, <1>3 DEF S!TypeOK, S!IsMemory, S!HeapArea
<1>5. PagesInv'
  BY <1>1, <1>3 DEF PagesInv, Holds, S!Running, S!HeapArea, S!Extent
<1>6. FramesInv'
  <2>1. \A i \in 1..z.size : z.frames[i] = NoFrame
    BY <1>2, <1>3
  <2>2. FramesInv
    BY <1>3 DEF SharedInv
  <2> QED BY <1>1, <1>3, <2>1, <2>2 DEF FramesInv
<1>7. HeldInv'
  <2>1. HeldInv
    BY <1>3 DEF SharedInv
  <2>2. ASSUME NEW x \in Envs, NEW q \in alloc[x], NEW t \in S!Listed, Backs(shareMem, t, x, q)
        PROVE  t \in S!Listed' /\ Backs(shareMem, t, x, q)'
    BY <1>1, <1>3, <2>2 DEF Backs, S!HeapArea
  <2> QED BY <1>1, <2>1, <2>2 DEF HeldInv
<1> QED BY <1>3, <1>4, <1>5, <1>6, <1>7 DEF SharedInv

(* What does not touch objects, heaps or tables keeps what is said of them. *)
LEMMA SameObjects ==
  ASSUME KeysInv, UNCHANGED <<shareMem, shares, alloc>>, S!Listed' = S!Listed
  PROVE  KeysInv' /\ (FramesInv => FramesInv') /\ (HeldInv => HeldInv')
<1>1. KeysInv'
  BY DEF KeysInv, Told, S!IsCut
<1>2. ASSUME FramesInv PROVE FramesInv'
  BY <1>2 DEF FramesInv
<1>3. ASSUME HeldInv PROVE HeldInv'
  BY <1>3 DEF HeldInv, Backs, S!HeapArea
<1> QED BY <1>1, <1>2, <1>3

(* Between its calls, sget keeps q, or nothing.                            *)
LEMMA RequestKept ==
  ASSUME S!TypeOK, NEW e \in Envs, S!Running(e),
         NEW q \in Seq(Requests), Len(q) <= 1, pending' = [pending EXCEPT ![e] = q]
  PROVE  /\ pending' \in [Envs -> Seq(Requests)] /\ \A u \in Envs : Len(pending'[u]) <= 1
         /\ pending'[e] = q /\ \A u \in Envs : u # e => pending'[u] = pending[u]
         /\ \A u \in Envs : running[u] = "free" => pending'[u] = pending[u]
<1>1. pending \in [Envs -> Seq(Requests)] /\ \A u \in Envs : Len(pending[u]) <= 1
  BY SharedTypes
<1>2. /\ pending' \in [Envs -> Seq(Requests)]
      /\ pending'[e] = q /\ \A u \in Envs : u # e => pending'[u] = pending[u]
  BY <1>1
<1>3. \A u \in Envs : running[u] = "free" => u # e
  BY DEF S!Running
<1> QED BY <1>1, <1>2, <1>3

(* A call that only changes what is kept between the calls of sget.        *)
LEMMA RequestKeeps ==
  ASSUME SharedInv, NEW e \in Envs, S!Running(e),
         NEW q \in Seq(Requests), Len(q) <= 1, pending' = [pending EXCEPT ![e] = q],
         UNCHANGED <<shareMem, shares, lock, running, gen, alloc>>
  PROVE  SharedInv'
<1>1. S!TypeOK /\ KeysInv /\ PagesInv
  BY DEF SharedInv
<1>2. /\ pending' \in [Envs -> Seq(Requests)] /\ \A u \in Envs : Len(pending'[u]) <= 1
      /\ \A u \in Envs : running[u] = "free" => pending'[u] = pending[u]
  BY <1>1, RequestKept
<1>3. S!Listed' = S!Listed
  BY DEF S!Listed, S!ToSet
<1>4. S!TypeOK'
  BY <1>1, <1>2 DEF S!TypeOK, S!IsMemory, S!HeapArea, Requests
<1>5. PagesInv'
  BY <1>1, <1>2, <1>3 DEF PagesInv, Holds, S!Running, S!HeapArea, S!Extent
<1>6. KeysInv' /\ (FramesInv => FramesInv') /\ (HeldInv => HeldInv')
  BY <1>1, <1>3, SameObjects
<1> QED BY <1>4, <1>5, <1>6 DEF SharedInv

LEMMA SizeKeeps ==
  ASSUME SharedInv, NEW e \in Envs, NEW o \in Envs \X Nat, NEW name \in Names,
         NEW v \in S!HeapArea, S!size_of_shared_object(e, o, name, v)
  PROVE  SharedInv'
<1> DEFINE q == <<[va |-> v, owner |-> o, name |-> name]>>
<1>1. /\ S!Running(e) /\ pending' = [pending EXCEPT ![e] = q]
      /\ UNCHANGED <<shareMem, shares, lock, running, gen, alloc>>
  BY DEF S!size_of_shared_object
<1>2. q \in Seq(Requests) /\ Len(q) <= 1
  BY DEF Requests
<1> QED BY <1>1, <1>2, RequestKeeps

LEMMA GoneKeeps ==
  ASSUME SharedInv, NEW e \in Envs, S!GetGone(e)
  PROVE  SharedInv'
<1> DEFINE q == <<>>
<1>1. /\ S!Running(e) /\ pending' = [pending EXCEPT ![e] = q]
      /\ UNCHANGED <<shareMem, shares, lock, running, gen, alloc>>
  BY DEF S!GetGone, S!Getting
<1>2. q \in Seq(Requests) /\ Len(q) <= 1
  OBVIOUS
<1> HIDE DEF q
<1> QED BY <1>1, <1>2, RequestKeeps

LEMMA FaultKeeps ==
  ASSUME SharedInv, NEW e \in Envs, S!GetFaults(e)
  PROVE  SharedInv'
<1>1. /\ S!TypeOK /\ KeysInv /\ PagesInv /\ S!Running(e)
      /\ lock' = TRUE /\ running' = [running EXCEPT ![e] = "exit"]
      /\ pending' = [pending EXCEPT ![e] = <<>>] /\ UNCHANGED <<shareMem, shares, gen, alloc>>
  BY DEF SharedInv, S!GetFaults, S!Getting
<1>2. S!Listed' = S!Listed
  BY <1>1 DEF S!Listed, S!ToSet
<1>3. /\ pending' \in [Envs -> Seq(Requests)] /\ \A u \in Envs : Len(pending'[u]) <= 1
      /\ \A u \in Envs : running[u] = "free" => pending'[u] = pending[u]
  <2> DEFINE q == <<>>
  <2>1. q \in Seq(Requests) /\ Len(q) <= 1 /\ pending' = [pending EXCEPT ![e] = q]
    BY <1>1
  <2> HIDE DEF q
  <2> QED BY <1>1, <2>1, RequestKept
<1>4. S!TypeOK'
  BY <1>1, <1>3 DEF S!TypeOK, S!IsMemory, S!HeapArea, Requests
<1>5. PagesInv'
  <2>1. Elsewhere(shareMem, shareMem', e, {})
    BY <1>1 DEF Elsewhere
  <2> QED BY <1>1, <1>2, <1>3, <2>1, PagesStay
<1>6. KeysInv'
  BY <1>1, <1>2, SameObjects
<1> QED BY <1>1, <1>4, <1>5, <1>6 DEF SharedInv

(* The pages of an object that somebody holds, or that has no NoFrame, are *)
(* what the loops over them need.                                          *)
LEMMA ObjectFrames ==
  ASSUME S!TypeOK, KeysInv, FramesInv, NEW s \in S!Listed,
         \A i \in 1..s.size : s.frames[i] # NoFrame
  PROVE  \A i \in 1..s.size :
           /\ s.frames[i] \in Frames /\ shareMem.refs[s.frames[i]] = s.references
           /\ \A j \in 1..s.size : s.frames[i] = s.frames[j] => i = j
           /\ \A t \in S!Listed \ {s} : \A j \in 1..t.size : t.frames[j] # s.frames[i]
<1>1. s.frames \in Seq(Frames \cup {NoFrame}) /\ Len(s.frames) = s.size
  BY SharedTypes, ShareFields DEF KeysInv
<1>2. \A i \in 1..s.size : s.frames[i] \in Frames
  BY <1>1
<1> QED BY <1>2 DEF FramesInv

(* After such a loop, with as many references counted, frames and objects  *)
(* agree again.                                                            *)
LEMMA FramesRecounted ==
  ASSUME S!TypeOK, KeysInv, FramesInv, NEW s \in S!Listed,
         \A i \in 1..s.size : s.frames[i] # NoFrame,
         NEW z, z.size = s.size, z.frames = s.frames,
         S!Listed' = (S!Listed \ {s}) \cup {z},
         NEW e, NEW v, NEW h, Walked(shareMem, shareMem', e, v, s.frames, h, z.references, s.size),
         shareMem'.free = shareMem.free
  PROVE  FramesInv'
<1>1. \A i \in 1..s.size :
        /\ s.frames[i] \in Frames
        /\ \A j \in 1..s.size : s.frames[i] = s.frames[j] => i = j
        /\ \A t \in S!Listed \ {s} : \A j \in 1..t.size : t.frames[j] # s.frames[i]
  BY ObjectFrames
<1>2. Distinct(shareMem'.free)
  BY DEF FramesInv
<1>3. ASSUME NEW i \in 1..z.size
      PROVE  /\ shareMem'.refs[z.frames[i]] = z.references
             /\ ~Occurs(shareMem'.free, z.frames[i])
             /\ \A t \in S!Listed' : \A j \in 1..t.size :
                  z.frames[i] = t.frames[j] => z = t /\ i = j
  <2>1. shareMem'.refs[s.frames[i]] = z.references
    BY <1>1 DEF Walked
  <2>2. ~Occurs(shareMem'.free, s.frames[i])
    BY DEF FramesInv
  <2> QED BY <1>1, <2>1, <2>2
<1>4. ASSUME NEW t \in S!Listed \ {s}, NEW i \in 1..t.size, t.frames[i] # NoFrame
      PROVE  /\ shareMem'.refs[t.frames[i]] = t.references
             /\ ~Occurs(shareMem'.free, t.frames[i])
             /\ \A q \in S!Listed' : \A j \in 1..q.size :
                  t.frames[i] = q.frames[j] => t = q /\ i = j
  <2>1. t.frames[i] \in Frames
    <3>1. t.frames \in Seq(Frames \cup {NoFrame}) /\ Len(t.frames) = t.size
      BY SharedTypes, ShareFields DEF KeysInv
    <3> QED BY <1>4, <3>1
  <2>2. ~\E j \in 1..s.size : s.frames[j] = t.frames[i]
    BY <1>1
  <2>3. shareMem'.refs[t.frames[i]] = t.references
    BY <1>4, <2>1, <2>2 DEF Walked, FramesInv
  <2>4. ~Occurs(shareMem'.free, t.frames[i])
    BY <1>4 DEF FramesInv
  <2>5. \A q \in S!Listed : \A j \in 1..q.size : t.frames[i] = q.frames[j] => t = q /\ i = j
    BY <1>4 DEF FramesInv
  <2> QED BY <2>2, <2>3, <2>4, <2>5
<1> QED BY <1>2, <1>3, <1>4 DEF FramesInv

LEMMA GetKeeps ==
  ASSUME SharedInv, NEW e \in Envs, S!get_shared_object(e), ~clashed'
  PROVE  SharedInv'
<1> DEFINE p == pending[e][1]
           v == p.va
           s == Head(S!Asked(e))
           w == [va |-> v, id |-> s.id]
           n == s.size
           P == S!Extent(v, n)
<1>1. /\ S!TypeOK /\ KeysInv /\ PagesInv /\ FramesInv /\ HeldInv
      /\ S!Running(e) /\ ~lock /\ pending[e] # <<>>
      /\ pending' = [pending EXCEPT ![e] = <<>>] /\ UNCHANGED <<lock, running, gen>>
      /\ S!Asked(e) # <<>> /\ NoFrame \notin S!ToSet(s.frames) /\ S!Fresh(e, v, n)
      /\ shareMem' = S!MapShare(e, v, s) /\ shares' = S!Referenced(s, 1)
      /\ alloc' = [alloc EXCEPT ![e] = @ \cup {w}]
  BY DEF SharedInv, S!get_shared_object, S!Getting
<1>2. v \in S!HeapArea
  <2>1. pending[e] \in Seq(Requests)
    BY <1>1, SharedTypes
  <2>2. p \in Requests
    BY <1>1, <2>1
  <2> QED BY <2>2 DEF Requests
<1>3. s \in S!Listed
  BY <1>1, FoundShare DEF S!Asked
<1> HIDE DEF s, v
<1>4. /\ s \in S!Share /\ s.id \in Ids /\ s.references \in Nat /\ n \in Nat
      /\ Len(s.frames) = n /\ s.frames \in Seq(Frames \cup {NoFrame})
  BY <1>1, <1>3, SharedTypes, ShareFields DEF KeysInv
<1>5. \A i \in 1..s.size : s.frames[i] # NoFrame
  <2>1. \A i \in DOMAIN s.frames : s.frames[i] # NoFrame
    BY <1>1 DEF S!ToSet
  <2> QED BY <1>4, <2>1
<1>6. /\ Walked(shareMem, shareMem', e, v, s.frames, s.frames, s.references + 1, s.size)
      /\ shareMem'.free = shareMem.free
  <2>1. PICK m \in FrameMem : m = shareMem
    BY <1>1, SharedTypes
  <2>2. \A i \in 1..s.size :
           /\ s.frames[i] \in Frames /\ m.refs[s.frames[i]] = s.references
           /\ \A j \in 1..s.size : s.frames[i] = s.frames[j] => i = j
    BY <1>1, <1>3, <1>5, <2>1, ObjectFrames
  <2>3. \A i \in 1..s.size : v + i - 1 \in S!HeapArea /\ m.pt[<<e, v + i - 1>>] = NoFrame
    BY <1>1, <1>2, <1>4, <2>1, ExtentPages DEF S!Fresh
  <2>4. Ready(m, e, v, s, None(s), s.references)
    BY <2>2, <2>3 DEF Ready, None
  <2>5. LET r == S!MapShare(e, v, s)
        IN  /\ Walked(m, r, e, v, s.frames, s.frames, s.references + 1, s.size)
            /\ r.free = m.free
    BY <1>2, <1>4, <2>1, <2>4, MapShareLoop
  <2> QED BY <1>1, <2>1, <2>5
<1>7. /\ shareMem' \in FrameMem /\ Elsewhere(shareMem, shareMem', e, P)
      /\ \A x \in P : shareMem.pt[<<e, x>>] = NoFrame
  BY <1>1, <1>6, WalkedElsewhere DEF S!Fresh
<1>8. \A i \in 1..s.size : /\ v + i - 1 \in S!HeapArea
                           /\ shareMem'.pt[<<e, v + i - 1>>] = s.frames[i]
  <2> SUFFICES ASSUME NEW i \in 1..n
               PROVE  v + i - 1 \in S!HeapArea /\ shareMem'.pt[<<e, v + i - 1>>] = s.frames[i]
    OBVIOUS
  <2>1. v \in Int /\ i \in Int
    BY <1>2, <1>4, SharedNumbers
  <2>2. v + i - 1 \in v..(v + n - 1) /\ (v + i - 1) - v + 1 = i
    BY <1>4, <2>1
  <2>3. v + i - 1 \in S!HeapArea
    BY <1>1, <2>2 DEF S!Extent, S!Fresh
  <2> QED BY <1>6, <2>2, <2>3 DEF Walked
<1>9. PICK z \in S!Share :
         /\ z.id = s.id /\ z.owner = s.owner /\ z.name = s.name /\ z.size = s.size
         /\ z.frames = s.frames /\ z.references = s.references + 1
         /\ shares' \in Seq(S!Share) /\ S!Listed' = (S!Listed \ {s}) \cup {z}
         /\ KeysInv'
  <2>1. s.references + 1 \in Nat /\ 1 \in Int
    BY <1>4
  <2> QED BY <1>1, <1>3, <2>1, Rereferenced
<1>10. /\ alloc'[e] = alloc[e] \cup {w} /\ \A u \in Envs : u # e => alloc'[u] = alloc[u]
       /\ w \in Objects /\ w.va = v /\ w.id = s.id
  BY <1>1, <1>2, <1>4 DEF S!TypeOK, Objects
<1> HIDE DEF w, P
<1>11. /\ pending' \in [Envs -> Seq(Requests)] /\ \A u \in Envs : Len(pending'[u]) <= 1
       /\ \A u \in Envs : u # e => pending'[u] = pending[u]
  <2> DEFINE q == <<>>
  <2>1. q \in Seq(Requests) /\ Len(q) <= 1 /\ pending' = [pending EXCEPT ![e] = q]
    BY <1>1
  <2> HIDE DEF q
  <2> QED BY <1>1, <2>1, RequestKept
<1>12. S!TypeOK'
  <2>1. S!IsMemory(shareMem, Envs \X S!HeapArea, S!HeapArea \cup {S!NoVa})'
    BY <1>7 DEF S!IsMemory, FrameMem, SharedSlots
  <2>2. alloc' \in [Envs -> SUBSET Objects]
    BY <1>1, <1>10 DEF S!TypeOK, Objects
  <2> QED BY <1>1, <1>9, <1>11, <2>1, <2>2 DEF S!TypeOK, Requests, Objects
<1>13. FramesInv'
  BY <1>1, <1>3, <1>5, <1>6, <1>9, FramesRecounted
<1>14. \A t \in S!Listed : \E q \in S!Listed' :
         q.id = t.id /\ q.size = t.size /\ q.frames = t.frames
  BY <1>9
<1>15. HeldInv'
  <2> SUFFICES ASSUME NEW u \in Envs, NEW r \in alloc'[u]
               PROVE  \E t \in S!Listed' : Backs(shareMem', t, u, r)
    BY DEF HeldInv, Backs, S!HeapArea
  <2>1. CASE r \in alloc[u]
    <3>1. PICK t \in S!Listed : Backs(shareMem, t, u, r)
      BY <1>1, <2>1 DEF HeldInv
    <3>2. PICK q \in S!Listed' : q.id = t.id /\ q.size = t.size /\ q.frames = t.frames
      BY <1>14
    <3>3. Backs(shareMem', q, u, r)
      BY <1>7, <3>1, <3>2, EmptyStillBacked
    <3> QED BY <3>3
  <2>2. CASE r \notin alloc[u]
    <3>1. u = e /\ r = w
      BY <1>10, <2>2
    <3>2. Backs(shareMem', z, u, r)
      BY <1>5, <1>8, <1>9, <1>10, <3>1 DEF Backs
    <3> QED BY <1>9, <3>2
  <2> QED BY <2>1, <2>2
<1>16. PagesInv'
  <2>1. \A t \in S!Listed : \E q \in S!Listed' : q.id = t.id /\ q.size = t.size
    BY <1>14
  <2>2. \E t \in S!Listed' : t.id = w.id /\ P = S!Extent(w.va, t.size)
    BY <1>9, <1>10 DEF P
  <2> QED BY <1>1, <1>7, <1>10, <1>11, <2>1, <2>2, PagesJoin
<1> QED BY <1>9, <1>12, <1>13, <1>15, <1>16 DEF SharedInv

(* The object that a program deletes, and its pages.                       *)
LEMMA DeletedPages ==
  ASSUME SharedInv, ~lock, NEW e \in Envs, NEW r \in alloc[e],
         NEW s \in S!Listed, s.id = r.id, s.references >= 1,
         shareMem' = S!Unmapped(e, r.va, s)
  PROVE  /\ Backs(shareMem, s, e, r)
         /\ Walked(shareMem, shareMem', e, r.va, s.frames, None(s), s.references - 1, s.size)
         /\ s.references > 1 => shareMem'.free = shareMem.free
         /\ shareMem' \in FrameMem
         /\ Elsewhere(shareMem, shareMem', e, S!Extent(r.va, s.size))
         /\ \A x \in S!Extent(r.va, s.size) : x \in S!HeapArea => shareMem'.pt[<<e, x>>] = NoFrame
<1>1. S!TypeOK /\ KeysInv /\ FramesInv /\ HeldInv
  BY DEF SharedInv
<1>2. r.va \in S!HeapArea
  BY <1>1, SharedTypes DEF Objects
<1>3. Backs(shareMem, s, e, r)
  <2>1. PICK t \in S!Listed : Backs(shareMem, t, e, r)
    BY <1>1 DEF HeldInv
  <2>2. t = s
    BY <1>1, <2>1, OneShare DEF Backs
  <2> QED BY <2>1, <2>2
<1>4. s.references \in Nat \ {0} /\ s.size \in Nat
  BY SharedTypes, ShareFields, <1>1
<1>5. PICK m \in FrameMem : m = shareMem
  BY <1>1, SharedTypes
<1>6. Ready(m, e, r.va, s, s.frames, s.references)
  <2>1. \A i \in 1..s.size : s.frames[i] # NoFrame
    BY <1>3 DEF Backs
  <2>2. \A i \in 1..s.size :
           /\ s.frames[i] \in Frames /\ m.refs[s.frames[i]] = s.references
           /\ \A j \in 1..s.size : s.frames[i] = s.frames[j] => i = j
    BY <1>1, <1>5, <2>1, ObjectFrames
  <2> QED BY <1>3, <1>5, <2>2 DEF Ready, Backs
<1>7. LET b == S!Unmapped(e, r.va, s)
      IN  /\ Walked(m, b, e, r.va, s.frames, None(s), s.references - 1, s.size)
          /\ s.references > 1 => b.free = m.free
  BY <1>2, <1>4, <1>5, <1>6, UnmappedLoop
<1>8. /\ Walked(shareMem, shareMem', e, r.va, s.frames, None(s), s.references - 1, s.size)
      /\ s.references > 1 => shareMem'.free = shareMem.free
  BY <1>5, <1>7
<1>9. shareMem' \in FrameMem /\ Elsewhere(shareMem, shareMem', e, S!Extent(r.va, s.size))
  BY <1>8, WalkedElsewhere
<1>10. ASSUME NEW x \in S!Extent(r.va, s.size), x \in S!HeapArea
       PROVE  shareMem'.pt[<<e, x>>] = NoFrame
  <2>1. x - r.va + 1 \in 1..s.size
    BY <1>2, <1>4, ExtentPages
  <2>2. shareMem'.pt[<<e, x>>] = None(s)[x - r.va + 1]
    BY <1>8, <1>10 DEF Walked, S!Extent
  <2> QED BY <2>1, <2>2 DEF None
<1> QED BY <1>3, <1>8, <1>9, <1>10

(* An object is backed by pages that no other object of the heap has.      *)
LEMMA BackedApart ==
  ASSUME S!TypeOK, KeysInv, FramesInv, NEW e \in Envs,
         NEW r \in alloc[e], NEW s \in S!Listed, Backs(shareMem, s, e, r),
         NEW q \in alloc[e], NEW t \in S!Listed, Backs(shareMem, t, e, q),
         q # r
  PROVE  \A i \in 1..t.size : q.va + i - 1 \notin S!Extent(r.va, s.size)
<1> SUFFICES ASSUME NEW i \in 1..t.size, q.va + i - 1 \in S!Extent(r.va, s.size) PROVE FALSE
  OBVIOUS
<1>1. r \in Objects /\ q \in Objects /\ r.va \in S!HeapArea /\ q.va \in S!HeapArea
  BY SharedTypes DEF Objects
<1>2. s.size \in Nat /\ t.size \in Nat
  BY SharedTypes, ShareFields
<1> DEFINE x == q.va + i - 1
           j == x - r.va + 1
<1>3. j \in 1..s.size /\ r.va + j - 1 = x
  <2> HIDE DEF x
  <2> QED BY <1>1, <1>2, ExtentPages DEF x
<1>4. shareMem.pt[<<e, x>>] = t.frames[i] /\ t.frames[i] # NoFrame
  BY DEF Backs
<1>5. shareMem.pt[<<e, x>>] = s.frames[j]
  <2> HIDE DEF x, j
  <2> QED BY <1>3 DEF Backs
<1>6. s = t /\ i = j
  <2> HIDE DEF x, j
  <2>1. t.frames[i] = s.frames[j] /\ t.frames[i] # NoFrame
    BY <1>4, <1>5
  <2> QED BY <1>3, <2>1 DEF FramesInv
<1>7. q.va = r.va /\ q.id = r.id
  <2>1. q.va \in Int /\ r.va \in Int /\ i \in Int
    BY <1>1, <1>2, SharedNumbers
  <2>2. q.id = r.id
    BY <1>6 DEF Backs
  <2> QED BY <1>3, <1>6, <2>1, <2>2
<1>8. q = r
  BY <1>1, <1>7 DEF Objects
<1> QED BY <1>8

LEMMA DeleteKeeps ==
  ASSUME SharedInv, NEW e \in Envs, S!Running(e), ~lock, NEW r \in alloc[e],
         NEW s \in S!Listed, s.id = r.id, S!Delete(e, r, s)
  PROVE  SharedInv'
<1> DEFINE P == S!Extent(r.va, s.size)
<1>1. /\ S!TypeOK /\ KeysInv /\ PagesInv /\ FramesInv /\ HeldInv
      /\ s.references > 1 /\ shareMem' = S!Unmapped(e, r.va, s)
      /\ shares' = S!Referenced(s, -1)
      /\ alloc' = [alloc EXCEPT ![e] = @ \ {r}]
      /\ UNCHANGED <<lock, running, gen, pending>>
  BY DEF SharedInv, S!Delete
<1>2. s.references \in Nat /\ s.references >= 1 /\ s.references + (-1) \in Nat
      /\ s.references - 1 = s.references + (-1)
  BY <1>1, SharedTypes, ShareFields
<1>3. /\ Backs(shareMem, s, e, r)
      /\ Walked(shareMem, shareMem', e, r.va, s.frames, None(s), s.references - 1, s.size)
      /\ shareMem'.free = shareMem.free /\ shareMem' \in FrameMem
      /\ Elsewhere(shareMem, shareMem', e, P)
      /\ \A x \in P : x \in S!HeapArea => shareMem'.pt[<<e, x>>] = NoFrame
  BY <1>1, <1>2, DeletedPages
<1>4. PICK z \in S!Share :
         /\ z.id = s.id /\ z.owner = s.owner /\ z.name = s.name /\ z.size = s.size
         /\ z.frames = s.frames /\ z.references = s.references + (-1)
         /\ shares' \in Seq(S!Share) /\ S!Listed' = (S!Listed \ {s}) \cup {z}
         /\ KeysInv'
  <2>1. -1 \in Int
    OBVIOUS
  <2> QED BY <1>1, <1>2, <2>1, Rereferenced
<1>5. alloc'[e] = alloc[e] \ {r} /\ \A u \in Envs : u # e => alloc'[u] = alloc[u]
  BY <1>1 DEF S!TypeOK
<1>6. S!TypeOK'
  <2>1. S!IsMemory(shareMem, Envs \X S!HeapArea, S!HeapArea \cup {S!NoVa})'
    BY <1>3 DEF S!IsMemory, FrameMem, SharedSlots
  <2>2. alloc' \in [Envs -> SUBSET Objects]
    BY <1>1, <1>5 DEF S!TypeOK, Objects
  <2> QED BY <1>1, <1>4, <2>1, <2>2 DEF S!TypeOK, Objects
<1>7. FramesInv'
  <2>1. z.references = s.references - 1
    BY <1>2, <1>4
  <2>2. \A i \in 1..s.size : s.frames[i] # NoFrame
    BY <1>3 DEF Backs
  <2> QED BY <1>1, <1>3, <1>4, <2>1, <2>2, FramesRecounted
<1> HIDE DEF P
<1>8. \A t \in S!Listed : \E y \in S!Listed' :
        y.id = t.id /\ y.size = t.size /\ y.frames = t.frames
  BY <1>4
<1>9. HeldInv'
  <2> SUFFICES ASSUME NEW u \in Envs, NEW q \in alloc'[u]
               PROVE  \E t \in S!Listed' : Backs(shareMem', t, u, q)
    BY DEF HeldInv, Backs, S!HeapArea
  <2>1. q \in alloc[u] /\ (u = e => q # r)
    BY <1>5
  <2>2. PICK t \in S!Listed : Backs(shareMem, t, u, q)
    BY <1>1, <2>1 DEF HeldInv
  <2>3. u = e => \A i \in 1..t.size : q.va + i - 1 \notin P
    <3> SUFFICES ASSUME u = e PROVE \A i \in 1..t.size : q.va + i - 1 \notin P
      OBVIOUS
    <3> QED BY <1>1, <1>3, <2>1, <2>2, BackedApart DEF P
  <2>4. PICK y \in S!Listed' : y.id = t.id /\ y.size = t.size /\ y.frames = t.frames
    BY <1>8
  <2>5. Backs(shareMem', y, u, q)
    BY <1>3, <2>2, <2>3, <2>4, StillBacked
  <2> QED BY <2>5
<1>10. PagesInv'
  <2>1. ASSUME NEW u \in Envs, S!Running(u), NEW x \in S!HeapArea,
               shareMem'.pt[<<u, x>>] # NoFrame
        PROVE  \E q \in alloc'[u], y \in S!Listed' : y.id = q.id /\ x \in S!Extent(q.va, y.size)
    <3>1. ~(u = e /\ x \in P)
      BY <1>3, <2>1 DEF P
    <3>2. shareMem.pt[<<u, x>>] # NoFrame
      BY <1>3, <2>1, <3>1 DEF Elsewhere
    <3>3. PICK q \in alloc[u], t \in S!Listed : t.id = q.id /\ x \in S!Extent(q.va, t.size)
      BY <1>1, <2>1, <3>2 DEF PagesInv, Holds
    <3>4. ~(u = e /\ q = r)
      <4> SUFFICES ASSUME u = e, q = r PROVE FALSE
        OBVIOUS
      <4>1. t = s
        BY <1>1, <3>3, OneShare
      <4> QED BY <3>1, <3>3, <4>1 DEF P
    <3>5. q \in alloc'[u]
      BY <1>5, <3>4
    <3>6. PICK y \in S!Listed' : y.id = t.id /\ y.size = t.size
      BY <1>8
    <3> QED BY <3>3, <3>5, <3>6
  <2>2. ASSUME NEW u \in Envs, running[u] = "free"
        PROVE  /\ alloc'[u] = {} /\ pending[u] = <<>>
               /\ \A x \in S!HeapArea : shareMem'.pt[<<u, x>>] = NoFrame
    <3>1. u # e
      BY <2>2 DEF S!Running
    <3> QED BY <1>1, <1>3, <1>5, <2>2, <3>1 DEF PagesInv, Elsewhere
  <2> QED BY <1>1, <2>1, <2>2 DEF PagesInv, Holds, S!Running, S!HeapArea, S!Extent
<1> QED BY <1>4, <1>6, <1>7, <1>9, <1>10 DEF SharedInv

LEMMA DeleteLastKeeps ==
  ASSUME SharedInv, NEW e \in Envs, S!Running(e), ~lock, NEW r \in alloc[e],
         NEW s \in S!Listed, s.id = r.id, S!DeleteLast(e, r, s)
  PROVE  SharedInv'
<1>1. /\ S!TypeOK /\ KeysInv /\ PagesInv
      /\ s.references = 1 /\ shareMem' = S!Unmapped(e, r.va, s)
      /\ shares' = S!Referenced(s, -1)
      /\ lock' = TRUE /\ running' = [running EXCEPT ![e] = "exit"]
      /\ UNCHANGED <<gen, alloc, pending>>
  BY DEF SharedInv, S!DeleteLast
<1>2. s.references >= 1 /\ s.references + (-1) \in Nat /\ -1 \in Int
  BY <1>1
<1>3. shareMem' \in FrameMem /\ Elsewhere(shareMem, shareMem', e, S!Extent(r.va, s.size))
  BY <1>1, <1>2, DeletedPages
<1>4. PICK z \in S!Share :
         /\ z.id = s.id /\ z.size = s.size
         /\ shares' \in Seq(S!Share) /\ S!Listed' = (S!Listed \ {s}) \cup {z}
         /\ KeysInv'
  BY <1>1, <1>2, Rereferenced
<1>5. S!TypeOK'
  <2>1. S!IsMemory(shareMem, Envs \X S!HeapArea, S!HeapArea \cup {S!NoVa})'
    BY <1>3 DEF S!IsMemory, FrameMem, SharedSlots
  <2>2. running' \in [Envs -> {"running", "exit", "free"}]
    BY <1>1 DEF S!TypeOK
  <2> QED BY <1>1, <1>4, <2>1, <2>2 DEF S!TypeOK
<1>6. \A t \in S!Listed : \E q \in S!Listed' : q.id = t.id /\ q.size = t.size
  BY <1>4
<1>7. PagesInv'
  BY <1>1, <1>3, <1>6, PagesStay
<1> QED BY <1>1, <1>4, <1>5, <1>7 DEF SharedInv

LEMMA ExitKeeps ==
  ASSUME SharedInv, NEW e \in Envs, S!Exit(e)
  PROVE  SharedInv'
<1>1. /\ S!TypeOK /\ KeysInv /\ PagesInv /\ S!Running(e)
      /\ running' = [running EXCEPT ![e] = "exit"]
      /\ pending' = [pending EXCEPT ![e] = <<>>] /\ UNCHANGED <<shareMem, shares, lock, gen, alloc>>
  BY DEF SharedInv, S!Exit
<1>2. S!Listed' = S!Listed
  BY <1>1 DEF S!Listed, S!ToSet
<1>3. /\ pending' \in [Envs -> Seq(Requests)] /\ \A u \in Envs : Len(pending'[u]) <= 1
      /\ \A u \in Envs : running[u] = "free" => pending'[u] = pending[u]
  <2> DEFINE q == <<>>
  <2>1. q \in Seq(Requests) /\ Len(q) <= 1 /\ pending' = [pending EXCEPT ![e] = q]
    BY <1>1
  <2> HIDE DEF q
  <2> QED BY <1>1, <2>1, RequestKept
<1>4. S!TypeOK'
  BY <1>1, <1>3 DEF S!TypeOK, S!IsMemory, S!HeapArea, Requests
<1>5. PagesInv'
  <2>1. Elsewhere(shareMem, shareMem', e, {})
    BY <1>1 DEF Elsewhere
  <2> QED BY <1>1, <1>2, <1>3, <2>1, PagesStay
<1>6. KeysInv' /\ (FramesInv => FramesInv') /\ (HeldInv => HeldInv')
  BY <1>1, <1>2, SameObjects
<1> QED BY <1>1, <1>4, <1>5, <1>6 DEF SharedInv

LEMMA FreeKeeps ==
  ASSUME SharedInv, NEW e \in Envs, S!env_free(e)
  PROVE  SharedInv'
<1>1. /\ S!TypeOK /\ KeysInv /\ PagesInv
      /\ shareMem' = S!DropTables(e) /\ running' = [running EXCEPT ![e] = "free"]
      /\ gen' = [gen EXCEPT ![e] = 0] /\ alloc' = [alloc EXCEPT ![e] = {}]
      /\ pending' = [pending EXCEPT ![e] = <<>>] /\ UNCHANGED <<shares, lock>>
  BY DEF SharedInv, S!env_free
<1>2. S!Listed' = S!Listed /\ S!HeapArea' = S!HeapArea
  BY <1>1 DEF S!Listed, S!ToSet, S!HeapArea
<1>3. /\ shareMem' \in FrameMem /\ shareMem'.free = shareMem.free
      /\ shareMem'.refs = shareMem.refs
      /\ \A u \in Envs, x \in S!HeapArea :
           shareMem'.pt[<<u, x>>] = IF u = e THEN NoFrame ELSE shareMem.pt[<<u, x>>]
  <2>1. shareMem \in FrameMem
    BY <1>1, SharedTypes
  <2> DEFINE t == [y \in SharedSlots |-> IF y[1] = e THEN NoFrame ELSE shareMem.pt[y]]
  <2>2. t \in [SharedSlots -> Frames \cup {NoFrame}]
    BY <2>1 DEF FrameMem
  <2>3. \A u \in Envs, x \in S!HeapArea :
          t[<<u, x>>] = IF u = e THEN NoFrame ELSE shareMem.pt[<<u, x>>]
    BY DEF SharedSlots
  <2>4. shareMem' = [shareMem EXCEPT !.pt = t]
    BY <1>1, <2>1 DEF S!DropTables, FrameMem
  <2> HIDE DEF t
  <2> QED BY <2>1, <2>2, <2>3, <2>4 DEF FrameMem
<1>4. /\ alloc'[e] = {} /\ \A u \in Envs : u # e => alloc'[u] = alloc[u]
      /\ alloc' \in [Envs -> SUBSET Objects]
  BY <1>1 DEF S!TypeOK, Objects
<1>5. /\ pending'[e] = <<>> /\ \A u \in Envs : u # e => pending'[u] = pending[u]
      /\ pending' \in [Envs -> Seq(Requests)] /\ \A u \in Envs : Len(pending'[u]) <= 1
  <2>1. pending \in [Envs -> Seq(Requests)] /\ \A u \in Envs : Len(pending[u]) <= 1
    BY <1>1, SharedTypes
  <2>2. <<>> \in Seq(Requests) /\ Len(<<>>) = 0
    OBVIOUS
  <2>3. pending' \in [Envs -> Seq(Requests)] /\ pending'[e] = <<>>
    BY <1>1, <2>1, <2>2
  <2>4. \A u \in Envs : u # e => pending'[u] = pending[u]
    BY <1>1, <2>1
  <2> QED BY <2>1, <2>2, <2>3, <2>4
<1>6. /\ running'[e] = "free" /\ \A u \in Envs : u # e => running'[u] = running[u]
      /\ running' \in [Envs -> {"running", "exit", "free"}]
  BY <1>1 DEF S!TypeOK
<1>7. S!TypeOK'
  <2>1. S!IsMemory(shareMem, Envs \X S!HeapArea, S!HeapArea \cup {S!NoVa})'
    BY <1>3 DEF S!IsMemory, FrameMem, SharedSlots
  <2>2. gen' \in [Envs -> Nat]
    BY <1>1 DEF S!TypeOK
  <2> QED BY <1>1, <1>4, <1>5, <1>6, <2>1, <2>2 DEF S!TypeOK, Requests, Objects
<1>8. KeysInv' /\ (FramesInv => FramesInv')
  BY <1>1, <1>2, <1>3 DEF KeysInv, Told, S!IsCut, FramesInv
<1>9. ASSUME HeldInv PROVE HeldInv'
  <2> SUFFICES ASSUME NEW u \in Envs, NEW r \in alloc'[u]
               PROVE  \E s \in S!Listed : Backs(shareMem', s, u, r)
    BY <1>2 DEF HeldInv, Backs, S!HeapArea
  <2>1. u # e /\ r \in alloc[u]
    BY <1>4
  <2>2. PICK s \in S!Listed : Backs(shareMem, s, u, r)
    BY <1>9, <2>1 DEF HeldInv
  <2>3. Elsewhere(shareMem, shareMem', e, S!HeapArea)
    BY <1>3 DEF Elsewhere
  <2>4. Backs(shareMem', s, u, r)
    BY <2>1, <2>2, <2>3, StillBacked
  <2> QED BY <2>4
<1>10. PagesInv'
  <2>1. ASSUME NEW u \in Envs, running'[u] = "running", NEW x \in S!HeapArea,
               shareMem'.pt[<<u, x>>] # NoFrame
        PROVE  \E r \in alloc'[u], s \in S!Listed : s.id = r.id /\ x \in S!Extent(r.va, s.size)
    <3>1. u # e /\ S!Running(u)
      BY <1>6, <2>1 DEF S!Running
    <3> QED BY <1>1, <1>3, <1>4, <2>1, <3>1 DEF PagesInv, Holds
  <2>2. ASSUME NEW u \in Envs, running'[u] = "free"
        PROVE  /\ alloc'[u] = {} /\ pending'[u] = <<>>
               /\ \A x \in S!HeapArea : shareMem'.pt[<<u, x>>] = NoFrame
    <3>1. CASE u = e
      BY <1>3, <1>4, <1>5, <3>1
    <3>2. CASE u # e
      BY <1>1, <1>3, <1>4, <1>5, <1>6, <2>2, <3>2 DEF PagesInv
    <3> QED BY <3>1, <3>2
  <2> QED BY <1>2, <2>1, <2>2 DEF PagesInv, Holds, S!Running, S!Extent
<1> QED BY <1>1, <1>7, <1>8, <1>9, <1>10 DEF SharedInv

LEMMA NextInSlotKeeps ==
  ASSUME SharedInv, NEW e \in Envs, S!env_create(e)
  PROVE  SharedInv'
<1>1. /\ S!TypeOK /\ KeysInv /\ PagesInv /\ running[e] = "free"
      /\ running' = [running EXCEPT ![e] = "running"] /\ gen' = [gen EXCEPT ![e] = @ + 1]
      /\ UNCHANGED <<shareMem, shares, lock, alloc, pending>>
  BY DEF SharedInv, S!env_create
<1>2. S!Listed' = S!Listed
  BY <1>1 DEF S!Listed, S!ToSet
<1>3. /\ running'[e] = "running" /\ \A u \in Envs : u # e => running'[u] = running[u]
      /\ running' \in [Envs -> {"running", "exit", "free"}] /\ gen' \in [Envs -> Nat]
  BY <1>1 DEF S!TypeOK
<1>4. S!TypeOK'
  BY <1>1, <1>3 DEF S!TypeOK, S!IsMemory, S!HeapArea
<1>5. PagesInv'
  <2>1. \A x \in S!HeapArea : shareMem.pt[<<e, x>>] = NoFrame
    BY <1>1 DEF PagesInv
  <2>2. \A u \in Envs : u # e => (running'[u] = running[u])
    BY <1>3
  <2> QED BY <1>1, <1>2, <1>3, <2>1, <2>2 DEF PagesInv, Holds, S!Running, S!HeapArea, S!Extent
<1>6. KeysInv' /\ (FramesInv => FramesInv') /\ (HeldInv => HeldInv')
  BY <1>1, <1>2, SameObjects
<1> QED BY <1>1, <1>4, <1>5, <1>6 DEF SharedInv

----------------------------------------------------------------------------
(* The theorems.                                                           *)

LEMMA SharedStart ==
  ASSUME S!Init
  PROVE  SharedInv
<1>1. PICK s \in S!SetToSeqs(Frames) : shareMem = S!InitMemory(Envs \X S!HeapArea, s)
  BY DEF S!Init
<1>2. s \in Seq(Frames) /\ Distinct(s)
  <2>1. S!Cardinality(Frames) = Cardinality(Frames)
    BY Zenon DEF S!Cardinality, Cardinality
  <2>2. Cardinality(Frames) \in Nat
    BY SharedNumbers, FS_CardinalityType
  <2>3. /\ s \in [1..Cardinality(Frames) -> Frames]
        /\ \A a, b \in DOMAIN s : s[a] = s[b] => a = b
    BY <1>1, <2>1 DEF S!SetToSeqs
  <2> QED BY <2>2, <2>3 DEF Distinct
<1>3. /\ shares = <<>> /\ lock = FALSE /\ running = [e \in Envs |-> "running"]
      /\ gen = [e \in Envs |-> 1] /\ alloc = [e \in Envs |-> {}]
      /\ pending = [e \in Envs |-> <<>>]
  BY DEF S!Init
<1>4. /\ shareMem \in FrameMem /\ shareMem.free = s
      /\ \A u \in Envs, x \in S!HeapArea : shareMem.pt[<<u, x>>] = NoFrame
  BY <1>1, <1>2 DEF S!InitMemory, FrameMem, SharedSlots, S!NoVa
<1>5. S!Listed = {}
  BY <1>3 DEF S!Listed, S!ToSet
<1>6. S!TypeOK
  <2>1. S!IsMemory(shareMem, Envs \X S!HeapArea, S!HeapArea \cup {S!NoVa})
    BY <1>4 DEF S!IsMemory, FrameMem, SharedSlots
  <2>2. shares \in Seq(S!Share)
    BY <1>3
  <2>3. pending \in [Envs -> Seq(Requests)] /\ \A e \in Envs : Len(pending[e]) <= 1
    BY <1>3
  <2> QED BY <1>3, <2>1, <2>2, <2>3 DEF S!TypeOK, Requests
<1>7. KeysInv /\ FramesInv /\ HeldInv
  BY <1>2, <1>3, <1>4, <1>5 DEF KeysInv, FramesInv, HeldInv
<1>8. PagesInv
  BY <1>3, <1>4 DEF PagesInv
<1> QED BY <1>6, <1>7, <1>8 DEF SharedInv

(* Until an object is mapped over used pages, every step keeps the         *)
(* invariant; with that step the model ends.                               *)
LEMMA SharedStep ==
  ASSUME ~clashed => SharedInv, [S!Next]_(S!vars)
  PROVE  ~clashed' => SharedInv'
<1> SUFFICES ASSUME ~clashed' PROVE SharedInv'
  OBVIOUS
<1>1. CASE UNCHANGED S!vars
  <2>1. UNCHANGED <<shareMem, shares, lock, running, gen, alloc, pending, clashed>>
    BY <1>1 DEF S!vars
  <2>2. S!Listed' = S!Listed
    BY <2>1 DEF S!Listed, S!ToSet
  <2>3. S!TypeOK' = S!TypeOK
    BY <2>1 DEF S!TypeOK, S!IsMemory, S!HeapArea
  <2>4. SharedInv
    BY <2>1
  <2>5. KeysInv' /\ (FramesInv => FramesInv') /\ (HeldInv => HeldInv')
    BY <2>1, <2>2, <2>4, SameObjects DEF SharedInv
  <2>6. PagesInv'
    BY <2>1, <2>2, <2>4 DEF SharedInv, PagesInv, Holds, S!Running, S!HeapArea, S!Extent
  <2> QED BY <2>1, <2>3, <2>4, <2>5, <2>6 DEF SharedInv
<1>2. CASE S!Next
  <2>1. SharedInv
    BY <1>2 DEF S!Next
  <2>2. PICK e \in Envs : S!Call(e) \/ S!Exit(e) \/ S!env_free(e) \/ S!env_create(e)
    BY <1>2 DEF S!Next
  <2>3. CASE S!Call(e)
    <3>1. CASE \E name \in Names, n \in Sizes, id \in S!FreeIds, v \in S!HeapArea :
                 S!create_shared_object(e, name, n, v, id)
      BY <2>1, <3>1, CreateKeeps
    <3>2. CASE \E name \in Names, n \in Sizes, id \in S!FreeIds, v \in S!HeapArea :
                 \E k \in 0..(n - 1) : S!CreateExhausts(e, name, n, v, id, k)
      BY <2>1, <3>2, ExhaustsKeeps
    <3>3. CASE \E name \in Names, n \in Sizes, id \in S!FreeIds :
                 S!CreateUnaligned(e, name, n, id)
      BY <2>1, <3>3, UnalignedKeeps
    <3>4. CASE \E o \in Envs, name \in Names, v \in S!HeapArea :
                 S!size_of_shared_object(e, S!envId(o), name, v)
      <4>1. \A o \in Envs : S!envId(o) \in Envs \X Nat
        BY <2>1, SharedTypes DEF SharedInv, S!envId
      <4> QED BY <2>1, <3>4, <4>1, SizeKeeps
    <3>5. CASE S!get_shared_object(e) \/ S!GetGone(e) \/ S!GetFaults(e)
      BY <2>1, <3>5, GetKeeps, GoneKeeps, FaultKeeps
    <3>6. CASE \E r \in alloc[e] : S!delete_shared_object(e, r)
      <4>1. PICK r \in alloc[e] : S!delete_shared_object(e, r)
        BY <3>6
      <4>2. PICK s \in S!Listed : s.id = r.id /\ (S!Delete(e, r, s) \/ S!DeleteLast(e, r, s))
        BY <4>1 DEF S!delete_shared_object
      <4>3. S!Running(e) /\ ~lock
        BY <4>1 DEF S!delete_shared_object
      <4> QED BY <2>1, <4>2, <4>3, DeleteKeeps, DeleteLastKeeps
    <3> QED BY <2>3, <3>1, <3>2, <3>3, <3>4, <3>5, <3>6 DEF S!Call
  <2> QED BY <2>1, <2>2, <2>3, ExitKeeps, FreeKeeps, NextInSlotKeeps
<1> QED BY <1>1, <1>2

(* The objects that programs share, through every interleaving of their    *)
(* calls, of the two halves of sget, and of the ends of programs, for any  *)
(* numbers of programs, frames, names and pages, until a call maps an      *)
(* object over used pages.                                                 *)
THEOREM SharedInvariance == S!Spec => [](~clashed => SharedInv)
<1>1. (~clashed => SharedInv) /\ [S!Next]_(S!vars) => (~clashed => SharedInv)'
  BY SharedStep
<1>2. S!Init => (~clashed => SharedInv)
  BY SharedStart
<1> QED BY <1>1, <1>2, PTL DEF S!Spec

(* Until an object is mapped over used pages, and while shareslock is      *)
(* free, every object that a program holds is backed by the frames of its  *)
(* share, in order; no frame of a share is free or another page's, and its *)
(* count is that of the share; and no two objects answer to one name that  *)
(* no longer name is cut to.                                               *)
THEOREM SharesIntactTheorem == S!Spec => []SharesIntact
<1>1. (~clashed => SharedInv) => SharesIntact
  <2> SUFFICES ASSUME SharedInv, ~clashed PROVE S!SharesIntact
    BY DEF SharesIntact, S!SharesIntact
  <2>1. \A i, j \in DOMAIN shares :
          shares[i].owner = shares[j].owner /\ shares[i].name = shares[j].name =>
            i = j \/ S!IsCut(shares[i].name)
    BY DEF SharedInv, KeysInv, Told
  <2>2. ASSUME ~lock, NEW s \in S!Listed, NEW i \in {j \in 1..s.size : s.frames[j] # NoFrame}
        PROVE  /\ shareMem.refs[s.frames[i]] = s.references
               /\ s.frames[i] \notin S!ToSet(shareMem.free)
               /\ \A t \in S!Listed : \A j \in 1..t.size :
                    s.frames[i] = t.frames[j] => s = t /\ i = j
    BY <2>2 DEF SharedInv, FramesInv, S!ToSet, Occurs
  <2>3. ASSUME ~lock, NEW e \in Envs, NEW r \in alloc[e]
        PROVE  \E s \in S!Listed :
                 /\ s.id = r.id
                 /\ \A i \in 1..s.size : shareMem.pt[<<e, r.va + i - 1>>] = s.frames[i]
    BY <2>3 DEF SharedInv, HeldInv, Backs
  <2> QED BY <2>1, <2>2, <2>3 DEF S!SharesIntact
<1> QED BY <1>1, SharedInvariance, PTL

(* Until then a program maps no page outside the objects that it holds:    *)
(* what it has deleted it cannot read any more.                            *)
THEOREM NoAccessAfterDeleteTheorem == S!Spec => []NoAccessAfterDelete
<1>1. (~clashed => SharedInv) => NoAccessAfterDelete
  BY DEF SharedInv, PagesInv, Holds, NoAccessAfterDelete, S!NoAccessAfterDelete
<1> QED BY <1>1, SharedInvariance, PTL
============================================================================
