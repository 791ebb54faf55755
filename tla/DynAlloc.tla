------------------------------ MODULE DynAlloc ------------------------------
(***************************************************************************)
(* The block allocator behind kmalloc and malloc for small sizes:          *)
(* lib/dynamic_allocator.c with get_page and return_page of                *)
(* kern/mem/kheap.c.                                                       *)
(*                                                                         *)
(* Pages are split into blocks of one size class each.  Addresses and      *)
(* sizes are in units; the code has Size = 8, 16, .., 2048 and a page of   *)
(* 4096, and of that only matters that the sizes grow and divide the page. *)
(* live is what the callers hold: a ghost variable.                        *)
(*                                                                         *)
(* A call runs without interference except where alloc_block waits for a   *)
(* block: krealloc waits there with interrupts on and no lock held, and    *)
(* others free meanwhile; kmalloc waits there with a spinlock held, and a  *)
(* user program has one thread, so nobody does, which are fewer behaviours *)
(* of the same model.                                                      *)
(*                                                                         *)
(* An operator that ends in _slip is a deliberately wrong form of the      *)
(* definition below it, which the properties must tell from the right one. *)
(***************************************************************************)
EXTENDS Naturals, Sequences, FiniteSets, Queues

CONSTANTS
  Pages,        \* the pages between dynAllocStart and dynAllocEnd
  Size,         \* [0..n -> Nat]: the block size of each class
  PageSize,     \* PAGE_SIZE
  NoClass,      \* block_size = 0: the page is not split
  Requests      \* the sizes that callers ask for

Classes == DOMAIN Size
LastClass == Cardinality(Classes) - 1

DynAllocAssumption ==
  /\ IsFiniteSet(Pages)
  /\ PageSize \in Nat \ {0}
  /\ LastClass \in Nat /\ Size \in [0..LastClass -> 1..PageSize]
  /\ \A c, d \in Classes : c < d => Size[c] < Size[d]
  /\ \A c \in Classes : PageSize % Size[c] = 0
  /\ NoClass \notin Classes
  /\ Requests \subseteq 1..Size[LastClass]

VARIABLES
  blockSize,   \* [Pages -> class]: pageBlockInfoArr[p].block_size
  numFree,     \* [Pages -> Nat]: pageBlockInfoArr[p].num_of_free_blocks
  freePages,   \* freePagesList, its first element first
  freeBlocks,  \* [Classes -> Seq(Block)]: freeBlockLists
  mapped,      \* the pages with a frame, by get_page and return_page
  blocked,     \* blockedVarDynallocAllocFunc
  call,        \* the call in progress, where it can be interrupted
  live         \* the blocks handed out, with the size that was asked for

lists == <<freePages, freeBlocks, mapped>>
info == <<blockSize, numFree>>
vars == <<info, lists, blocked, call, live>>

Offsets == 0..(PageSize - 1)
Block == [page : Pages, off : Offsets]
NoBlock == [page |-> NoClass, off |-> 0]
Idle == [stage |-> "idle", size |-> 0, old |-> NoBlock]

BlocksOf(c) == PageSize \div Size[c]
BlockAt(p, c, k) == [page |-> p, off |-> k * Size[c]]

\* The loop of alloc_block for the nearest power of two.
ClassOf(size) == CHOOSE c \in Classes :
                   size <= Size[c] /\ \A d \in Classes : d < c => size > Size[d]

Held == {[page |-> a.page, off |-> a.off] : a \in live}
HandOut(b, size) == live' = live \cup {[page |-> b.page, off |-> b.off, size |-> size]}
TakeBack(b) == live' = {a \in live : ~(a.page = b.page /\ a.off = b.off)}

----------------------------------------------------------------------------
(* alloc_block                                                             *)

\* The first block of list c is handed out.
Take(c, size) ==
  /\ freeBlocks' = [freeBlocks EXCEPT ![c] = Tail(@)]
  /\ numFree' = [numFree EXCEPT ![Head(freeBlocks[c]).page] = @ - 1]
  /\ HandOut(Head(freeBlocks[c]), size)
  /\ UNCHANGED <<blockSize, freePages, mapped>>

\* The first free page is mapped and cut into blocks of class c, whose list
\* is empty; the first of them is handed out.
Split(c, size) ==
  LET p == Head(freePages)
  IN  /\ freePages' = Tail(freePages)
      /\ mapped' = mapped \cup {p}
      /\ blockSize' = [blockSize EXCEPT ![p] = c]
      /\ numFree' = [numFree EXCEPT ![p] = BlocksOf(c) - 1]
      /\ freeBlocks' = [freeBlocks EXCEPT
                          ![c] = [k \in 1..(BlocksOf(c) - 1) |-> BlockAt(p, c, k)]]
      /\ HandOut(BlockAt(p, c, 0), size)

\* The lists that case 3 looks at: all from c on, the last one left out.
NextLists(c) == {d \in Classes : c <= d /\ d < LastClass /\ freeBlocks[d] # <<>>}

\* Case 1, and case 3 when there is no free page: the list to take from.
CanTake(c) ==
  IF freeBlocks[c] # <<>> THEN {c}
  ELSE IF freePages # <<>> THEN {}
  ELSE {d \in NextLists(c) : \A e \in NextLists(c) : d <= e}

CanSplit(c) == freeBlocks[c] = <<>> /\ freePages # <<>>

\* alloc_block(size) goes through, and then the call is at next ...
Allocate(size, next) ==
  /\ LET c == ClassOf(size)
     IN  \/ \E d \in CanTake(c) : Take(d, size)
         \/ CanSplit(c) /\ Split(c, size)
  /\ call' = next
  /\ UNCHANGED blocked

\* ... or it waits; old is the block that realloc_block is going to free.
Wait(size, old) ==
  /\ CanTake(ClassOf(size)) = {} /\ ~CanSplit(ClassOf(size))
  /\ blocked' = TRUE
  /\ call' = [stage |-> "wait", size |-> size, old |-> old]
  /\ UNCHANGED <<info, lists, live>>

alloc_block(size) ==
  /\ call = Idle
  /\ Allocate(size, Idle) \/ Wait(size, NoBlock)

\* After the copy, realloc_block has its old block to free.
AfterAlloc(old) == IF old = NoBlock THEN Idle
                   ELSE [stage |-> "free", size |-> 0, old |-> old]

\* The busy wait ends: alloc_block calls itself.
Retry ==
  /\ call.stage = "wait" /\ ~blocked
  /\ Allocate(call.size, AfterAlloc(call.old)) \/ Wait(call.size, call.old)

BusyWait == call.stage = "wait" /\ blocked /\ UNCHANGED vars

----------------------------------------------------------------------------
(* free_block                                                              *)

\* The page is returned with its blocks still in the list.
ReturnPage_slip(p) ==
  /\ mapped' = mapped \ {p}
  /\ freePages' = <<p>> \o freePages
  /\ numFree' = [numFree EXCEPT ![p] = 0]
  /\ blockSize' = [blockSize EXCEPT ![p] = NoClass]
  /\ UNCHANGED <<freeBlocks, blocked>>

\* The whole page is free: it goes back, and blocked stays as it is.
ReturnPage(p) ==
  /\ freeBlocks' = [freeBlocks EXCEPT ![blockSize[p]] =
                      Filter(@, {x \in Block : x.page # p})]
  /\ mapped' = mapped \ {p}
  /\ freePages' = <<p>> \o freePages
  /\ numFree' = [numFree EXCEPT ![p] = 0]
  /\ blockSize' = [blockSize EXCEPT ![p] = NoClass]
  /\ UNCHANGED blocked

ReturnBlock(b) ==
  /\ freeBlocks' = [freeBlocks EXCEPT ![blockSize[b.page]] = Append(@, b)]
  /\ numFree' = [numFree EXCEPT ![b.page] = @ + 1]
  /\ blocked' = FALSE
  /\ UNCHANGED <<blockSize, freePages, mapped>>

Release(b) ==
  /\ IF numFree[b.page] + 1 >= BlocksOf(blockSize[b.page])
     THEN ReturnPage(b.page) ELSE ReturnBlock(b)
  /\ TakeBack(b)

\* Callers free what they hold, once, also while another call waits.
free_block(b) ==
  /\ b \in Held \ {call.old}
  /\ Release(b)
  /\ UNCHANGED call

----------------------------------------------------------------------------
(* realloc_block, for a block that the caller holds.  A size that fits     *)
(* into the block leaves it where it is.                                   *)

Resize(b, size) ==
  live' = {IF a.page = b.page /\ a.off = b.off THEN [a EXCEPT !.size = size]
           ELSE a : a \in live}

realloc_block(b, size) ==
  /\ call = Idle /\ b \in Held
  /\ IF size <= Size[blockSize[b.page]]
     THEN Resize(b, size) /\ UNCHANGED <<info, lists, blocked, call>>
     ELSE Allocate(size, AfterAlloc(b)) \/ Wait(size, b)

ReallocFree ==
  /\ call.stage = "free"
  /\ Release(call.old)
  /\ call' = Idle

----------------------------------------------------------------------------
\* initialize_dynamic_allocator: the pages in the order of their addresses.
Init ==
  /\ blockSize = [p \in Pages |-> NoClass]
  /\ numFree = [p \in Pages |-> 0]
  /\ freePages \in {s \in [1..Cardinality(Pages) -> Pages] :
                      \A p \in Pages : \E i \in DOMAIN s : s[i] = p}
  /\ freeBlocks = [c \in Classes |-> <<>>]
  /\ mapped = {}
  /\ blocked = FALSE
  /\ call = Idle
  /\ live = {}

Next == \/ \E size \in Requests : \/ alloc_block(size)
                                  \/ \E b \in Held : realloc_block(b, size)
        \/ \E b \in Held : free_block(b)
        \/ Retry \/ BusyWait \/ ReallocFree

Spec == Init /\ [][Next]_vars

----------------------------------------------------------------------------
(* The types of the variables: the block lists hold blocks of the pages,   *)
(* and a page has the block size of one of the lists or none.              *)
TypeOK ==
  /\ blockSize \in [Pages -> Classes \cup {NoClass}]
  /\ numFree \in [Pages -> 0..PageSize]
  /\ freePages \in Seq(Pages)
  /\ freeBlocks \in [Classes -> Seq(Block)]
  /\ mapped \subseteq Pages
  /\ blocked \in BOOLEAN
  /\ call \in [stage : {"idle", "wait", "free"}, size : Requests \cup {0},
               old : Block \cup {NoBlock}]
  /\ live \subseteq [page : Pages, off : Offsets, size : Requests]

Units(b) == {<<b.page, i>> : i \in b.off..(b.off + Size[blockSize[b.page]] - 1)}

\* The entries of the block lists, one for each place.
Listed == UNION {{<<c, i>> : i \in DOMAIN freeBlocks[c]} : c \in Classes}
At(e) == freeBlocks[e[1]][e[2]]

(* Every block of every split page is either held by one caller or in the  *)
(* list of its class, once, and num_of_free_blocks counts the latter; the  *)
(* blocks that callers hold do not overlap, and each is mapped and as long *)
(* as was asked for: no memory is given to two callers and none is lost,   *)
(* however allocations, reallocations and frees of all sizes follow each   *)
(* other.  A page has a frame exactly as long as somebody holds a block of *)
(* it, and otherwise it is in the list of free pages, once ("If entire     *)
(* page becomes free .. return it", dynamic_allocator.c:250-253).          *)
BlocksAccountedFor ==
  /\ \A e, f \in Listed : At(e) = At(f) => e = f
  /\ \A e \in Listed : blockSize[At(e).page] = e[1] /\ At(e) \notin Held
  /\ \A p \in Pages :
       blockSize[p] # NoClass =>
         LET c == blockSize[p]
             free == {e \in Listed : At(e).page = p}
         IN  /\ numFree[p] = Cardinality(free)
             /\ {At(e) : e \in free} \cup {b \in Held : b.page = p}
                  = {BlockAt(p, c, k) : k \in 0..(BlocksOf(c) - 1)}
  /\ \A a, b \in live : a # b => Units(a) \cap Units(b) = {}
  /\ \A a \in live : a.page \in mapped /\ a.size <= Size[blockSize[a.page]]
  /\ mapped = {a.page : a \in live}
  /\ mapped = {p \in Pages : blockSize[p] # NoClass}
  /\ \A p \in Pages : Cardinality({i \in DOMAIN freePages : freePages[i] = p})
                        = IF p \in mapped THEN 0 ELSE 1
============================================================================
