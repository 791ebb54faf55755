----------------------------- MODULE MCUserHeap -----------------------------
(* The heap of a program: a behaviour is one of the page allocator (UHeap)  *)
(* or one of the block allocator (DynAlloc), which the kernel's heap uses   *)
(* too.                                                                     *)
EXTENDS Naturals

CONSTANTS UserTop, UserSizes, Objects, CallsAfter,
          SmallPages, ClassSize, PageSize, NoClass, SmallSizes

VARIABLES part, since, userBrk, allocs, holes, page, running, lowered,
          blockSize, numFree, freePages, freeBlocks, framed, blocked, call, handed

pageVars == <<userBrk, allocs, holes, page, running, lowered>>
blockVars == <<blockSize, numFree, freePages, freeBlocks, framed, blocked, call, handed>>

U == INSTANCE UHeap WITH HeapTop <- UserTop, Sizes <- UserSizes, brk <- userBrk

D == INSTANCE DynAlloc WITH Pages <- SmallPages, Size <- ClassSize, Requests <- SmallSizes,
                            mapped <- framed, live <- handed

ASSUME PageAssumption == U!UHeapAssumption
ASSUME BlockAssumption == D!DynAllocAssumption

\* Three classes with 4, 3 and 2 blocks in a page.
MCSize == [c \in 0..2 |-> CASE c = 0 -> 3 [] c = 1 -> 4 [] c = 2 -> 6]

MCInit == part \in {"pages", "blocks"} /\ since = 0 /\ U!Init /\ D!Init

\* Once free has left a listed block above the break, objects overlap and the
\* list of blocks grows without end: the run follows CallsAfter calls more.
PagesNext == /\ lowered => since < CallsAfter
             /\ since' = IF lowered THEN since + 1 ELSE since
             /\ U!Next

MCNext == \/ part = "pages" /\ PagesNext /\ UNCHANGED <<part, blockVars>>
          \/ part = "blocks" /\ D!Next /\ UNCHANGED <<part, since, pageVars>>

MCSpec == MCInit /\ [][MCNext]_<<part, since, pageVars, blockVars>>

PagesConserved == U!PagesConserved
FitsCustom == U!FitsCustom
BlocksAccountedFor == D!BlocksAccountedFor
=============================================================================
