------------------------------- MODULE Frames -------------------------------
(***************************************************************************)
(* Physical frames and page tables: kern/mem/memory_manager.c and          *)
(* alloc_page of kern/mem/paging_helpers.c.                                *)
(*                                                                         *)
(* A memory m is a record:                                                 *)
(*   free   MemFrameLists.free_frame_list, the next to be allocated first  *)
(*   refs   [Frames -> Nat]: FrameInfo.references                          *)
(*   va     [Frames -> Nat]: FrameInfo.va, 0 for none                      *)
(*   pt     [Slots -> frame]: the page table entries, NoFrame if not       *)
(*          present; a slot is a page directory and a virtual page         *)
(* The operators return the memory after the call, so that a caller can    *)
(* make several calls in one step; the caller's own lock is held.  The     *)
(* page tables themselves are taken for granted.                           *)
(***************************************************************************)
EXTENDS Naturals, Sequences

CONSTANTS Frames, NoFrame

NoVa == 0

InitMemory(Slots, order) ==
  [free |-> order,
   refs |-> [f \in Frames |-> 0],
   va |-> [f \in Frames |-> NoVa],
   pt |-> [s \in Slots |-> NoFrame]]

\* allocate_frame panics when there is no frame, so callers see to it that
\* there is one, or model the panic.
OutOfFrames(m) == m.free = <<>>

initialize_frame_info(m, f) == [m EXCEPT !.refs[f] = 0, !.va[f] = NoVa]

allocate_frame(m) ==
  [initialize_frame_info(m, Head(m.free)) EXCEPT !.free = Tail(m.free)]

free_frame(m, f) ==
  [initialize_frame_info(m, f) EXCEPT !.free = <<f>> \o m.free]

decrement_references(m, f) ==
  IF m.refs[f] = 1 THEN free_frame(m, f) ELSE [m EXCEPT !.refs[f] = @ - 1]

\* The frame is not given back.
unmap_frame_slip(m, s) == [m EXCEPT !.pt[s] = NoFrame]

unmap_frame(m, s) ==
  IF m.pt[s] = NoFrame THEN m
  ELSE [decrement_references(m, m.pt[s]) EXCEPT !.pt[s] = NoFrame]

\* map_frame(f, s): va is the virtual address of slot s.
map_frame(m, f, s, va) ==
  LET w == [m EXCEPT !.va[f] = va]
  IN  IF w.pt[s] = f THEN w
      ELSE [unmap_frame(w, s) EXCEPT !.refs[f] = @ + 1, !.pt[s] = f]

\* alloc_page, and the loops of kmalloc: a new frame at slot s.
alloc_page(m, s, va) ==
  IF m.pt[s] # NoFrame THEN m
  ELSE map_frame(allocate_frame(m), Head(m.free), s, va)

----------------------------------------------------------------------------
IsMemory(m, Slots, Vas) ==
  m \in [free : Seq(Frames), refs : [Frames -> Nat], va : [Frames -> Vas],
         pt : [Slots -> Frames \cup {NoFrame}]]

Entries(m, f) == {s \in DOMAIN m.pt : m.pt[s] = f}
============================================================================
