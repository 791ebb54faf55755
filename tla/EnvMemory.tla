----------------------------- MODULE EnvMemory -----------------------------
(***************************************************************************)
(* What an environment owns from env_create to env_free                    *)
(* (kern/proc/user_environment.c): its page directory, page tables and     *)
(* kernel stack on the kernel heap, the frames of its pages, and its disk  *)
(* tables and disk frames in the page file (kern/disk/pagefile_manager.c). *)
(*                                                                         *)
(* A page of the kernel heap is one frame.  Blocks of a few bytes (working *)
(* set elements, the array of prepaged addresses) are left to DynAlloc.    *)
(* Which page is replaced is left to PageFault: here it is any page.  A    *)
(* disk frame holds the name of what was last written to it.               *)
(*                                                                         *)
(* An operator that ends in _slip is a deliberately wrong form of the      *)
(* definition below it, which the properties must tell from the right one. *)
(***************************************************************************)
EXTENDS Naturals, Queues, SequencesExt

CONSTANTS
  Envs,        \* the slots of envs[]
  LastPage,    \* the pages of user space are 1..LastPage
  Table,       \* [Pages -> page table index]
  HeapPages,   \* the pages of the user heap, which have no image
  StackPage,   \* the page below USTACKTOP
  Programs,    \* the programs: [segments : Seq(Seq(Pages)), wsmax : Nat]
  NFrames,     \* the number of frames
  NDisk,       \* PAGES_PER_FILE - 1: disk frame 0 is not used
  KStackPages, \* KERNEL_STACK_SIZE / PAGE_SIZE
  MaxLives     \* the bound on how often a slot is used

Pages == 1..LastPage

\* A page is in one segment of a program, once, and the stack is in none.
Loadable(segments) ==
  /\ segments \in Seq(Seq(Pages \ {StackPage}))
  /\ \A i, j \in DOMAIN segments :
       \A k \in DOMAIN segments[i], l \in DOMAIN segments[j] :
         segments[i][k] = segments[j][l] => i = j /\ k = l

ASSUME EnvMemoryAssumption ==
  /\ IsFiniteSet(Envs) /\ LastPage \in Nat /\ Table \in [Pages -> Nat]
  /\ StackPage \in Pages /\ HeapPages \subseteq Pages \ {StackPage}
  /\ \A pr \in Programs : pr.wsmax \in Nat \ {0} /\ Loadable(pr.segments)
  /\ {NFrames, NDisk, KStackPages, MaxLives} \subseteq Nat

VARIABLES
  status,    \* [Envs -> ...]: env_status
  freeList,  \* env_free_list
  life,      \* [Envs -> Nat]: how often the slot was used (ghost)
  wsmax,     \* [Envs -> Nat]: page_WS_max_size
  mem        \* everything that is allocated, a record; see InitMem

vars == <<status, freeList, life, wsmax, mem>>

\* The owner of a resource: a slot in one of its lives.
Own(e) == <<e, life[e]>>
Owners == Envs \X (0..MaxLives)

InitMem ==
  [free |-> NFrames,                                  \* free frames
   heap |-> {},                                       \* kernel heap pages in use
   ws |-> [o \in Owners |-> <<>>],                    \* page_WS_list
   pt |-> [o \in Owners |-> {}],                      \* pages with a frame
   dirty |-> [o \in Owners |-> {}],                   \* PERM_MODIFIED
   dpt |-> [o \in Owners |-> [p \in Pages |-> 0]],    \* disk page tables
   diskFree |-> [i \in 1..NDisk |-> NDisk + 1 - i],   \* disk_free_frame_list
   disk |-> [d \in 1..NDisk |-> <<>>],                \* what disk frames hold
   lost |-> 0,                                        \* frames nobody knows of
   ok |-> TRUE]                                       \* nothing has panicked

----------------------------------------------------------------------------
(* Steps of a longer call.  Each takes and returns a memory; after one has *)
(* panicked the rest do nothing.                                           *)

Panic(m) == [m EXCEPT !.ok = FALSE]

\* kmalloc(PAGE_SIZE) for the structure named by kind and index.
kmalloc(m, o, kind, i) ==
  IF ~m.ok THEN m
  ELSE IF m.free = 0 THEN Panic(m)
  ELSE [m EXCEPT !.free = @ - 1, !.heap = @ \cup {<<o, kind, i>>}]

Ensure(m, o, kind, i) ==
  IF <<o, kind, i>> \in m.heap THEN m ELSE kmalloc(m, o, kind, i)

\* allocate_frame, then loadtime_map_frame or map_frame, which creates the
\* page table.  If there is no room for the table the frame is lost.
MapNew(m, o, p) ==
  IF ~m.ok THEN m
  ELSE IF m.free = 0 THEN Panic(m)
  ELSE LET w == Ensure([m EXCEPT !.free = @ - 1], o, "table", Table[p])
       IN  IF w.ok THEN [w EXCEPT !.pt[o] = @ \cup {p}]
           ELSE [w EXCEPT !.lost = @ + 1]

\* A working set element for a page that has just been mapped.
env_page_ws_list_create_element(m, o, p) ==
  IF m.ok THEN [m EXCEPT !.ws[o] = Append(@, p)] ELSE m

\* The frame goes to the free list and the entry is cleared.
Unmap(m, o, p) ==
  IF p \notin m.pt[o] THEN m
  ELSE [m EXCEPT !.free = @ + 1, !.pt[o] = @ \ {p}, !.dirty[o] = @ \ {p}]

----------------------------------------------------------------------------
(* The page file.                                                          *)

\* The frame stays in the list.
allocate_disk_frame_slip(m, o, p) ==
  [m EXCEPT !.dpt[o][p] = Head(m.diskFree),
            !.diskFree = IF Len(@) > 1 THEN Tail(@) ELSE @]

\* The first of the list, for page p.
allocate_disk_frame(m, o, p) ==
  [m EXCEPT !.dpt[o][p] = Head(m.diskFree), !.diskFree = Tail(@)]

get_disk_page_directory(m, o) == Ensure(m, o, "diskdir", 0)

get_disk_page_table(m, o, p) == Ensure(m, o, "disktable", Table[p])

\* pf_add_empty_env_page without initialisation: the tables, and a disk frame
\* if the page has none.  full says what follows when there is none left.
AddEmpty(m, o, p, full) ==
  LET w == get_disk_page_table(get_disk_page_directory(m, o), o, p)
  IN  IF ~w.ok \/ w.dpt[o][p] # 0 THEN w
      ELSE IF w.diskFree = <<>> THEN IF full = "panic" THEN Panic(w) ELSE w
      ELSE allocate_disk_frame(w, o, p)

write_disk_page(m, o, p) ==
  IF m.ok /\ m.dpt[o][p] # 0 THEN [m EXCEPT !.disk[m.dpt[o][p]] = <<o, p>>] ELSE m

pf_add_env_page(m, o, p, full) == write_disk_page(AddEmpty(m, o, p, full), o, p)

\* The page gets a disk frame and its content is not written.
pf_update_env_page_slip(m, o, p) ==
  LET w == AddEmpty(m, o, p, "panic")
  IN  IF w.ok THEN [w EXCEPT !.dirty[o] = @ \ {p}] ELSE w

\* A page that is new to the file gets a disk frame first.
pf_update_env_page(m, o, p) ==
  LET w == pf_add_env_page(m, o, p, "panic")
  IN  IF w.ok THEN [w EXCEPT !.dirty[o] = @ \ {p}] ELSE w

\* free_disk_frame(0) does nothing.
pf_remove_env_page(m, o, p) ==
  IF m.dpt[o][p] = 0 THEN m
  ELSE [m EXCEPT !.diskFree = <<m.dpt[o][p]>> \o @, !.dpt[o][p] = 0]

\* Every entry of every disk table, in order, then the tables and the
\* directory.  No page table is ever written to the file, so there is no
\* table directory.
pf_free_env(m, o) ==
  LET w == Each(LAMBDA a, p : pf_remove_env_page(a, o, p), m,
                [p \in Pages |-> p])
      gone == {h \in w.heap : h[1] = o /\ h[2] \in {"disktable", "diskdir"}}
  IN  [w EXCEPT !.heap = @ \ gone, !.free = @ + Cardinality(gone)]

----------------------------------------------------------------------------
(* env_create                                                              *)

Live(e) == status[e] = "NEW"

create_user_kern_stack(m, o) ==
  Each(LAMBDA a, i : kmalloc(a, o, "kstack", i), m, [i \in 1..KStackPages |-> i])

\* create_user_directory and initialize_environment.
InitEnvironment(m, o) == create_user_kern_stack(kmalloc(m, o, "dir", 0), o)

\* The first pages of the segment, as long as the working set has room and
\* keeps one place for the stack.
program_segment_alloc_map_copy_workingset(m, o, seg, room) ==
  Each(LAMBDA a, p : env_page_ws_list_create_element(MapNew(a, o, p), o, p),
       m, SubSeq(seg, 1, IF room < Len(seg) THEN room ELSE Len(seg)))

\* One segment: its first pages in memory, all of them in the page file.
LoadSegment(m, o, seg, max) ==
  LET w == program_segment_alloc_map_copy_workingset(m, o, seg,
                                                     max - 1 - Len(m.ws[o]))
  IN  Each(LAMBDA a, p : pf_add_env_page(a, o, p, "panic"), w, seg)

\* The stack page; what the page file answers is not looked at.
LoadStack(m, o) ==
  pf_add_env_page(env_page_ws_list_create_element(MapNew(m, o, StackPage), o,
                                                  StackPage),
                  o, StackPage, "ignore")

Loaded(m, o, pr) ==
  LoadStack(Each(LAMBDA a, s : LoadSegment(a, o, s, pr.wsmax), m, pr.segments), o)

\* The whole function runs with interrupts off.  If it panics before the slot
\* leaves the list, the slot is used again by the next call; if after, the
\* environment is in no queue and nobody will free it.
env_create(pr) ==
  /\ freeList # <<>>
  /\ LET e == Head(freeList)
         o == <<e, life[e] + 1>>
         begun == InitEnvironment(mem, o)
         done == Loaded(begun, o, pr)
     IN  /\ life[e] < MaxLives
         /\ life' = [life EXCEPT ![e] = @ + 1]
         /\ mem' = [done EXCEPT !.ok = TRUE]
         /\ wsmax' = [wsmax EXCEPT ![e] = pr.wsmax]
         /\ freeList' = IF begun.ok THEN Tail(freeList) ELSE freeList
         /\ status' = [status EXCEPT ![e] = IF ~begun.ok THEN "UNKNOWN"
                                            ELSE IF ~done.ok THEN "HALFMADE"
                                            ELSE "NEW"]

----------------------------------------------------------------------------
(* While it runs                                                           *)

Write(e, p) ==
  /\ Live(e) /\ p \in mem.pt[Own(e)] \ mem.dirty[Own(e)]
  /\ mem' = [mem EXCEPT !.dirty[Own(e)] = @ \cup {p}]
  /\ UNCHANGED <<status, freeList, life, wsmax>>

\* After a panic in the fault handler, or an illegal access, the environment
\* is in the exit queue.
Becomes(e, m) ==
  /\ mem' = [m EXCEPT !.ok = TRUE]
  /\ status' = [status EXCEPT ![e] = IF m.ok THEN "NEW" ELSE "EXIT"]
  /\ UNCHANGED <<freeList, life, wsmax>>

Legal(m, o, p) == m.dpt[o][p] # 0 \/ p \in HeapPages \cup {StackPage}

\* A free place in the working set.  The frame is mapped before the access is
\* found to be illegal, and then the page is in no working set.
Placement(e, p) ==
  /\ Live(e) /\ p \notin mem.pt[Own(e)]
  /\ Len(mem.ws[Own(e)]) < wsmax[e]
  /\ LET w == MapNew(mem, Own(e), p)
     IN  Becomes(e, IF Legal(mem, Own(e), p)
                    THEN env_page_ws_list_create_element(w, Own(e), p) ELSE Panic(w))

\* The victim's content goes to the file if it was modified and its frame to
\* the free list; its element gets the new page before that has a frame, and
\* the access is found to be illegal after it has one.
Replacement(e, p, v) ==
  /\ Live(e) /\ p \notin mem.pt[Own(e)]
  /\ Len(mem.ws[Own(e)]) = wsmax[e] /\ v \in ToSet(mem.ws[Own(e)])
  /\ LET o == Own(e)
         saved == IF v \in mem.dirty[o] THEN pf_update_env_page(mem, o, v) ELSE mem
         taken == [Unmap(saved, o, v) EXCEPT
                     !.ws[o] = [i \in DOMAIN @ |-> IF @[i] = v THEN p ELSE @[i]]]
     IN  Becomes(e, IF ~saved.ok THEN saved
                    ELSE IF Legal(mem, o, p) THEN MapNew(taken, o, p)
                    ELSE Panic(MapNew(taken, o, p)))

\* env_page_ws_invalidate, which unmaps, and pf_remove_env_page.
free_user_mem(e, p) ==
  /\ Live(e) /\ p \in HeapPages
  /\ <<Own(e), "table", Table[p]>> \in mem.heap
  /\ LET o == Own(e)
         w == IF p \in ToSet(mem.ws[o]) THEN Unmap(mem, o, p) ELSE mem
     IN  mem' = pf_remove_env_page([w EXCEPT !.ws[o] = Filter(@, Pages \ {p})],
                                   o, p)
  /\ UNCHANGED <<status, freeList, life, wsmax>>

env_exit(e) ==
  /\ Live(e)
  /\ status' = [status EXCEPT ![e] = "EXIT"]
  /\ UNCHANGED <<freeList, life, wsmax, mem>>

----------------------------------------------------------------------------
(* env_free                                                                *)

\* The page tables stay.
TablesAndDirectory_slip(m, o) ==
  LET gone == {h \in m.heap : h[1] = o /\ h[2] \in {"dir", "kstack"}}
  IN  [m EXCEPT !.heap = @ \ gone, !.free = @ + Cardinality(gone),
                !.lost = @ + Cardinality(m.pt[o]), !.pt[o] = {}, !.dirty[o] = {}]

\* Steps 7 and 8 and the kernel stack.  A page that is still mapped loses
\* its table, and with it the only reference to its frame.
TablesAndDirectory(m, o) ==
  LET gone == {h \in m.heap : h[1] = o /\ h[2] \in {"table", "dir", "kstack"}}
  IN  [m EXCEPT !.heap = @ \ gone, !.free = @ + Cardinality(gone),
                !.lost = @ + Cardinality(m.pt[o]), !.pt[o] = {}, !.dirty[o] = {}]

\* Steps 2 and 3.
WorkingSet(m, o) ==
  [Each(LAMBDA a, p : Unmap(a, o, p), m, m.ws[o]) EXCEPT !.ws[o] = <<>>]

free_environment(e) ==
  /\ status' = [status EXCEPT ![e] = "FREE"]
  /\ freeList' = <<e>> \o freeList

env_free(e) ==
  /\ status[e] \in {"NEW", "EXIT"}
  /\ LET o == Own(e)
     IN  mem' = pf_free_env(TablesAndDirectory(WorkingSet(mem, o), o), o)
  /\ free_environment(e)
  /\ wsmax' = [wsmax EXCEPT ![e] = 0]
  /\ UNCHANGED life

----------------------------------------------------------------------------
Init ==
  /\ status = [e \in Envs |-> "FREE"]
  /\ freeList \in SetToSeqs(Envs)     \* env_init, in some order
  /\ life = [e \in Envs |-> 0]
  /\ wsmax = [e \in Envs |-> 0]
  /\ mem = InitMem

Next ==
  \/ \E pr \in Programs : env_create(pr)
  \/ \E e \in Envs :
       \/ \E p \in Pages : \/ Write(e, p) \/ Placement(e, p) \/ free_user_mem(e, p)
                           \/ \E v \in Pages : Replacement(e, p, v)
       \/ env_exit(e)
       \/ env_free(e)

Spec == Init /\ [][Next]_vars

----------------------------------------------------------------------------
Mapped == {x \in Owners \X Pages : x[2] \in mem.pt[x[1]]}
OnDisk == {x \in Owners \X Pages : mem.dpt[x[1]][x[2]] # 0}

(* Every frame is free, holds a page of an environment or a page of its    *)
(* structures, or is one of the frames that the two known failures lose,   *)
(* whatever order environments are created, fault, replace, free and are   *)
(* destroyed in, and wherever a creation runs out of memory.  Every frame  *)
(* of the page file is in its free list, once, or belongs to one page of   *)
(* one environment: pf_free_env, pf_remove_env_page and the loads that     *)
(* fail in the middle neither lose a disk frame nor free it twice.         *)
FramesAccountedFor ==
  /\ mem.free + Cardinality(mem.heap) + Cardinality(Mapped) + mem.lost = NFrames
  /\ IsInjective(mem.diskFree)
  /\ \A d \in 1..NDisk :
       Cardinality({x \in OnDisk : mem.dpt[x[1]][x[2]] = d})
         = IF d \in ToSet(mem.diskFree) THEN 0 ELSE 1

(* A page that is read from the file is the environment's own: its disk    *)
(* frame was written for this page in this life of the slot, although      *)
(* frames are reused without being cleared.                                *)
ReadsItsOwn == \A x \in OnDisk : mem.disk[mem.dpt[x[1]][x[2]]] = x

(* env_free leaves nothing behind: the last life of a slot that is free    *)
(* owns no page, no structure and no disk frame.  A creation that panicked *)
(* leaves its slot in another status.                                      *)
NothingLeftBehind ==
  \A e \in Envs : status[e] = "FREE" =>
    LET o == Own(e) IN
    /\ mem.pt[o] = {} /\ mem.ws[o] = <<>>
    /\ \A h \in mem.heap : h[1] # o
    /\ \A p \in Pages : mem.dpt[o][p] = 0

============================================================================
