------------------------------ MODULE Sharing ------------------------------
(***************************************************************************)
(* Shared memory: kern/mem/shared_memory_manager.c, the calls of it that   *)
(* smalloc, sget and sfree of lib/uheap.c make, and what happens to the    *)
(* shares of an environment that exits.                                    *)
(*                                                                         *)
(* An environment is a slot of envs[]; its env_id is the slot and the      *)
(* generation that complete_environment_initialization gives it.  Every    *)
(* kernel call holds shareslock from its first line to its last, so it is  *)
(* one action; sget is two calls and is preempted in between.  Where the   *)
(* user heap places an object is left open (module UHeap models it): any   *)
(* pages below its end, which smalloc and sget test.  Nothing tests that   *)
(* they are unused; a call that maps an object over mapped pages or beyond *)
(* the heap sets clashed, and the model ends with it.  Calls that change   *)
(* nothing, because the name is taken or does not exist, are not actions.  *)
(*                                                                         *)
(* An operator that ends in _slip is a deliberately wrong form of the      *)
(* definition below it, which the properties must tell from the right one. *)
(***************************************************************************)
EXTENDS Frames, Queues, SequencesExt

CONSTANTS
  Envs,      \* the slots of envs[]
  HeapTop,   \* the pages of a user heap are 1 .. HeapTop
  Names,     \* the names that programs give for shared objects
  Cut,       \* [Names -> Names]: the first 63 characters of a name
  Ids,       \* the kernel addresses of struct Share
  Sizes,     \* the sizes, in pages, that programs ask for
  MaxRefs    \* the bound on the references of a share, which an environment
             \* that exits leaves counted

SharingAssumption ==
  /\ IsFiniteSet(Frames) /\ HeapTop \in Nat /\ MaxRefs \in Nat
  /\ Sizes \subseteq Nat \ {0}
  /\ Cut \in [Names -> Names] /\ \A a \in Names : Cut[Cut[a]] = Cut[a]
  /\ NoFrame \notin Frames

VARIABLES
  mem,      \* the frames and page tables, see Frames
  shares,   \* AllShares.shares_list
  lock,     \* shareslock is held when no call is in progress
  status,   \* [Envs -> {"running", "exit", "free"}]: env_status
  gen,      \* [Envs -> Nat]: the generation part of env_id, 0 when cleared
  alloc,    \* [Envs -> set of objects]: alloc_head of the user heap
  pending,  \* [Envs -> Seq of objects]: the sget between its two calls
  clashed   \* an object has been mapped over used pages or beyond the heap

vars == <<mem, shares, lock, status, gen, alloc, pending, clashed>>

HeapArea == 1..HeapTop
Extent(v, n) == v..(v + n - 1)
envId(e) == <<e, gen[e]>>
Listed == ToSet(shares)
Running(e) == status[e] = "running"

\* find_share: the first of that owner whose stored name is the one asked for.
Found(owner, name) ==
  Filter(shares, {s \in Listed : s.owner = owner /\ s.name = name})

\* Nothing is mapped at those pages of the heap.
Fresh(e, v, n) ==
  \A x \in Extent(v, n) : x \in HeapArea /\ mem.pt[<<e, x>>] = NoFrame

----------------------------------------------------------------------------
(* create_shared_object                                                    *)

\* allocate_frame and map_frame: a new frame, in place of what is there.
NewPage(m, s, va) == map_frame(allocate_frame(m), Head(m.free), s, va)

\* n new frames, mapped one after the other from page v of e on.
MapNew(e, v, n) ==
  Each(LAMBDA m, i : NewPage(m, <<e, v + i - 1>>, v + i - 1), mem,
       [i \in 1..n |-> i])

\* There is a frame for each of k pages.
Suffice(e, v, k) == \A j \in 0..(k - 1) : ~OutOfFrames(MapNew(e, v, j))

\* framesStorage: the frames of the first k of n pages.
framesStorage(e, v, n, k) ==
  [i \in 1..n |-> IF i <= k THEN MapNew(e, v, k).pt[<<e, v + i - 1>>] ELSE NoFrame]

alloc_share(id, owner, name, frames) ==
  [id |-> id, owner |-> owner, name |-> Cut[name], size |-> Len(frames),
   references |-> 1, frames |-> frames]

FreeIds == Ids \ {s.id : s \in Listed}

MayCreate(e, name) ==
  /\ Running(e) /\ ~lock /\ pending[e] = <<>>
  /\ Found(envId(e), name) = <<>>

\* smalloc: sys_create_shared_object succeeds, and allocationGded.
create_shared_object(e, name, n, v, id) ==
  /\ MayCreate(e, name) /\ Extent(v, n) \subseteq HeapArea /\ Suffice(e, v, n)
  /\ shares' = <<alloc_share(id, envId(e), name, framesStorage(e, v, n, n))>> \o shares
  /\ mem' = MapNew(e, v, n)
  /\ alloc' = [alloc EXCEPT ![e] = @ \cup {[va |-> v, id |-> id]}]
  /\ clashed' = ~Fresh(e, v, n)
  /\ UNCHANGED <<lock, status, gen, pending>>

\* The frames run out after k pages: allocate_frame panics, with shareslock
\* held and the object in the list, and the caller exits.
CreateExhausts(e, name, n, v, id, k) ==
  /\ MayCreate(e, name) /\ Extent(v, n) \subseteq HeapArea
  /\ Suffice(e, v, k) /\ OutOfFrames(MapNew(e, v, k))
  /\ shares' = <<alloc_share(id, envId(e), name, framesStorage(e, v, n, k))>> \o shares
  /\ mem' = MapNew(e, v, k)
  /\ lock' = TRUE
  /\ status' = [status EXCEPT ![e] = "exit"]
  /\ clashed' = ~Fresh(e, v, k)
  /\ UNCHANGED <<gen, alloc, pending>>

\* sys_create_shared_object with an address that is not at the start of a
\* page: the call fails after the object has been put into the list.
CreateUnaligned(e, name, n, id) ==
  /\ MayCreate(e, name)
  /\ shares' = <<alloc_share(id, envId(e), name, [i \in 1..n |-> NoFrame])>>
               \o shares
  /\ UNCHANGED <<mem, lock, status, gen, alloc, pending, clashed>>

----------------------------------------------------------------------------
(* get_shared_object                                                       *)

\* sget asks for the size and finds a place for that many pages.
size_of_shared_object(e, owner, name, v) ==
  /\ Running(e) /\ ~lock /\ pending[e] = <<>>
  /\ Found(owner, name) # <<>>
  /\ Extent(v, Head(Found(owner, name)).size) \subseteq HeapArea
  /\ pending' = [pending EXCEPT ![e] = <<[va |-> v, owner |-> owner, name |-> name]>>]
  /\ UNCHANGED <<mem, shares, lock, status, gen, alloc, clashed>>

\* The frames of s, in place of what is there.
MapShare(e, v, s) ==
  Each(LAMBDA m, i : IF v + i - 1 \in HeapArea
                     THEN map_frame(m, s.frames[i], <<e, v + i - 1>>, v + i - 1)
                     ELSE m,
       mem, [i \in 1..s.size |-> i])

\* The share s with d more references.
Referenced(s, d) ==
  [i \in DOMAIN shares |->
     IF shares[i].id = s.id THEN [shares[i] EXCEPT !.references = @ + d]
     ELSE shares[i]]

\* The second call of sget, and what find_share returns in it.
Getting(e) == Running(e) /\ ~lock /\ pending[e] # <<>>
Asked(e) == Found(pending[e][1].owner, pending[e][1].name)

\* The references are not counted.
get_shared_object_slip(e) ==
  /\ Getting(e) /\ Asked(e) # <<>>
  /\ LET s == Head(Asked(e))
         v == pending[e][1].va
     IN  /\ NoFrame \notin ToSet(s.frames)
         /\ mem' = MapShare(e, v, s)
         /\ alloc' = [alloc EXCEPT ![e] = @ \cup {[va |-> v, id |-> s.id]}]
         /\ clashed' = ~Fresh(e, v, s.size)
  /\ pending' = [pending EXCEPT ![e] = <<>>]
  /\ UNCHANGED <<shares, lock, status, gen>>

\* sget maps the object into that place, however long it is by now.
get_shared_object(e) ==
  /\ Getting(e) /\ Asked(e) # <<>>
  /\ LET s == Head(Asked(e))
         v == pending[e][1].va
     IN  /\ NoFrame \notin ToSet(s.frames) /\ s.references < MaxRefs
         /\ mem' = MapShare(e, v, s)
         /\ shares' = Referenced(s, 1)
         /\ alloc' = [alloc EXCEPT ![e] = @ \cup {[va |-> v, id |-> s.id]}]
         /\ clashed' = ~Fresh(e, v, s.size)
  /\ pending' = [pending EXCEPT ![e] = <<>>]
  /\ UNCHANGED <<lock, status, gen>>

\* The object has gone: the place is given back.
GetGone(e) ==
  /\ Getting(e) /\ Asked(e) = <<>>
  /\ pending' = [pending EXCEPT ![e] = <<>>]
  /\ UNCHANGED <<mem, shares, lock, status, gen, alloc, clashed>>

\* An object of CreateUnaligned has no frames: map_frame writes to a frame
\* info at NULL, which is a page fault at an address that is neither of the
\* stack nor of the heap, and the caller exits with shareslock held.
GetFaults(e) ==
  /\ Getting(e) /\ Asked(e) # <<>> /\ NoFrame \in ToSet(Head(Asked(e)).frames)
  /\ lock' = TRUE
  /\ status' = [status EXCEPT ![e] = "exit"]
  /\ pending' = [pending EXCEPT ![e] = <<>>]
  /\ UNCHANGED <<mem, shares, gen, alloc, clashed>>

----------------------------------------------------------------------------
(* delete_shared_object                                                    *)

\* The pages stay mapped.
Unmapped_slip(e, v, s) == mem

Unmapped(e, v, s) ==
  Each(LAMBDA m, i : IF v + i - 1 \in HeapArea
                     THEN unmap_frame(m, <<e, v + i - 1>>) ELSE m,
       mem, [i \in 1..s.size |-> i])

\* There are other references.
Delete(e, r, s) ==
  /\ s.references > 1
  /\ mem' = Unmapped(e, r.va, s)
  /\ shares' = Referenced(s, -1)
  /\ alloc' = [alloc EXCEPT ![e] = @ \ {r}]
  /\ UNCHANGED <<lock, status, gen, pending, clashed>>

\* It was the last: free_share acquires shareslock, which is held, and that
\* is a panic; the caller exits with shareslock held.
DeleteLast(e, r, s) ==
  /\ s.references = 1
  /\ mem' = Unmapped(e, r.va, s)
  /\ shares' = Referenced(s, -1)
  /\ lock' = TRUE
  /\ status' = [status EXCEPT ![e] = "exit"]
  /\ UNCHANGED <<gen, alloc, pending, clashed>>

\* A program deletes by the ID that the kernel returned for the object.
delete_shared_object(e, r) ==
  /\ Running(e) /\ ~lock /\ pending[e] = <<>>
  /\ \E s \in Listed :
       s.id = r.id /\ (Delete(e, r, s) \/ DeleteLast(e, r, s))

----------------------------------------------------------------------------
(* The end of an environment and the next one in its slot                  *)

\* env_exit, or another environment's sched_kill_env, or the panic of a call
\* that finds shareslock held.  An sget that it was in is never resumed.
Exit(e) ==
  /\ Running(e)
  /\ status' = [status EXCEPT ![e] = "exit"]
  /\ pending' = [pending EXCEPT ![e] = <<>>]
  /\ UNCHANGED <<mem, shares, lock, gen, alloc, clashed>>

\* env_free, after the pages of the working set, which the shared ones are
\* not part of: the page tables go as they are.  The loop "Free Shared
\* variables" passes addresses of page tables for IDs, which no share has.
DropTables(e) ==
  [mem EXCEPT !.pt = [s \in DOMAIN mem.pt |->
                        IF s[1] = e THEN NoFrame ELSE mem.pt[s]]]

\* free_environment clears the whole struct, env_id included.
env_free(e) ==
  /\ status[e] = "exit"
  /\ mem' = DropTables(e)
  /\ status' = [status EXCEPT ![e] = "free"]
  /\ gen' = [gen EXCEPT ![e] = 0]
  /\ alloc' = [alloc EXCEPT ![e] = {}]
  /\ pending' = [pending EXCEPT ![e] = <<>>]
  /\ UNCHANGED <<shares, lock, clashed>>

\* env_create: the next generation after the one in the struct.
env_create(e) ==
  /\ status[e] = "free"
  /\ status' = [status EXCEPT ![e] = "running"]
  /\ gen' = [gen EXCEPT ![e] = @ + 1]
  /\ UNCHANGED <<mem, shares, lock, alloc, pending, clashed>>

----------------------------------------------------------------------------
\* sharing_init, and programs that have just been loaded.
Init ==
  /\ mem \in {InitMemory(Envs \X HeapArea, s) : s \in SetToSeqs(Frames)}
  /\ shares = <<>>
  /\ lock = FALSE
  /\ status = [e \in Envs |-> "running"]
  /\ gen = [e \in Envs |-> 1]
  /\ alloc = [e \in Envs |-> {}]
  /\ pending = [e \in Envs |-> <<>>]
  /\ clashed = FALSE

Call(e) ==
  \/ \E name \in Names, n \in Sizes, id \in FreeIds :
       \/ \E v \in HeapArea :
            \/ create_shared_object(e, name, n, v, id)
            \/ \E k \in 0..(n - 1) : CreateExhausts(e, name, n, v, id, k)
       \/ CreateUnaligned(e, name, n, id)
  \/ \E o \in Envs, name \in Names, v \in HeapArea :
       size_of_shared_object(e, envId(o), name, v)
  \/ get_shared_object(e) \/ GetGone(e) \/ GetFaults(e)
  \/ \E r \in alloc[e] : delete_shared_object(e, r)

Next == ~clashed /\ \E e \in Envs : Call(e) \/ Exit(e) \/ env_free(e) \/ env_create(e)

Spec == Init /\ [][Next]_vars

----------------------------------------------------------------------------
Share == [id : Ids, owner : Envs \X Nat, name : Names, size : Sizes,
          references : Nat, frames : Seq(Frames \cup {NoFrame})]

(* The types of the variables.                                             *)
TypeOK ==
  /\ IsMemory(mem, Envs \X HeapArea, HeapArea \cup {NoVa})
  /\ shares \in Seq(Share)
  /\ lock \in BOOLEAN
  /\ status \in [Envs -> {"running", "exit", "free"}]
  /\ gen \in [Envs -> Nat]
  /\ alloc \in [Envs -> SUBSET [va : HeapArea, id : Ids]]
  /\ pending \in [Envs -> Seq([va : HeapArea, owner : Envs \X Nat, name : Names])]
  /\ \A e \in Envs : Len(pending[e]) <= 1

\* What longer names are cut to.
IsCut(name) == \E a \in Names : Cut[a] # a /\ Cut[a] = name

(* Until a call maps an object over used pages:  Two objects of the list   *)
(* never answer to the same owner and name, or an sget after a smalloc     *)
(* would map the wrong one, unless that is what a longer name is cut to:   *)
(* find_share misses the object by its whole name and smalloc makes        *)
(* another.  While shareslock is free, every object that a program holds   *)
(* is backed by exactly the frames of its share, in order; no frame of a   *)
(* share is free or belongs to another share; and the frame's own count    *)
(* agrees with the references of the share, so that the frames go when the *)
(* last holder deletes it and not before.                                  *)
SharesIntact ==
  ~clashed =>
    /\ \A i, j \in DOMAIN shares :
         shares[i].owner = shares[j].owner /\ shares[i].name = shares[j].name =>
           i = j \/ IsCut(shares[i].name)
    /\ ~lock =>
         /\ \A s \in Listed : \A i \in {j \in 1..s.size : s.frames[j] # NoFrame} :
              /\ mem.refs[s.frames[i]] = s.references
              /\ s.frames[i] \notin ToSet(mem.free)
              /\ \A t \in Listed : \A j \in 1..t.size :
                   s.frames[i] = t.frames[j] => s = t /\ i = j
         /\ \A e \in Envs : \A r \in alloc[e] :
              \E s \in Listed :
                /\ s.id = r.id
                /\ \A i \in 1..s.size : mem.pt[<<e, r.va + i - 1>>] = s.frames[i]

(* A program maps no page outside the objects it holds: what it has        *)
(* deleted it cannot read any more.                                        *)
NoAccessAfterDelete ==
  ~clashed => \A e \in Envs, v \in HeapArea :
    mem.pt[<<e, v>>] # NoFrame /\ Running(e) =>
      \E r \in alloc[e], s \in Listed : s.id = r.id /\ v \in Extent(r.va, s.size)
============================================================================
