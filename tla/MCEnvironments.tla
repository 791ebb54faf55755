--------------------------- MODULE MCEnvironments ---------------------------
(* The memory of environments: a behaviour is one of the memory that each   *)
(* owns (EnvMemory) or one of the objects that they share (Sharing).        *)
(*                                                                          *)
(* Two slots, a page of program text and one of data in one table, a heap   *)
(* page and the stack page in another, and a page that belongs to nothing.  *)
(* Memory and page file are too small for two programs, so that creations   *)
(* fail at every point.                                                     *)
EXTENDS EnvMemory, TLC

CONSTANTS Frames, NoFrame, HeapTop, Names, Short, Long, Ids, Sizes, MaxRefs

VARIABLES part, shareMem, shares, lock, running, gen, alloc, pending,
          clashed

shareVars == <<shareMem, shares, lock, running, gen, alloc, pending,
               clashed>>

\* The name Long has more than 63 characters, and Short is the first 63.
Cut == [a \in Names |-> IF a = Long THEN Short ELSE a]

S == INSTANCE Sharing WITH mem <- shareMem, status <- running

ASSUME SharedAssumption == S!SharingAssumption

MCTable == [p \in Pages |-> IF p <= 2 THEN 1 ELSE 2]
MCPrograms == {[segments |-> <<<<1>>, <<2>>>>, wsmax |-> 2],
               [segments |-> <<<<1>>>>, wsmax |-> 3]}

\* One order of the free frames stands for all.
MCInit == /\ part \in {"owned", "shared"} /\ Init /\ S!Init
          /\ shareMem.free = SetToSeq(Frames)

MCNext == \/ part = "owned" /\ Next /\ UNCHANGED <<part, shareVars>>
          \/ part = "shared" /\ S!Next /\ UNCHANGED <<part, vars>>

MCSpec == MCInit /\ [][MCNext]_<<part, vars, shareVars>>

\* Slots and the addresses of struct Share are interchangeable.
Symmetry == Permutations(Envs) \cup Permutations(Ids)

SharesIntact == S!SharesIntact
NoAccessAfterDelete == S!NoAccessAfterDelete
=============================================================================
