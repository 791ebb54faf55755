# FOS kernel: a TLA+ verification project

FOS is a small 32-bit x86 teaching kernel: one CPU, preemptive environments
(processes), demand paging with a page file on disk, a kernel heap and a user
heap, shared memory, sleep locks and semaphores. This directory holds TLA+
models of its core, the TLC configurations that check them on small instances,
and TLAPS proofs about the sleep lock, the semaphore, the scheduler, page faults, the
kernel heap and the memory of environments.

Source paths below are relative to `src/FOS_PROJECT_2025_TEMPLATE/`.
`PROJECT.json` maps each definition to the lines it models and lists every
component, run, hazard and theorem.

    tlc -workers 2 -config MCSched.cfg MCSched     # a run: see "Runs"
    tlapm SchedProofs.tla                          # proofs: see "Proofs"

## 1. Inventory

| Component | State | Operations | Interacts with |
|---|---|---|---|
| Spinlocks, interrupts (`kern/conc/kspinlock.c`, `kern/cpu/cpu.c`) | `locked`, `ncli`, `intena`, the interrupt flag | acquire, release, pushcli, popcli | everything that locks; the clock interrupt they hold off |
| Channels (`kern/conc/channel.c`) | a queue of BLOCKED environments | sleep, wakeup_one, wakeup_all | qlock, `sched()`, the ready queues |
| Sleep lock, semaphore (`kern/conc/sleeplock.c`, `ksemaphore.c`) | `locked`, `pid`; `count` | acquire, release; wait, signal | a guard spinlock and a channel each |
| Scheduler (`kern/cpu/sched.c`, `sched_helpers.c`) | new, ready[], exit queues, `samawaiting_ticks`, the current environment | RR, PRIRR, ageing in the clock interrupt, new/run/exit/kill, set priority | environments, prompt, channels |
| Environments (`kern/proc/user_environment.c`) | `envs[]`, `env_status`, `env_id` | create, free, exit, yield, `sched()` | scheduler, memory, shares |
| Frames, page tables (`kern/mem/memory_manager.c`) | free frame list, `references`, `va`, page tables | allocate, free, map, unmap | all memory components |
| Block allocator (`lib/dynamic_allocator.c`) | pages split into blocks, lists per size | alloc_block, free_block, realloc_block | kmalloc, malloc; get_page, return_page |
| Kernel heap (`kern/mem/kheap.c`) | break, `allocatedSize[]`, `Lock` | kmalloc, kfree, krealloc, address translation | frames, block allocator |
| User heap (`lib/uheap.c`, `kern/mem/chunk_operations.c`) | break, list of allocations, list of free blocks, marks in the page table | malloc, free, smalloc, sget, sfree | system calls, shared memory |
| Shared memory (`kern/mem/shared_memory_manager.c`) | `shares_list`, references, `framesStorage`, `shareslock` | create, size, get, delete | frames, user heap, exit of environments |
| Page faults (`kern/trap/fault_handler.c`, `kern/mem/working_set_manager.c`) | working set list and hand, page table bits, time stamps, the counter of repeated faults | placement; replacement by CLOCK, LRU, MODIFIED CLOCK; OPTIMAL | page file, heap marks, clock |
| Page file (`kern/disk/pagefile_manager.c`) | disk frames, disk page tables | add, update, read, remove a page | page faults, free_user_mem |
| Console and keyboard (`kern/cons/console.c`, `sys_cgetc` of `kern/trap/syscall.c`) | ring buffer, `KBDsem`, `KBDchannel`, the console lock | cons_intr, the keyboard interrupt, sys_cgetc, cons_lock | channels, semaphores, interrupts |
| Prompt (`kern/cmd/`, `lib/readline.c`) | line buffer with two positions, history, list of completions, the screen | type, erase, delete, move, recall, complete, enter | console; the commands that load, run and kill programs |
| User programs (`user/`) | test counter, test channel and lock, kernel semaphores, shared objects, arrays on the heap | the tests that run together, the sorting programs, the tests of the heap | all of the kernel's calls |
| Traps (`kern/trap/`), boot, library | no state of their own worth a model | dispatch | everything |

Concurrency is that of one CPU. All gates are interrupt gates
(`kern/trap/trap.c:320`), so a handler begins with interrupts off; a spinlock
keeps them off; in between, system calls run with interrupts on and the clock
may switch to another environment. The hard behaviours are therefore: a system
call that takes a lock more than once and is preempted in between; handing a
spinlock over inside `sleep()`; the scheduler's own thread, which inherits
qlock from whoever called `sched()`; panics, which end the current environment
and leave its locks held (`kern/init.c`); counters and cached values
(`samawaiting_ticks`, `FrameInfo.va`, reference counts, time stamps, the clock
hand) that must agree with lists changed elsewhere; and exhaustion of frames,
heap pages, blocks and page file.

What makes each part correct is the list of properties in section 4. The
hazards, each at its line, are in `PROJECT.json`.

## 2. Modules

| Module | Models | State and actions |
|---|---|---|
| `Channel` | spinlocks, `sched()`, yield, scheduler loop, channel | `pc`/`intr` per environment, `spc` for the scheduler's thread, `spin`, `ncli`, `intena`, `ien`, `ready`, `chan`. One step per spinlock operation |
| `SleepLock` | `sleeplock.c` on `Channel` | adds `locked`, `pid`; acquire, release, release by a stranger |
| `KSemaphore` | `ksemaphore.c` on `Channel` | adds `count`; wait, signal |
| `Exclusion` | abstract specification: at most K inside | Request, Enter, Leave; two fair forms, with and without starvation |
| `Sched` | life cycle, RR, PRIRR with ageing, prompt | the queues, status, priority, waiting ticks; `op[e]` is the rest of a system call that was preempted between two locked sections; `fault` collects failed checks and stray writes |
| `Frames` | frames, reference counts, page table entries | operators from a memory to the memory after the call, used by `KHeap` and `Sharing` |
| `KHeap` | kernel heap pages on `Frames` | `brk`, `allocatedSize`, `lock`; kmalloc, kfree, get_page, return_page, user pages that compete for frames |
| `DynAlloc` | block allocator | pages, lists, counts; alloc_block with its wait, free_block, realloc_block |
| `Sharing` | shared objects on `Frames` | list of shares, slots and generations of environments; create, size, get, delete, exit, reuse of a slot |
| `UHeap` | user heap pages | break, allocations, free blocks, marks; malloc, free, smalloc, sget, sfree |
| `PageFault` | demand paging of one environment | working set, hand, page table bits, RAM and page file contents; access, fault, clock tick, allocate and free heap pages |
| `Optimal` | recording and counting for OPTIMAL | streams of references; the count against an exhaustive search |
| `EnvMemory` | env_create, faults, env_exit, env_free and the page file, over the lives of slots | one record `mem` of all that is allocated: free frames, kernel heap pages, working sets, page tables, dirty bits, disk page tables, disk frames and what they hold; an owner is a slot in one of its lives |
| `Console` | ring of keys, keyboard interrupt, sys_cgetc, console lock | the ring, the keys still in the keyboard, semaphore, channel, who runs with interrupts off, `pc` per program; keys are numbered so that order and loss show |
| `Readline` | the editors of the prompt and of user programs, strsplit | buffer, `i`, `lastIndex`, screen row, history, completions; one action per key |
| `Programs` | the programs of `user/` that work together | a script of steps per C file, an interpreter for the steps, the test utilities of the kernel, time |
| `Sorting` | the programs that fill and sort an array | array, calls still to be made, arrays on the heap; one step per call of QSort, KthElement, MSort or Merge |
| `UHeapTests` | tests of the user heap, on `UHeap` | a script of calls with the address, break or refusal that the test expects |
| `Queues` | what is left of a queue when environments are removed; a loop over a sequence | |
| `QueueLemmas`, `ChannelProofs`, `SleepLockProofs`, `KSemaphoreProofs`, `SchedProofs`, `PageFaultProofs`, `KHeapProofs`, `EnvMemoryProofs` | theorems about queues and about the module in the name; `SchedProofs` also about `Console` and the history of `Readline`, `KHeapProofs` also about `UHeap` and `DynAlloc`, `EnvMemoryProofs` also about `Sharing` | |
| `MCUserHeap` | `UHeap` and `DynAlloc` for TLC | |
| `MCEnvironments` | `EnvMemory` and `Sharing` for TLC | |
| `MCPaging` | `PageFault` and `Optimal` for TLC | |
| `MCPrograms` | `Programs`, `Sorting` and `UHeapTests` for TLC | |
| `MCConsole` | `Console` and `Readline` for TLC | |
| `MCSched`, `MCKHeap`, `MCUHeap` | one module each for TLC | |

`SleepLock` and `KSemaphore` compose with `Channel` by EXTENDS, `KHeap` and
`Sharing` with `Frames` and `Queues`, `UHeap` and `DynAlloc` with `Queues`, `UHeapTests` with `UHeap`. `SleepLock` and `KSemaphore`
are shown to implement `Exclusion`. An MC module that holds two or three modules
takes them as alternatives: the variable `part` says, from the initial state on,
which of them runs, and the others stand still in one initial state.

Atomicity. `Channel` and its users take one step per spinlock operation and let
the clock in wherever interrupts are on. `Sched` takes one step per locked
section, which is the same on one CPU, and splits a call where it leaves the
lock. The memory modules take one step per call where the code holds one
spinlock from the first line to the last (kmalloc, kfree, the calls on shared
objects), where interrupts are off (page faults) or where the state belongs to
one program (user heap); `sget` is two steps because it is two system calls,
and `alloc_block` stops where it waits.

Definitions that end in `_slip` are wrong forms of the definition below them,
one for each property: a property that a slip does not break says nothing.

### Abstractions and restrictions

- *Sched.* Environments' memory is not part of it. `Workload` says, for each
  scheduler, which system calls programs make in a run. A program may set the priority
  of any environment that is not free: the test of its status and what follows are two
  steps, with the locked section in one (`SetPriorityLocked`) and the bare store in the
  other (`SetPriorityStore`). An environment that destroys itself goes on, with
  interrupts on and its stack and directory given back, until `sched()` or a trap
  (`KillSelf`, `LeaveFreed`; the machine may stop there, `ctl = "dead"`).
- *DynAlloc.* Sizes are units and three size classes stand for nine; what
  matters is that sizes grow and divide the page, and that the search for a
  larger block leaves out the last list.
- *KHeap.* Sizes are whole pages. Callers free what they hold, once, or an
  address that is not allocated; interior addresses are left out.
- *UHeap.* Programs free any object that they hold, the topmost one too. After that the
  lists may be inconsistent, which run `uheap_overlap` shows; the history variable `lowered`
  records that a free block lies above the break, and `CallsAfter` of `MCUserHeap` bounds
  the calls explored after that. malloc of an object that ends exactly at USER_HEAP_MAX is
  taken for illegal by the kernel and ends the program (`kern/trap/syscall.c:306-307`);
  smalloc tests the break before it looks for a free block. Both are kept. sfree clears
  the marks of its own pages only: `delete_shared_object` does ask for the deletion of page
  tables without a PRESENT entry, which may hold the marks of malloc'ed pages that are not
  resident, but `del_page_table` drops no table of a program (section 6).
- *Sharing.* Where an object is placed is left open: any pages below the heap's end,
  which smalloc and sget test. The kernel does not test that they are unused, and map_frame
  takes the page that it finds there away (`kern/mem/memory_manager.c:417`). Such a call is
  an action like the others; it sets `clashed`, and behaviours end with it, because from
  then on one of two objects has lost its page. smalloc can do so: run `uheap_overlap`
  finds it, and theorem `UserObjectsApart` shows that it cannot before `free` has left a
  listed block above the break. Private pages at the place, which map_frame unmaps as well, are not
  part of the module. Names are stored cut to 63 characters and looked for whole
  (`Cut`, from names to names). Programs delete by the ID that the kernel returned; see section
  6 for sfree. A get of an object that was listed without frames faults in the kernel
  (`GetFaults`). An environment's allocations are a set; a share has at most `MaxRefs`
  references. sget's two calls are not interrupted by other calls of the same program.
- *PageFault.* One environment; a fault and the access that it interrupted are
  one step. Page tables are present. Faults of the kernel itself are left out,
  and a stack underflow counts as an access to a forbidden page.
- *Optimal.* The frames of pages stay where they are and are left out.
- *EnvMemory.* The segments of a program do not overlap. A kernel heap page is one frame; blocks of a few bytes are left to
  `DynAlloc`. The replaced page is any page of the working set, which covers every
  algorithm. A disk frame holds the name of the page last written to it. A creation
  that panics leaves its half-made environment behind, as in the code; `lost` counts
  the frames that become unreachable when env_free drops the table of a page that is
  mapped outside the working set (see section 6).
- *Console.* The ring has 3 places instead of 512. `overran` marks behaviours in which
  a whole ring was typed ahead: the code does not look whether there is room.
- *Readline.* `clean` marks lines on which no key was used that is known to break the
  line (see section 6). `last_c` and `prefix_list_size` are not initialised, so they
  are chosen freely; what lies beyond the buffer is not modelled.
- *Programs.* The kernel's calls are atomic, which the modules above justify. Time
  passes only when no program can do anything else: computing takes no time next to an
  env_sleep of seconds. The first-time flags of the test channel and lock are tested,
  cleared and followed by the set-up in three steps, by as many programs as find them set.
  The history variable `wiped` records that a set-up has emptied a queue with somebody in it
  or freed a held lock; the properties are about behaviours without that, and a race that
  wipes nothing is none of the exceptions (section 6). Frames that tests count are those of
  shared objects and their tables; an environment that exits keeps its frames until it is
  killed, which no modelled program does.
- *Sorting.* Every program has its own copy of the functions; the model has them once,
  with the differences in a record. A pivot that the clock chooses is any pivot.
- *UHeapTests.* A megabyte has 8 pages and half of one 4, which keeps the order of all
  sizes that occur; the frames that the tests count are left to `EnvMemory`. Contents
  written to the first and last byte of an object are its page's, see `PageFault`.

## 3. Fairness

- *SleepLock, KSemaphore.* Weak fairness of the scheduler's thread and of the
  return from an interrupt. Strong fairness of each environment's kernel steps
  and of the clock: `kclock_set_quantum` restarts the quantum at every switch and
  `kclock_stop` holds it inside the scheduler, so an environment that is switched
  to executes something, and one that does not leave the CPU is interrupted. A
  preemption disables the step, hence strong. User programs are not fair, except
  that a critical section ends.
- *Sched.* Weak fairness of the scheduler and of the clock. Nothing is assumed
  of programs and commands, not even that a system call in progress ends.
- *Console.* Weak fairness of the keyboard's interrupt, of each program inside
  sys_cgetc and of giving the console back: interrupts come when they are on, and the
  scheduler serves everybody (`ReadyRuns`). Nobody has to press a key.
- *Programs.* Weak fairness of each program, which `ReadyRuns` justifies, and of the
  passing of time.
- The other modules state safety only.

## 4. Runs

| Run | Instance | Shows |
|---|---|---|
| `sleeplock` | 3 environments | `MutualExclusion`, `NoLostWakeup`, `NoPanic`, `QueuesMatchStatus`, `InterruptsOffUnderSpinlock`; every sleeper is woken (`BlockedIsWoken`), and `ImplementsExclusion` with K = 1, which includes that somebody acquires |
| `semaphore` | 4 environments, 2 permits | `CountMatchesChannel`, and `ImplementsExclusion` with K = 2 in its starvation free form, which bounds the number inside |
| `sched` | PRIRR, 3 environments, 2 levels, threshold 1; create, run, exit, set priority of anybody | `QueuesMatchStatus`, `NoOrphan`, `OnlyLateStoresMisplace` |
| `sched_ageing` | 3 environments, 3 levels, threshold 1; RR with create, kill, block; PRIRR with create and priorities of stale ids | `NoStray`, `RunsTheBest`, and with fairness `ReadyRuns` |
| `kheap` | 6 frames, 8 heap pages, requests of 1 to 3, one user page | `HeapMatchesCallers`, `FramesConserved` (with the two address translations inverse to each other), `CustomFit` |
| `userheap` | 7 pages, objects of 1 to 3, up to 5 of them, 2 more calls after `lowered`; blocks: 2 pages, 3 classes of 4, 3 and 2 blocks | `PagesConserved`, `FitsCustom`; `BlocksAccountedFor` |
| `environments` | 2 slots used twice, 2 programs, 4 pages in 2 tables, 17 frames, 5 disk frames; shares: 2 environments, 3 frames, 2 heap pages, objects of 1 and 2 pages, 3 names of which one is cut to another | `FramesAccountedFor`, `ReadsItsOwn`, `NothingLeftBehind`; `SharesIntact`, `NoAccessAfterDelete` |
| `paging` | 1 program page, 1 stack page, 2 heap pages, 1 stray, 1 forbidden; working set 3 (2 for LRU), page file 3, time stamps of 2 bits (`Msb` is the weight of the upper one); three algorithms. OPTIMAL: 6 pages, working set 3, streams up to 7 | `NothingLost`, `WorkingSetIsResident`, `SecondChance`; `CountsTheFewest` |
| `programs` | 13 scenarios with up to 3 slaves; 12 sorting programs, arrays of up to 16 (32 in one); 6 tests of the heap on 240 pages | `NoTestFails`, `OrderedByT`, and with fairness `AllEnd`; `ResultsAreRight`; `HeapTestsPass` |
| `console` | ring of 3, 6 keys, 2 programs that lock the console or one that reads alone, three methods of waiting; lines: buffer of 6, 7 keys, history of 2 | `KeysInOrder`, and with fairness `ReaderServed`; `RunsWhatIsShown`, `RecallsTheLatest` |
| `sched_assert` | PRIRR, 3 environments | violation of `RemovedIsReady` |
| `uheap_overlap` | 6 pages, objects of 1 and 2, up to 4 of them | violation of `NoOverlap` |

`TypeOK` is proved for the modules of section 5. In the other modules it says no more
than the types, or what it says beyond them is part of another property: the width
of time stamps and the place of the hand are in `WorkingSetIsResident`.

The bounds. Three environments are the least with which one holds, one waits
and one interferes; four with two permits have two inside and two waiting, so
that order matters. Two levels let an environment be promoted, demoted by a call, whose store may
come too late, and promoted again; three levels let a promotion
land below a busy level, and a threshold of one is the least with which three
environments keep ageing off level 0 when nobody blocks or stores late. In the heaps seven or eight pages and sizes 1 to 3
give two holes of different sizes below the break, which exact, worst and break
placement need; six frames are fewer than the pages, so frames run out. Two
pages of a class each and a class that spills over exercise case 1, 2 and 3 of
alloc_block and its wait. Three frames with objects of one and two pages let
creation fail half way. In `paging` there is one legal page more than the
working set holds, and one more than the page file; two-bit time stamps
overflow, saturate and tie within a few ticks. Seven references to six pages
with a working set of three make farthest-in-future differ from every simpler
choice. In `environments` memory is enough for one program and a part of the
other, and so is the page file, so that a creation fails at every point; each
slot is used twice, so that an environment finds what its predecessor left. One
order of the free frames stands for all of them in the part about shares, where
frames are told apart only by who has them. A ring of three wraps twice with six
keys; seven keys type, complete, enter and recall a line, and a history of two
entries fills up and moves. Three slaves are the least with which one is inside,
one has been woken and one waits; two in the shop of two leave one outside.
Arrays of up to 9 with three different values reach every branch of the
partition for every choice of pivots. `MaxRefs`, `Objects`, `CallsAfter`, `MaxLives`, `MaxKeys`,
`MaxPresses` and `MaxRounds` only keep the state finite; `Large` stands for 2000
and 800000 elements. Symmetry is used only in runs without liveness.

What the liveness properties mean: a sleep lock can be overtaken, so only
*somebody* is promised progress; a semaphore hands its permit to the one that
waited longest, so everybody is. Every READY environment leaves its queue under
both schedulers, although nothing is assumed of the others. A program that waits
for a key gets one, unless a whole ring has been typed ahead, and except under the
method LCK_SLEEP, where the keyboard's handler can fall between the test and the
sleep. Every one of the programs that work together ends, unless a late set-up of the
test channel or lock has forgotten it.

The two violations, each with a finding in `PROJECT.json`:

- `sched_assert`: `env_set_priority` tests the status before it takes qlock;
  preempted in between, its target runs and exits, and the assertion of
  `sched_remove_ready` (`kern/cpu/sched_helpers.c:172`) fails.
- `uheap_overlap`: `free` of the topmost object lowers the break and also lists
  the freed pages as a free block; two later objects get the same page.

## 5. Proofs

The theorems hold for every value of the constants that the modules' assumptions
allow (`NoEnvAssumption`, `EnvsAssumption`, `InitValueAssumption`,
`SchedAssumption`, `PageFaultAssumption`, `KHeapAssumption`, `EnvMemoryAssumption`,
`SharingAssumption`, `UHeapAssumption`, `DynAllocAssumption`, `ConsoleAssumption`,
`ReadlineAssumption`); the runs show the same formulas on small instances, and each inductive invariant was checked by TLC before it was
proved. Each module of proofs ends with the theorems; before them come the
inductive invariant, a lemma per operation or action, and one that puts the
actions together.

### Sleep lock and semaphore

| Module | Theorem | Statement |
|---|---|---|
| `SleepLockProofs` | `TypeCorrect` | `Spec => []TypeOK` |
| | `PanicFree` | `Spec => []NoPanic` |
| | `Exclusive` | `Spec => []MutualExclusion` |
| | `WakeupNotLost` | `Spec => []NoLostWakeup` |
| | `QueuesMatch` | `Spec => []QueuesMatchStatus` |
| | `InterruptsOff` | `Spec => []InterruptsOffUnderSpinlock` |
| | `Refinement` | `Spec => Excl!Spec`, the safety part of `ImplementsExclusion` |
| `KSemaphoreProofs` | `TypeCorrect`, `PanicFree` | `Spec => []TypeOK`, `Spec => []~panic` |
| | `CountMatches` | `Spec => []CountMatchesChannel` |
| | `PermitsBounded` | `Spec => [](Cardinality(Inside) <= InitValue)` |
| | `Refinement` | `Spec => Excl!Spec`, the safety part of `ImplementsExclusion` |

Both rest on `ChannelProofs`, which proves what the two primitives have in common:
`ChanInv`, kept by every operation of the spinlocks, of the channel and of the
scheduler's loop, whatever primitive calls them. None of the properties is
inductive alone: that release does not panic needs the lock to be held, which
follows from where the thread on the CPU stands, and it stands there because no
other thread can. The parts of `ChanInv`:

- `CpuInv`: which spinlocks are held, `ncli` and the interrupt flag are determined
  by where the one thread on the CPU stands. It is the heart of the argument: it
  turns the counters into control state.
- `EnvInv`: an environment off the CPU stands where it holds no spinlock: preempted
  in user code, inside the `sched()` of `sleep()`, or gone.
- `SchedInv`: what the scheduler's thread knows of the environment it came from.
- `QueueInv`, `PlaceInv`: nobody is queued twice, and everybody is where its
  status says.

The sleep lock adds `LockInv` (`locked` and `pid` name the one owner, wherever it
stands) and `WaitInv` (whoever is on its way into the channel has seen the lock
taken while holding lk or qlock, and it still is). The semaphore adds `CountInv` (a
negative count is the length of the channel's queue, one off while the caller is
between the two) and `PermitInv`: the count, those inside, those in the channel and
the one that is about to sleep add up to the initial value. The semaphore decrements
before it knows whether it must wait, so the bound on permits is not inductive
without that sum.

### Scheduler

| Theorem | Statement |
|---|---|
| `TypeCorrect` | `Separate => (Spec => []TypeOK)` |
| `QueuesMatch` | `Separate => (Spec => []QueuesMatchStatus)` |
| `NobodyLost` | nobody kills `=> (Spec => []NoOrphan)` |
| `BestRuns` | `Separate => (Spec => RunsTheBest)` |
| `LateStoresMisplace` | `Separate => (Spec => OnlyLateStoresMisplace)` |

The hypotheses are about `Workload`, the system calls that the programs of a run
make, and each of them is there because the code fails without it:

- `Separate`, no scheduler's programs both destroy environments and set
  priorities. `sched_kill_env` unlinks its victim under qlock and frees it after the
  lock is released; the victim's status is still READY in between, and
  `env_set_priority` enqueues it again. With three environments TLC finds one that is
  free and in a ready queue.
- Nobody kills: a caller destroyed inside `sys_create_env` leaves an environment in
  no queue.

What `env_set_priority` does outside the lock is in all of them. It may put a READY
environment at another level than its priority's (`Misplaced`), so neither `QueuesMatchStatus`
nor the choice of the scheduler can speak of the priority of everybody:
`QueuesMatchStatus` says that there is one queue and that the status names it, `RunsTheBest`
compares those that wait where their priority says, and `OnlyLateStoresMisplace` says
that there is no other way to get misplaced. `NoOrphan` holds up to a promotion above
level 0, after which an environment is in no queue of the array; nothing in the code
rules that out (section 6), so `NoStray` is only checked, for a workload in which it holds.

The invariant `IInv`: queues without repetition (`DistinctInv`), in which everybody
is where the status says, at one level (`MatchInv`); who may be on the CPU, also after it
has freed itself (`CurInv`); what a system call that was preempted between two locked
sections still knows of the environment it named (`PendingInv`, the part that `Separate`
is for: nobody else can enqueue, run or free the one that is about to be enqueued or
freed); round robin's one priority; and, as long as nobody kills and nobody is promoted above level 0,
where everybody who is not free can be found (`PlaceInv`). A clock interrupt moves a
starved environment to the level above its *priority*, which for a misplaced one may be a
level that is visited later in the same interrupt, where it is met again (`MetAgain`);
that nobody is duplicated or lost in a pass over all levels is `AgedQueue`.

### Page faults

| Theorem | Statement |
|---|---|
| `Retrieval` | `Spec => []NothingLost` |
| `WorkingSet` | `Spec => []WorkingSetIsResident` |
| `Chances` | `Spec => SecondChance` |

For each of the three algorithms, every set of pages, size of the working set and
of the page file, and width of the time stamps. `IInv` has the types, `ListInv` (the
list of the working set has the pages that are present, each once) and `CopiesInv`:
for each page, the copy in memory if it is present, and the one in the page file
otherwise, is what the program wrote last, and *a copy in memory whose modified bit
is clear is in the file as it is in memory*. The last part is what makes it inductive:
replacement drops such a page without writing it. `Running` restricts the invariant to
programs that have not been ended, whose memory is no longer looked at.

`Passed`, how far the hand gets over pages that are used (or modified), is the first
position in a round from the hand at which it stops, or a whole round. That there is
one, and that it names a member of the working set for each of the algorithms
(`PassedStops`, `VictimType`), is what replacement and `SecondChance` rest on.

### Kernel heap

| Theorem | Statement |
|---|---|
| `TypeCorrect` | `Spec => []TypeOK` |
| `HeapMatches` | `Spec => []HeapMatchesCallers` |
| `FramesKept` | `Spec => []FramesConserved` |
| `FollowsCustomFit` | `Spec => CustomFit` |

For every number of frames, size and border of the heap, set of requested sizes and
set of user pages that compete for the frames (`KHeapProofs`). `IInv` has two parts:

- `MemInv`, of the frames and page tables alone: a frame is in the free list, once,
  with no reference and no address, or it has one reference and the page at its
  address is the one that is mapped to it. `AllocOne` and `UnmapOne` show that
  `alloc_page` and `unmap_frame` keep it; nothing else touches a frame.
- `HeapInv`, while Lock is free: the allocations lie below the break and do not
  overlap, their pages are mapped and have the size in `allocatedSize`, the other
  pages of the heap are not mapped and have none, and the page below the break is
  mapped. An allocation keeps it only if the search gives pages that nobody has, and
  kfree only if the break is not lowered too far.

`FramesConserved` counts entries and places, and neither that nor
`HeapMatchesCallers` is inductive as it stands: that a frame with one reference is the
one at its own address is what makes the count of page table entries one, and
allocations below the break are what makes the pages above it free. The search of
kmalloc is followed page by page: at page v it knows the run of free pages that is open
(`Open`), and its two candidates are the right ones among the holes that end below v
(`ExactOf`, `WorstOf`); closing a run counts it among the holes (`CloseFits`). At the
break these are all the `Holes`, which gives both `FollowsCustomFit` and that the pages
are free (`PlaceFree`).

### User heap

| Theorem | Statement |
|---|---|
| `UserPagesConserved` | `U!Spec => []PagesConserved` |
| `UserObjectsApart` | `U!Spec => [](running /\ ~lowered => NoOverlap)` |
| `UserFollowsCustomFit` | `U!Spec => FitsCustom` |

`U` is `UHeap` with any top, sizes and number of objects; the theorems are in
`KHeapProofs`. Programs make any calls. `free` of the highest object lowers the break to
the end of the next one and may leave a free block above the new break in the list, to be
handed out a second time by the break: run `uheap_overlap` shows a program that then gets
two objects on one page. `lowered` says that this has happened. The theorems say that
it is the only way in which objects can come to share a page, a page can get lost, or an
object can miss its best place; and, whether it has happened or not, that the kernel's
table never marks or maps a page that no object has.

`UserInv` has two parts. `MarksInv`, always: no page is marked that no object has.
`TiledInv`, until `lowered`: the objects and the free blocks tile
the pages below the break, the free blocks are sorted and do not touch each other, the
highest object ends at the break (`Tiled`), and the kernel's table says of each page
whether it is in a shared object, another one or none (`Marked`). That no two free
blocks touch is what `PagesConserved` lacks: it is why a block of the list is the whole
gap between two objects, and so why a search of the list alone finds what custom fit
asks of the gaps (`GapsAreHoles`). It is kept because MERGEE joins a freed block with both
its neighbours; `Merged` says that it does so in one pass over the list, whatever the list,
by the lemma about loops (`Chain`): after each block the result is sorted, apart,
and covers what has been passed. That the highest object ends at the break is why a free
below it leaves the break alone (`BreakStays`).

### Block allocator

| Theorem | Statement |
|---|---|
| `BlocksConserved` | `D!Spec => []BlocksAccountedFor` |

`D` is `DynAlloc` with any finite set of pages and any classes whose sizes grow and divide
the page (`DynAllocAssumption`); the theorem is at the end of `KHeapProofs`. `BlockInv` says
of the lists that each has blocks of its class only, once, that nobody holds
(`ListsApart`), and of each split page that its free and its held blocks are together
all that it was cut into, with the former counted (`Counted`). It has two parts that the
property lacks. A page is split as long as *some block of it is held* (`InUse`): the
count of the last free block but one is therefore less than the page has, and free_block
returns the page exactly when the block that comes back is the last one held
(`ItsPage`), so no held block loses its frame. And the old block of a reallocation
that waits is still held (`CallKnows`), whatever others free meanwhile. That held blocks
do not overlap follows from their being multiples of the size of their class
(`Divided`, `InSteps`, `Numbered`).

### Memory of environments

| Theorem | Statement |
|---|---|
| `TypeCorrect` | `Spec => []TypeOK` |
| `FramesKept` | `Spec => []FramesAccountedFor` |
| `OwnPages` | `Spec => []ReadsItsOwn` |
| `NothingLeft` | `Spec => []NothingLeftBehind` |

For any finite set of environments, number of pages, frames and disk frames, and any
programs whose segments overlap neither each other nor the page of the stack
(`Loadable`: `user/user.ld:24` starts the data on a page of its own; the loader maps
each page of each segment, and would lose the frame of a page that it maps twice).
`IInv` has, besides the types,

- `Sound`, of the memory alone: every frame is free, in the kernel heap, mapped or lost
  (`Counted`); every disk frame is in the free list, once, or belongs to one page of
  one life of a slot (`Linked`); and it was written for that page (`Written`).
- `CleanInv`: the lives of a slot that are still to come own nothing, nor does one that
  is free. A creation starts from nothing because of it.

The three properties that are checked follow from parts of it, but only together are
they inductive: that a disk frame was written for its page is kept because no other
page has it, and that no other page has it because the free list never holds one that
is in use. A call is a chain of steps from a memory to a memory, each of which may have
panicked. For every step one lemma says that it keeps `Sound` and that it leaves the
other owners as they were (`Others`), whatever the memory it starts from; `Chain` puts
the loops over segments, pages and the working set together from these. `env_free`
needs more: the loop over the working set, the tables with their directory and
`pf_free_env` each remove their part, and what they leave is `Clean`.

### Shared objects

| Theorem | Statement |
|---|---|
| `SharedInvariance` | `S!Spec => [](~clashed => SharedInv)` |
| `SharesIntactTheorem` | `S!Spec => []SharesIntact` |
| `NoAccessAfterDeleteTheorem` | `S!Spec => []NoAccessAfterDelete` |

`S` is the instance of `Sharing` that the run checks, so the theorems are at the end of
`EnvMemoryProofs`. They hold for any slots, finite set of frames, heap, names, object
sizes and addresses of `struct Share`. `SharedInv` has, besides the types,

- always: `KeysInv` (owner and name, and also the ID, are those of one object of the
  list, unless the name is what a longer one is cut to; an object has a frame per page)
  and `PagesInv` (a program maps no page outside its objects, a free slot none);
- while `shareslock` is free: `FramesInv` (a frame of an object is counted as often as
  the object, is not free and is no other object's) and `HeldInv` (for every object in a
  heap there is one in the list, and the pages are mapped to its frames in order).

All of it is about behaviours that have not `clashed`: a call that maps an object over
used pages ends them. The objects are otherwise at any place; that they lie apart
in a heap is not assumed but follows (`BackedApart`): a page has one frame and a
frame is one object's.

The two parts under `~lock` cannot be stronger: a create that runs out of frames, or
the delete of a last reference, leaves the lock taken for ever and the list half
changed; nobody maps or deletes an object after that. Neither of the two properties
is inductive. That a delete takes away one reference of the right object needs
`HeldInv`; that this leaves the frames of every other object counted right, the
uniqueness in `FramesInv`; that the pages it unmaps are not those of another object,
`BackedApart`. An object that is in the list without frames (from a create at an
unaligned address) is harmless because nobody holds it: the get of one faults. A create
that does not fit what is free is followed page by page, because map_frame may give back a frame
that the next page takes (`Suffice`, `SufficientFrames`). The proof has a lemma per loop over the pages of an object (`MapNewLoop`,
`MapShareLoop`, `UnmappedLoop`), each of which says with `Walked` which entries, counts
and free frames differ after the loop, and one per call that it keeps the invariant.

### Console

| Theorem | Statement |
|---|---|
| `ReadersGetKeysInOrder` | `OneReader => (C!Spec => []KeysInOrder)` |
| `HistoryRecallsTheLatest` | `L!Spec => []RecallsTheLatest` |

`C` is `Console` with a ring of any size, any programs, any number of keys and any of
the three methods of waiting; `L` is `Readline` with a history of any length. Both
theorems are at the end of `SchedProofs`. `OneReader` says that the programs that read
all lock the console, or that one reads alone: two that read without the lock
would advance `rpos` between each other's steps (see section 6); both scenes of the
run are such.

`ConsInv` holds until a whole ring has been typed ahead. `StoredInv`: the ring has
key `k + 1` at place `k % CONSBUFSIZE`, for the keys that are stored and nobody has got.
`NextInv`: `rpos` is the place of the next key, or one further, and perhaps outside the
ring, while a reader is between `rpos++` and the test that wraps it; that
reader has the right key, and one between the test for an empty ring and the
fetch still has one to fetch. `TurnInv`: with `OneReader` no two programs are in these steps
at once (`ReadsAlone`), and a program that sleeps on the channel is in it once, so that
a wakeup never sends another one back to the test. `InterruptStores` says that
cons_intr, which writes any number of keys and wraps as it goes, keeps `StoredInv`;
it rests on lemmas about remainders (`RemainderPlus`, `RemaindersApart`). These are proved
there because the solvers know nothing of `%` by a number that is not a constant.

For the history, `HistoryInv` says in addition that the plain editor of user programs
never touches it. That the words which run are those on the screen
(`RunsWhatIsShown`) depends on `strsplit`, a fold over the line, and would need
induction over data.

### Lemmas, and what is only model-checked

`QueueLemmas` has the lemmas about queues that all of these proofs use: what `Filter`
(module `Queues`) keeps, in which order and at which place, who occurs in a queue
after appending, removing, reversing and concatenating, and that a queue without
repetition is no longer than there are elements. `Filter` is defined by the ranks of
the places it keeps and not by recursion, so that these lemmas can be proved.

The loops of kmalloc, kfree and the loader, and kmalloc's search, are recursive
functions on numbers. `Induct` says that a set of natural numbers with 0 and the successor
of each of its elements is all of them; it follows from the well-foundedness of `<`.
With it, for the kernel heap, `MapSteps`, `UnmapSteps` and `ScanSteps` of `KHeapProofs` show that such a function
exists, and `MappedPages`, `UnmappedPages` and `Searched` what its last value is.
`Chain` says both of any loop whose steps lead through a sequence of sets; `Each` of
`Queues`, the loop over a sequence, is used through it.

Only model-checked: everything about liveness and fairness (`BlockedIsWoken`,
`ReadyRuns`, `ReaderServed`, `AllEnd`, the fair parts of `ImplementsExclusion`), which
the prover does not handle; `RemovedIsReady`, and `NoOverlap` for any program, which do not hold; and
`RunsWhatIsShown` and the properties of user programs and OPTIMAL. What the folds of
the line editors and the recursive operators of OPTIMAL and of the sorting programs
compute for every input would need induction over data, which is out of the
prover's reach.

## 6. Disagreements between code and comments that the models contain

The models follow the code. Besides the two violations above, the following
behaviours of the code disagree with a comment or a message of the source. They
are part of the models, or named as a restriction of them; `PROJECT.json` lists
most of them as hazards.

Scheduler:
- `kern/cpu/sched.c:379`: ageing has no lower bound. `samawaiting_ticks` are reset
  only for the environment that the scheduler puts back, so with programs that
  block they add up over several waits, and with more environments at level 0 than
  the threshold one wait is long enough: an environment of priority 0 is then
  enqueued into `env_ready_queues[-1]`. The model records it in `fault`.
- `kern/cpu/sched_helpers.c:700`: `env_set_priority` of a stale id releases qlock,
  which it does not hold; that panics and ends the caller.
- `kern/cpu/sched_helpers.c:713`: the priority of an environment that is not READY
  is stored outside the lock, after a test that may be stale; one that has become READY in
  between stands in the queue of its old priority until it runs or ages, and ageing takes
  it to the level above its new priority: possibly down, to be met again in the same
  interrupt (with three levels or more), or out of the array.
- `kern/cpu/sched_helpers.c:462`: an environment that destroys itself runs on, with
  interrupts on, after `env_free` has given back its directory, its kernel stack and its
  slot; a clock interrupt there makes a freed environment READY.
- `kern/cpu/sched_helpers.c:391`: `sched_kill_env` does not find an environment
  that sleeps on a channel ("whatever its state", `kern/trap/syscall.c:408`).
- `kern/cpu/sched_helpers.c:421-449`: the victim of `sched_kill_env` is READY and in no
  queue between the release of qlock and `env_free`; a program that sets its priority in
  that window enqueues it again (section 5, `Separate`).
- `kern/trap/syscall.c:463`: a caller destroyed in the middle of `sys_create_env`
  leaves an environment that is in no queue.

Memory:
- `lib/dynamic_allocator.c:187`: the search for a larger block stops before the
  list of 2048 byte blocks.
- `lib/dynamic_allocator.c:204`: alloc_block waits for a block while kmalloc holds
  `Lock`, with interrupts off, so nobody can free one; and `:254`, returning a
  whole page does not end the wait.
- `kern/mem/kheap.c:136`: kmalloc returns NULL when the break cannot grow, before
  it looks for a hole ("4.if not available, return NULL" comes last in the comment).
- `kern/mem/kheap.c:361`: kfree of an address between the two allocators' areas
  returns with `Lock` held.
- `kern/mem/memory_manager.c:162`: running out of frames panics with the caller's
  lock held; kmalloc's "If failed to allocate: return NULL" is unreachable.
- `kern/mem/shared_memory_manager.c:294`: deleting the last reference acquires
  `shareslock` twice.
- `kern/mem/shared_memory_manager.c:187`: a failed create leaves an object without
  frames in the list.
- `kern/proc/user_environment.c:556`: an environment that exits keeps its
  references to shared objects; `:821`, the next one in its slot gets its env_id.
- `lib/uheap.c:520`: sfree passes an ID that nobody stored.
- `kern/mem/shared_memory_manager.c:125`: names are cut to 63 characters when they are
  stored and compared whole when they are looked for (`:54`), so a longer name is never
  found, is never "already there", and its prefix may stand for several objects.
- `kern/mem/shared_memory_manager.c:256`: get of an object that a failed create has left
  in the list hands map_frame a frame at NULL; the kernel faults, and the caller exits with
  `shareslock` held.
- `kern/mem/paging_helpers.c:223`: `del_page_table` ignores the directory it is given and
  looks the table up in the kernel's `ptr_page_directory`, which has no table at a user
  address (`kern/mem/boot_memory_manager.c:441-449`). So the tables that
  `delete_shared_object` finds empty of PRESENT entries stay, with the marks of malloc'ed
  pages that share them; with the right directory those marks would be lost.
- `kern/trap/fault_handler.c:490`: a program that is ended for an illegal access
  leaves a frame mapped outside its working set.
- `kern/trap/fault_handler.c:154`: handled faults on one address count as failures
  when a heap page is freed and touched again three times.
- `kern/trap/fault_handler.c:415`: OPTIMAL does not record references to active
  pages, so its count is a lower bound (`CountsTheFewest`) and not exact.
- `kern/proc/user_environment.c:105`: env_create that panics for lack of memory leaves
  a half-made environment that is in no queue and keeps its slot, frames and disk
  frames; the result of adding the stack's page to the page file is ignored.
- `kern/proc/user_environment.c:487` ("Frees environment \"e\" and all memory it uses.",
  `:485`): env_free unmaps the pages of the working set only; the frame of a page that
  was mapped by a fault that then ended the program is lost with its table.

Console and prompt:
- `kern/trap/syscall.c:72`: under LCK_SLEEP a key that is pressed between the test and
  `acquire_kspinlock(&KBDlock)` wakes nobody; the other two methods are not affected.
- `kern/cons/console.c:424`: cons_intr overwrites unread keys; after a whole ring the
  ring looks empty. `:458-463`: two programs that read without holding the console can
  both fetch at the same place.
- `kern/cmd/command_readline.c:237`, `:251`: `lastIndex` grows with every character,
  also one typed over another, so the line can end behind its text or outside the
  buffer; `:238-245` erases one character of the buffer where the screen moves none;
  `:227-232` deletes in the buffer and leaves the screen.
- `kern/cmd/command_readline.c:77`: `last_c` and `prefix_list_size` are read before they
  are written, so a first tab can continue the completion of the line before; `:131`
  and `:199` cut an argument short or write a completion beyond the buffer.

Programs and tests:
- `kern/tests/utilities.c:279`, `:319`: the test channel and lock are set up by whoever finds
  a flag set, in several steps with interrupts on. Two programs can both find it set, and
  one can sleep on the channel, or hold the lock, before the other has set it up:
  the sleeper is then in no queue, or two programs hold the lock. A master
  of a test then panics, or a slave never ends. `NoTestFails` and `AllEnd` are violated without
  the exception `wiped`.
- `kern/trap/trap.c:243`: `bypassInstrLength` is one variable for all environments: while
  a test of protection has it set, every page fault of everybody is skipped.
- `user/mergesort_leakage.c:166`, `user/mergesort_noleakage.c:162`,
  `user/arrayOperations_Master.c:233`: a division by zero for fewer than three elements,
  which panics the kernel (`kern/trap/trap.c:310`).
- `user/tst_custom_fit_1.c:146`: the test of insufficient space subtracts an address from
  a size and asks for more than the whole heap.

## 7. Plan

Done, in this order: sleep lock with channel and spinlocks, its proof, semaphore,
scheduler, block allocator, frames and kernel heap, shared memory, page faults,
OPTIMAL, user heap; then the memory of environments with the page file, the
console, the line editors, and the user programs.

Then the proofs: sleep lock and semaphore on lemmas they share, the scheduler's
queues and ageing, page replacement, the kernel heap, the memory of environments,
the shared objects, the user heap, the block allocator, the console and the history
of the prompt.

Left for modelling: the destruction of an environment that holds or waits for a
sleep lock, `krealloc`, which only the kernel tests call and which takes no lock,
and the remaining tests of `user/`, most of which repeat those modelled with other
sizes.

## 8. Not modelled

Boot, device programming (disk, clock, interrupt controller, display, serial and
printer ports), the translation of scan codes, string and printing helpers,
debugging output and statistics, the program table, the commands that set or print
options, the kernel's own tests, and the user tests that compare traces of the
scheduler or the contents of the working set on one machine. User-level
semaphores, realloc of the user heap, half of the chunk operations, the priority
manager, the MLFQ and BSD schedulers and the other replacement algorithms only
panic in this repository.
