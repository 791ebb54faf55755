------------------------------ MODULE Programs ------------------------------
(***************************************************************************)
(* The concurrent programs of user/: each C file is a script, a sequence   *)
(* of the steps that other programs can tell apart, and a scenario is the  *)
(* program that the user runs.  The kernel is what the other modules show  *)
(* it to be: a call of a kernel semaphore, of the test channel or of the   *)
(* test sleep lock (kern/tests/utilities.c) is one step.                   *)
(*                                                                         *)
(* Two programs may be preempted between any two steps.  env_sleep counts  *)
(* seconds: time passes only when no program has anything else to do,      *)
(* because computing takes no time next to a sleep.  What a program        *)
(* prints, and what it reads from the user, is left out.                   *)
(***************************************************************************)
EXTENDS Integers, Sequences, FiniteSets

CONSTANTS
  Scenarios,       \* the programs that the user may run
  NumOfSlaves,     \* the user's answers
  ShopCapacity

ASSUME ProgramsAssumption == NumOfSlaves \in Nat \ {0} /\ ShopCapacity \in Nat \ {0}

VARIABLES
  procs,       \* the programs in the order in which they were created
  ksem,        \* the kernel semaphores: [count, queue]
  chan, slplk, \* the test channel's queue; the test sleep lock
  firstTime,   \* which of the two has its __firstTime flag set
  wiped,       \* a first use has thrown away a sleeper or a held lock: history
  tst,         \* the test counter
  cons,        \* the program that holds the console, or 0
  share,       \* the shared objects: [<<owner, name>> -> [val, writable]]
  free         \* free frames

vars == <<procs, ksem, chan, slplk, firstTime, wiped, tst, cons, share, free>>

----------------------------------------------------------------------------
(* Steps.                                                                  *)

\* Addresses, in the order of inc/memlayout.h.
UTEXT == 2
USER_HEAP_START == 3
USER_HEAP_MAX == 60
USER_TOP == 70
KERN_STACK_TOP == 80

Step(op, on, val) == [op |-> op, on |-> on, val |-> val]

SemInit(s, v) == Step("init", s, v)
Wait(s) == Step("wait", s, 0)
Signal(s) == Step("signal", s, 0)
FirstUse(on) == <<Step("test", on, 0), Step("clear", on, 0), Step("setup", on, 0)>>
SleepOnChannel == FirstUse("chan") \o <<Step("sleep", "chan", 0)>>
WakeupOne == Step("wakeup", "chan", 1)
WakeupAll == Step("wakeup", "chan", 2)
AcquireSleepLock == FirstUse("lock") \o <<Step("acquire", "lock", 0)>>
ReleaseSleepLock == Step("release", "lock", 0)
inctst == Step("inctst", "tst", 0)
rsttst == Step("rsttst", "tst", 0)
env_sleep(times) == Step("nap", "time", times)
Poll(what, v, time) == Step("poll", <<what, time>>, v)  \* while (what != v) env_sleep(time), so often
Spin(what, v) == Step("spin", what, v)                  \* while (what != v) ;
Expect(what, vs) == Step("expect", what, vs)            \* panic unless what is one of vs
Run(prog) == Step("run", prog, 0)
LockCons == Step("lock", "cons", 0)
UnlockCons == Step("unlock", "cons", 0)
smalloc(name, pages, writable) == Step("smalloc", name, <<pages, writable>>)
sget(owner, name) == Step("sget", <<owner, name>>, 1)
Load(owner, name) == Step("load", <<owner, name>>, 0)
Store(owner, name, f) == Step("store", <<owner, name>>, f)
Note(what) == Step("note", what, 0)                     \* reg += what
Forget == Step("forget", "reg", 0)                      \* reg = 0
Access(va) == Step("access", va, 0)
USpinAcquire(owner, name) == Step("uacquire", <<owner, name>>, 0)
USpinRelease(owner, name) == Step("urelease", <<owner, name>>, 0)

Times(n, s) == [k \in 1..n |-> s]

----------------------------------------------------------------------------
(* Channels and sleep locks.                                               *)

tst_chan_all_master ==
  Times(NumOfSlaves, Run("tst_chan_all_slave")) \o
  <<Poll("chan", NumOfSlaves, 5), rsttst, WakeupAll, Poll("tst", NumOfSlaves, 5)>>

tst_chan_all_slave == SleepOnChannel \o <<inctst>>

tst_chan_one_master ==
  Times(NumOfSlaves, Run("tst_chan_one_slave")) \o
  <<Poll("chan", NumOfSlaves, 5), rsttst, WakeupOne, Poll("tst", NumOfSlaves, 10)>>

tst_chan_one_slave ==
  SleepOnChannel \o <<env_sleep({1, 5}), Forget, Note("chan"), Note("tst"),
                      Expect("reg", {NumOfSlaves - 1}), inctst, WakeupOne>>

tst_sleeplock_master ==
  <<rsttst>> \o Times(NumOfSlaves, Run("tst_sleeplock_slave")) \o
  <<Poll("lockqueue", NumOfSlaves - 1, 5), inctst, Poll("tst", NumOfSlaves + 1, 15)>>

\* The first slave waits for the master's signal, the others sleep for a while.
tst_sleeplock_slave ==
  AcquireSleepLock \o
  <<Step("turn", "tst", {5, 10}), Expect("locked", {1}), Forget, Note("lockqueue"), Note("tst"),
    Expect("reg", {NumOfSlaves}), inctst, ReleaseSleepLock>>

----------------------------------------------------------------------------
(* Kernel semaphores.                                                      *)

tst_ksemaphore_1master ==
  <<SemInit(0, 1), SemInit(1, 0)>> \o Times(3, Run("tst_ksemaphore_1slave")) \o
  <<Wait(1), Wait(1), Wait(1), Expect("sem0", {1}), Expect("sem1", {0})>>

tst_ksemaphore_1slave ==
  <<Wait(0), Expect("sem0", -3..0), env_sleep({1, 5}), Signal(0), Signal(1)>>

tst_ksemaphore_2master ==
  <<SemInit(0, ShopCapacity), SemInit(1, 0)>> \o
  Times(NumOfSlaves, Run("tst_ksemaphore_2slave")) \o Times(NumOfSlaves, Wait(1)) \o
  <<Forget, Note("sem0"), Expect("reg", {ShopCapacity}), Expect("sem1", {0}), env_sleep({10})>>

tst_ksemaphore_2slave == <<Wait(0), env_sleep({1}), Signal(0), Signal(1)>>

\* Semaphores: 0 ready, 1 finished, 2 the console.  An array is 0 before it is
\* filled and 1 when it holds the elements; a result is right when it is made
\* from a filled array.
arrayOperations_Master ==
  <<SemInit(0, 0), SemInit(1, 0), SemInit(2, 1)>> \o
  <<Run("arrayOperations_quicksort"), Run("arrayOperations_mergesort"), Run("arrayOperations_stats"),
    Wait(2), smalloc("arrSize", 1, FALSE), Store("self", "arrSize", "1"),
    smalloc("arr", 1, FALSE), Signal(2),
    Store("self", "arr", "1"), Signal(0), Signal(0), Signal(0), Wait(1), Wait(1), Wait(1),
    sget("arrayOperations_quicksort", "quicksortedArr"),
    sget("arrayOperations_mergesort", "mergesortedArr"), sget("arrayOperations_stats", "stats"),
    Load("arrayOperations_quicksort", "quicksortedArr"), Expect("reg", {1}),
    Load("arrayOperations_mergesort", "mergesortedArr"), Expect("reg", {1}),
    Load("arrayOperations_stats", "stats"), Expect("reg", {1})>>

Sorter(result) ==
  <<Wait(0), sget("parent", "arr"), sget("parent", "arrSize"), smalloc(result, 1, FALSE),
    Load("parent", "arr"), Store("self", result, "x"), Wait(2), Signal(2)>>

arrayOperations_quicksort == Sorter("quicksortedArr") \o <<Signal(1)>>

arrayOperations_mergesort == Sorter("mergesortedArr") \o <<Signal(1)>>

\* mean, var, min, max and med are shared one after another: one object here.
arrayOperations_stats ==
  Sorter("tmpArr") \o
  <<smalloc("stats", 1, FALSE), Store("self", "stats", "x"), Wait(2), Signal(2), Signal(1)>>

----------------------------------------------------------------------------
(* Shared objects.                                                         *)

\* protType is "spin" for two programs ordered by the lock T, "none" for two
\* programs that run into each other.
MidTermEx_Master(protType) ==
  <<smalloc("X", 1, TRUE), Store("self", "X", "5"), LockCons, UnlockCons>> \o
  (IF protType = "spin"
   THEN <<smalloc("T", 1, TRUE), Store("self", "T", "1"),
          smalloc("finishedCountMutex", 1, TRUE), Store("self", "finishedCountMutex", "0")>>
   ELSE <<>>) \o
  <<smalloc("finishedCount", 1, TRUE), Store("self", "finishedCount", "0"),
    Run(IF protType = "spin" THEN "MidTermEx_ProcessA2" ELSE "MidTermEx_ProcessA0"),
    Run(IF protType = "spin" THEN "MidTermEx_ProcessB2" ELSE "MidTermEx_ProcessB0"),
    Spin(<<"self", "finishedCount">>, 2), Load("self", "X")>>

Finishing(protType) ==
  IF protType = "spin"
  THEN <<USpinAcquire("parent", "finishedCountMutex"), Load("parent", "finishedCount"),
         Store("parent", "finishedCount", "x+1"), USpinRelease("parent", "finishedCountMutex")>>
  ELSE <<LockCons, Load("parent", "finishedCount"),
         Store("parent", "finishedCount", "x+1"), UnlockCons>>

MidTermEx_ProcessA(protType) ==
  <<sget("parent", "X"), sget("parent", "finishedCount"), env_sleep({2, 10}), Load("parent", "X"),
    env_sleep({2, 10}), Store("parent", "X", "2x"), env_sleep({2, 10})>> \o
  (IF protType = "spin" THEN <<USpinRelease("parent", "T")>> ELSE <<>>) \o
  Finishing(protType)

\* Process B does not wait for T.
MidTermEx_ProcessB_slip(protType) ==
  <<sget("parent", "X"), sget("parent", "finishedCount"), env_sleep({2, 10}), Load("parent", "X"),
    env_sleep({2, 10}), Store("parent", "X", "x+1"), env_sleep({2, 10})>> \o
  Finishing(protType)

MidTermEx_ProcessB(protType) ==
  <<sget("parent", "X"), sget("parent", "finishedCount")>> \o
  (IF protType = "spin" THEN <<USpinAcquire("parent", "T")>> ELSE <<>>) \o
  <<env_sleep({2, 10}), Load("parent", "X"), env_sleep({2, 10}), Store("parent", "X", "x+1"),
    env_sleep({2, 10})>> \o
  Finishing(protType)

\* How many frames a step takes from the free ones, and where it puts its object.
Taking(step, at, frames) ==
  <<Forget, Note("free"), step, Expect("heap", {at}), Note("used"), Expect("reg", frames)>>

tst_sharing_1 ==
  Taking(smalloc("x", 1, TRUE), 0, 2..5) \o Taking(smalloc("z", 2, TRUE), 1, {2}) \o
  Taking(smalloc("y", 1, TRUE), 3, {1}) \o
  <<Store("self", "x", "5"), Store("self", "y", "5"), Store("self", "z", "5"),
    Expect(<<"self", "x">>, {5}), Expect(<<"self", "y">>, {5}), Expect(<<"self", "z">>, {5})>>

tst_sharing_2master ==
  Taking(smalloc("x", 1, FALSE), 0, 2..5) \o Taking(smalloc("y", 1, FALSE), 1, {1}) \o
  Taking(smalloc("z", 1, TRUE), 2, {1}) \o
  <<Store("self", "x", "10"), Store("self", "y", "20"), rsttst>> \o
  Times(3, Run("tst_sharing_2slave1")) \o
  <<Spin("tst", 3), Expect(<<"self", "z">>, {30}), Run("tst_sharing_2slave2"), Spin("tst", 4),
    Expect(<<"self", "z">>, {50}), inctst, Spin("tst", 6), Expect(<<"self", "x">>, {10})>>

\* Frames are counted with other programs running.
Locked_slip(s) == s

\* Frames are counted with the console locked: nobody else runs.
Locked(s) == <<LockCons>> \o s \o <<UnlockCons>>

tst_sharing_2slave1 ==
  Locked(Taking(sget("parent", "z"), 0, 1..3)) \o Locked(Taking(sget("parent", "y"), 1, {0})) \o
  <<Expect(<<"parent", "y">>, {20})>> \o Locked(Taking(sget("parent", "x"), 2, {0})) \o
  <<Expect(<<"parent", "x">>, {10}), Forget, Note(<<"parent", "x">>), Note(<<"parent", "y">>),
    Store("parent", "z", "x"), Expect(<<"parent", "z">>, {30}), inctst>>

\* The write to x is a fault, which sys_bypassPageFault skips.
tst_sharing_2slave2 ==
  Locked(Taking(sget("parent", "z"), 0, 1..3)) \o Locked(Taking(sget("parent", "x"), 1, {0})) \o
  <<Expect(<<"parent", "x">>, {10}), Store("parent", "z", "50"), Expect(<<"parent", "z">>, {50}),
    inctst, Spin("tst", 5), Store("parent", "x", "100"), inctst, Expect(<<"parent", "x">>, {10})>>

\* An object that exists, one that does not, and one that is too large.
tst_sharing_3 ==
  <<smalloc("x", 1, TRUE)>> \o
  <<Forget, Note("free"), smalloc("x", 1, TRUE), Expect("heap", {-1}), Note("used"), Expect("reg", {0}),
    Forget, Note("free"), sget("self", "xx"), Expect("heap", {-1}), Note("used"), Expect("reg", {0}),
    Forget, Note("free"), smalloc("y", 100, TRUE), Expect("heap", {-1}), Note("used"), Expect("reg", {0})>>

\* Two objects stand for the 5000.
tst_protection ==
  <<rsttst>> \o Times(3, Run("tst_protection_slave1")) \o <<Spin("tst", 3)>>

tst_protection_slave1 ==
  <<smalloc("x0", 1, TRUE), Store("self", "x0", "0"), smalloc("x1", 1, TRUE), Store("self", "x1", "1"),
    Expect(<<"self", "x0">>, {0}), Expect(<<"self", "x1">>, {1}), inctst>>

tst_invalid_access ==
  <<rsttst, Run("tst_invalid_access_slave1"), Run("tst_invalid_access_slave2"),
    Run("tst_invalid_access_slave3"), env_sleep({15}), Expect("tst", {0}), rsttst,
    Run("tst_invalid_access_slave4"), env_sleep({15}), Expect("tst", {0})>>

tst_invalid_access_slave1 == <<Access(KERN_STACK_TOP), inctst, Expect("tst", {})>>

tst_invalid_access_slave2 == <<Access(USER_TOP), inctst, Expect("tst", {})>>

tst_invalid_access_slave3 == <<Access(USER_HEAP_START), inctst, Expect("tst", {})>>

tst_invalid_access_slave4 == <<Access(1), inctst, Expect("tst", {})>>

----------------------------------------------------------------------------
(* The table of programs.                                                  *)

Code == [tst_chan_all_master |-> tst_chan_all_master, tst_chan_all_slave |-> tst_chan_all_slave,
         tst_chan_one_master |-> tst_chan_one_master, tst_chan_one_slave |-> tst_chan_one_slave,
         tst_sleeplock_master |-> tst_sleeplock_master, tst_sleeplock_slave |-> tst_sleeplock_slave,
         tst_ksemaphore_1master |-> tst_ksemaphore_1master,
         tst_ksemaphore_1slave |-> tst_ksemaphore_1slave,
         tst_ksemaphore_2master |-> tst_ksemaphore_2master,
         tst_ksemaphore_2slave |-> tst_ksemaphore_2slave,
         arrayOperations_Master |-> arrayOperations_Master,
         arrayOperations_quicksort |-> arrayOperations_quicksort,
         arrayOperations_mergesort |-> arrayOperations_mergesort,
         arrayOperations_stats |-> arrayOperations_stats,
         MidTermEx_Master0 |-> MidTermEx_Master("none"), MidTermEx_Master2 |-> MidTermEx_Master("spin"),
         MidTermEx_ProcessA0 |-> MidTermEx_ProcessA("none"),
         MidTermEx_ProcessA2 |-> MidTermEx_ProcessA("spin"),
         MidTermEx_ProcessB0 |-> MidTermEx_ProcessB("none"),
         MidTermEx_ProcessB2 |-> MidTermEx_ProcessB("spin"),
         tst_sharing_1 |-> tst_sharing_1, tst_sharing_3 |-> tst_sharing_3,
         tst_sharing_2master |-> tst_sharing_2master, tst_sharing_2slave1 |-> tst_sharing_2slave1,
         tst_sharing_2slave2 |-> tst_sharing_2slave2,
         tst_protection |-> tst_protection, tst_protection_slave1 |-> tst_protection_slave1,
         tst_invalid_access |-> tst_invalid_access,
         tst_invalid_access_slave1 |-> tst_invalid_access_slave1,
         tst_invalid_access_slave2 |-> tst_invalid_access_slave2,
         tst_invalid_access_slave3 |-> tst_invalid_access_slave3,
         tst_invalid_access_slave4 |-> tst_invalid_access_slave4]

----------------------------------------------------------------------------
(* What a step reads.                                                      *)

OwnFrames == 3   \* what a program takes for itself when it is created

Owner(p, who) == IF who = "self" THEN p ELSE IF who = "parent" THEN procs[p].parent
                 ELSE CHOOSE q \in DOMAIN procs : procs[q].prog = who
Object(p, on) == <<Owner(p, on[1]), on[2]>>

Reading(p, what) ==
  CASE what = "chan"      -> Len(chan)
    [] what = "lockqueue" -> Len(slplk.queue)
    [] what = "locked"    -> IF slplk.locked THEN 1 ELSE 0
    [] what = "tst"       -> tst
    [] what = "sem0"      -> ksem[0].count
    [] what = "sem1"      -> ksem[1].count
    [] what = "reg"       -> procs[p].reg
    [] what = "heap"      -> procs[p].heap
    [] what = "free"      -> free
    [] what = "used"      -> -free
    [] OTHER              -> share[Object(p, what)].val

Value(f, x) == CASE f = "x" -> x [] f = "2x" -> 2 * x [] f = "x+1" -> x + 1
                 [] f = "0" -> 0 [] f = "1" -> 1 [] f = "5" -> 5 [] f = "10" -> 10
                 [] f = "20" -> 20 [] f = "50" -> 50 [] f = "100" -> 100

\* fault_handler: an access that ends the program
Illegal(p, va) == \/ va >= USER_TOP
                  \/ va \in USER_HEAP_START..(USER_HEAP_MAX - 1) /\ va - USER_HEAP_START >= procs[p].top
                  \/ va < UTEXT

Ended(p) == procs[p].pc > Len(Code[procs[p].prog])
Current(p) == Code[procs[p].prog][procs[p].pc]
Runs(p) == p \in DOMAIN procs /\ procs[p].state = "run" /\ cons \in {0, p}
At(p, op) == Runs(p) /\ ~Ended(p) /\ Current(p).op = op

\* The program turns in a loop until another one does something.
Turns(p) ==
  /\ ~Ended(p)
  /\ LET c == Current(p)
     IN  \/ c.op = "spin" /\ Reading(p, c.on) # c.val
         \/ c.op = "turn" /\ tst = 0
         \/ c.op = "uacquire" /\ share[Object(p, c.on)].val = 1

Goes(p, ps) == procs' = [ps EXCEPT ![p].pc = @ + 1]
Goto(p, st) == procs' = [procs EXCEPT ![p].state = st, ![p].pc = @ + 1]
Woken(ps, qs) == [q \in DOMAIN ps |-> IF q \in qs THEN [ps[q] EXCEPT !.state = "run"] ELSE ps[q]]
Panics(p) == procs' = [procs EXCEPT ![p].state = "panic"]
Elements(queue) == {queue[k] : k \in DOMAIN queue}

----------------------------------------------------------------------------
(* sys_utilities                                                           *)

KSemInit(p) ==
  /\ At(p, "init")
  /\ ksem' = [ksem EXCEPT ![Current(p).on] = [count |-> Current(p).val, queue |-> <<>>]]
  /\ Goes(p, procs)
  /\ UNCHANGED <<chan, slplk, firstTime, wiped, tst, cons, share, free>>

KSemWait(p) ==
  LET s == Current(p).on
  IN  /\ At(p, "wait")
      /\ IF ksem[s].count <= 0
         THEN /\ ksem' = [ksem EXCEPT ![s] = [count |-> @.count - 1, queue |-> Append(@.queue, p)]]
              /\ Goto(p, "blocked")
         ELSE /\ ksem' = [ksem EXCEPT ![s].count = @ - 1]
              /\ Goes(p, procs)
      /\ UNCHANGED <<chan, slplk, firstTime, wiped, tst, cons, share, free>>

\* The waiting program is not woken.
KSemSignal_slip(p) ==
  /\ At(p, "signal")
  /\ ksem' = [ksem EXCEPT ![Current(p).on].count = @ + 1]
  /\ Goes(p, procs)
  /\ UNCHANGED <<chan, slplk, firstTime, wiped, tst, cons, share, free>>

KSemSignal(p) ==
  LET s == Current(p).on
  IN  /\ At(p, "signal")
      /\ IF ksem[s].queue # <<>>
         THEN /\ ksem' = [ksem EXCEPT ![s] = [count |-> @.count + 1, queue |-> Tail(@.queue)]]
              /\ Goes(p, Woken(procs, {Head(ksem[s].queue)}))
         ELSE /\ ksem' = [ksem EXCEPT ![s].count = @ + 1]
              /\ Goes(p, procs)
      /\ UNCHANGED <<chan, slplk, firstTime, wiped, tst, cons, share, free>>

\* if (__firstTime...): every program that still finds the flag set goes on to
\* clear it and to set the channel or the lock up.
TestFlag(p) ==
  /\ At(p, "test")
  /\ procs' = [procs EXCEPT ![p].pc = IF Current(p).on \in firstTime THEN @ + 1 ELSE @ + 3]
  /\ UNCHANGED <<ksem, chan, slplk, firstTime, wiped, tst, cons, share, free>>

ClearFlag(p) ==
  /\ At(p, "clear") /\ firstTime' = firstTime \ {Current(p).on} /\ Goes(p, procs)
  /\ UNCHANGED <<ksem, chan, slplk, wiped, tst, cons, share, free>>

Unlocked == [locked |-> FALSE, pid |-> 0, queue |-> <<>>]

\* init_channel and init_sleeplock: whoever is in the queue is forgotten there,
\* and the lock is free whoever holds it.  In one step: a program that comes
\* between their stores either comes before the last one, or loses its place
\* at the first.  The spin locks they reset are never held here, because their
\* holder cannot be preempted.
SetUp(p) ==
  /\ At(p, "setup")
  /\ chan' = IF Current(p).on = "chan" THEN <<>> ELSE chan
  /\ slplk' = IF Current(p).on = "lock" THEN Unlocked ELSE slplk
  /\ wiped' = (wiped \/ <<chan, slplk>> # <<chan', slplk'>>)
  /\ Goes(p, procs)
  /\ UNCHANGED <<ksem, firstTime, tst, cons, share, free>>

Sleep(p) ==
  /\ At(p, "sleep") /\ chan' = Append(chan, p) /\ Goto(p, "blocked")
  /\ UNCHANGED <<ksem, slplk, firstTime, wiped, tst, cons, share, free>>

Wakeup(p) ==
  LET woken == IF Current(p).val = 1 /\ chan # <<>> THEN <<Head(chan)>> ELSE chan
  IN  /\ At(p, "wakeup")
      /\ chan' = SubSeq(chan, Len(woken) + 1, Len(chan))
      /\ Goes(p, Woken(procs, Elements(woken)))
      /\ UNCHANGED <<ksem, slplk, firstTime, wiped, tst, cons, share, free>>

acquire_sleeplock(p) ==
  /\ At(p, "acquire")
  /\ IF slplk.locked
     THEN /\ slplk' = [slplk EXCEPT !.queue = Append(@, p)]
          /\ procs' = [procs EXCEPT ![p].state = "blocked"]
     ELSE slplk' = [slplk EXCEPT !.locked = TRUE, !.pid = p] /\ Goes(p, procs)
  /\ UNCHANGED <<ksem, chan, firstTime, wiped, tst, cons, share, free>>

release_sleeplock(p) ==
  /\ At(p, "release")
  /\ IF slplk.locked /\ slplk.pid = p
     THEN /\ slplk' = Unlocked
          /\ Goes(p, Woken(procs, Elements(slplk.queue)))
     ELSE Goes(p, procs) /\ UNCHANGED slplk
  /\ UNCHANGED <<ksem, chan, firstTime, wiped, tst, cons, share, free>>

----------------------------------------------------------------------------
(* The test counter, sleeping and waiting.                                 *)

TestCounter(p) ==
  /\ At(p, "inctst") \/ At(p, "rsttst")
  /\ tst' = IF Current(p).op = "inctst" THEN tst + 1 ELSE 0
  /\ Goes(p, procs)
  /\ UNCHANGED <<ksem, chan, slplk, firstTime, wiped, cons, share, free>>

Nap(p) ==
  /\ At(p, "nap") \/ (At(p, "turn") /\ tst > 1)
  /\ \E t \in Current(p).val :
       procs' = [procs EXCEPT ![p].state = "nap", ![p].left = t, ![p].pc = @ + 1]
  /\ UNCHANGED <<ksem, chan, slplk, firstTime, wiped, tst, cons, share, free>>

Turn(p) ==
  /\ At(p, "turn") /\ tst = 1 /\ Goes(p, procs)
  /\ UNCHANGED <<ksem, chan, slplk, firstTime, wiped, tst, cons, share, free>>

\* A loop that looks again after every sleep, NumOfSlaves times.
PollLoop(p) ==
  /\ At(p, "poll")
  /\ IF procs[p].tries > NumOfSlaves
     THEN Panics(p)
     ELSE IF Reading(p, Current(p).on[1]) = Current(p).val
     THEN procs' = [procs EXCEPT ![p].pc = @ + 1, ![p].tries = 0]
     ELSE procs' = [procs EXCEPT ![p].state = "nap", ![p].left = Current(p).on[2],
                                 ![p].tries = @ + 1]
  /\ UNCHANGED <<ksem, chan, slplk, firstTime, wiped, tst, cons, share, free>>

SpinLoop(p) ==
  /\ At(p, "spin") /\ ~Turns(p) /\ Goes(p, procs)
  /\ UNCHANGED <<ksem, chan, slplk, firstTime, wiped, tst, cons, share, free>>

\* Time passes until the first sleep ends.
Elapse ==
  LET naps == {p \in DOMAIN procs : procs[p].state = "nap"}
      dt == CHOOSE t \in {procs[p].left : p \in naps} : \A p \in naps : t <= procs[p].left
  IN  /\ naps # {} /\ \A p \in DOMAIN procs : Runs(p) => Turns(p)
      /\ procs' = [p \in DOMAIN procs |->
                     IF p \notin naps THEN procs[p]
                     ELSE [procs[p] EXCEPT !.left = @ - dt,
                                           !.state = IF procs[p].left = dt THEN "run" ELSE "nap"]]
      /\ UNCHANGED <<ksem, chan, slplk, firstTime, wiped, tst, cons, share, free>>

----------------------------------------------------------------------------
(* Programs, the console and shared objects.                               *)

New(prog, parent) ==
  [prog |-> prog, parent |-> parent, pc |-> 1, state |-> "run", reg |-> 0, left |-> 0,
   tries |-> 0, heap |-> 0, top |-> 0]

RunEnv(p) ==
  /\ At(p, "run")
  /\ procs' = Append([procs EXCEPT ![p].pc = @ + 1], New(Current(p).on, p))
  /\ free' = free - OwnFrames
  /\ UNCHANGED <<ksem, chan, slplk, firstTime, wiped, tst, cons, share>>

\* The environment and its frames stay until somebody kills it: sched_exit_env
\* only queues it.
Exit(p) ==
  /\ Runs(p) /\ (Ended(p) \/ (At(p, "access") /\ Illegal(p, Current(p).on)))
  /\ procs' = [procs EXCEPT ![p].state = "done"]
  /\ UNCHANGED <<ksem, chan, slplk, firstTime, wiped, tst, cons, share, free>>

LockConsole(p) ==
  /\ At(p, "lock") \/ At(p, "unlock")
  /\ cons' = IF Current(p).op = "lock" THEN p ELSE 0
  /\ Goes(p, procs)
  /\ UNCHANGED <<ksem, chan, slplk, firstTime, wiped, tst, share, free>>

\* The object of smalloc or sget goes after the others; the first needs a table.
Place(p, pages) ==
  /\ procs' = [procs EXCEPT ![p].heap = procs[p].top, ![p].top = @ + pages, ![p].pc = @ + 1]
  /\ free' = free - (IF Current(p).op = "smalloc" THEN pages ELSE 0)
                  - (IF procs[p].top = 0 THEN 1 ELSE 0)

Refuse(p) == Goes(p, [procs EXCEPT ![p].heap = -1]) /\ UNCHANGED <<share, free>>

Smalloc(p) ==
  LET c == Current(p)
  IN  /\ At(p, "smalloc")
      /\ IF <<p, c.on>> \in DOMAIN share \/ USER_HEAP_START + procs[p].top + c.val[1] > USER_HEAP_MAX
         THEN Refuse(p)
         ELSE /\ Place(p, c.val[1])
              /\ share' = [o \in DOMAIN share \cup {<<p, c.on>>} |->
                             IF o = <<p, c.on>> THEN [val |-> 0, writable |-> c.val[2]] ELSE share[o]]
      /\ UNCHANGED <<ksem, chan, slplk, firstTime, wiped, tst, cons>>

Sget(p) ==
  /\ At(p, "sget")
  /\ IF Object(p, Current(p).on) \in DOMAIN share THEN Place(p, 1) /\ UNCHANGED share ELSE Refuse(p)
  /\ UNCHANGED <<ksem, chan, slplk, firstTime, wiped, tst, cons>>

LoadStep(p) ==
  /\ At(p, "load")
  /\ Goes(p, [procs EXCEPT ![p].reg = Reading(p, Current(p).on)])
  /\ UNCHANGED <<ksem, chan, slplk, firstTime, wiped, tst, cons, share, free>>

\* Only its owner writes an object that is not shared writable.
StoreStep(p) ==
  LET o == Object(p, Current(p).on)
  IN  /\ At(p, "store")
      /\ share' = IF o[1] = p \/ share[o].writable
                  THEN [share EXCEPT ![o].val = Value(Current(p).val, procs[p].reg)] ELSE share
      /\ Goes(p, procs)
      /\ UNCHANGED <<ksem, chan, slplk, firstTime, wiped, tst, cons, free>>

NoteStep(p) ==
  /\ At(p, "note") \/ At(p, "forget")
  /\ Goes(p, [procs EXCEPT ![p].reg = IF Current(p).op = "note" THEN @ + Reading(p, Current(p).on) ELSE 0])
  /\ UNCHANGED <<ksem, chan, slplk, firstTime, wiped, tst, cons, share, free>>

ExpectStep(p) ==
  /\ At(p, "expect")
  /\ IF Reading(p, Current(p).on) \in Current(p).val THEN Goes(p, procs) ELSE Panics(p)
  /\ UNCHANGED <<ksem, chan, slplk, firstTime, wiped, tst, cons, share, free>>

\* lib/uspinlock.c: xchg
acquire_uspinlock(p) ==
  /\ At(p, "uacquire") /\ ~Turns(p)
  /\ share' = [share EXCEPT ![Object(p, Current(p).on)].val = 1]
  /\ Goes(p, procs)
  /\ UNCHANGED <<ksem, chan, slplk, firstTime, wiped, tst, cons, free>>

release_uspinlock(p) ==
  LET o == Object(p, Current(p).on)
  IN  /\ At(p, "urelease")
      /\ IF share[o].val = 0 THEN Panics(p) /\ UNCHANGED share
         ELSE share' = [share EXCEPT ![o].val = 0] /\ Goes(p, procs)
      /\ UNCHANGED <<ksem, chan, slplk, firstTime, wiped, tst, cons, free>>

----------------------------------------------------------------------------
Proceeds(p) ==
  \/ KSemInit(p) \/ KSemWait(p) \/ KSemSignal(p) \/ TestFlag(p) \/ ClearFlag(p) \/ SetUp(p) \/ Sleep(p)
  \/ Wakeup(p) \/ acquire_sleeplock(p) \/ release_sleeplock(p) \/ TestCounter(p) \/ Nap(p)
  \/ Turn(p) \/ PollLoop(p) \/ SpinLoop(p) \/ RunEnv(p) \/ Exit(p) \/ LockConsole(p)
  \/ Smalloc(p) \/ Sget(p) \/ LoadStep(p) \/ StoreStep(p) \/ NoteStep(p) \/ ExpectStep(p)
  \/ acquire_uspinlock(p) \/ release_uspinlock(p)

Init ==
  /\ \E s \in Scenarios : procs = <<New(s, 0)>>
  /\ ksem = [s \in 0..2 |-> [count |-> 0, queue |-> <<>>]]
  /\ chan = <<>> /\ slplk = Unlocked
  /\ firstTime = {"chan", "lock"} /\ wiped = FALSE
  /\ tst = 0 /\ cons = 0 /\ share = [o \in {} |-> 0] /\ free = 100

ProcIds == 1..(NumOfSlaves + 5)

Next == Elapse \/ \E p \in ProcIds : Proceeds(p)

\* The scheduler runs every program that can run, and time passes.
Fairness == WF_vars(Elapse) /\ \A p \in ProcIds : WF_vars(Proceeds(p))

Spec == Init /\ [][Next]_vars /\ Fairness

----------------------------------------------------------------------------
(* No test of the repository panics, however its programs are interleaved  *)
(* and whatever its random delays: the counts of blocked and woken         *)
(* programs, the values of semaphores, addresses and frame counts that the *)
(* test programs expect are the ones they meet.  There is one exception:   *)
(* two programs may both take themselves for the first user of the channel *)
(* or the sleep lock of kern/tests/utilities.c:279-284 and 319-323, or one *)
(* may use it before the first has set it up, and then the late set-up may *)
(* empty the queue or free the lock under them (wiped).  Only such a       *)
(* set-up makes a test fail, not the race as such.                         *)
NoTestFails == wiped \/ \A p \in DOMAIN procs : procs[p].state # "panic"

(* Every program ends: none is left waiting for a signal, a wakeup or a    *)
(* count that never comes, unless a late set-up has forgotten it.          *)
AllEnd == <>[](wiped \/ \A p \in DOMAIN procs : procs[p].state = "done")

(* With the spin lock T (choice 2 of MidTermEx_Master.c) process B works   *)
(* on what process A has written: the X that the master prints is 11.      *)
OrderedByT ==
  procs[1].prog = "MidTermEx_Master2" /\ procs[1].state = "done" => procs[1].reg = 11
=============================================================================
