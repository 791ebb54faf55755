-------------------------- MODULE SleepLockProofs --------------------------
(***************************************************************************)
(* Proofs about the sleep lock, for any finite set of environments.        *)
(*                                                                         *)
(* ChanInv of ChannelProofs says that nobody interferes with the holder of *)
(* the guard lk.  What is left to show is that the lock's fields tell who  *)
(* owns it (LockInv), and that whoever waits has somebody to wake it       *)
(* (WaitInv).                                                              *)
(***************************************************************************)
EXTENDS SleepLock, ChannelProofs

----------------------------------------------------------------------------
(* The inductive invariant.                                                *)

\* locked and pid name the one owner.
LockInv == /\ locked <=> pid # NoEnv
           /\ locked => Owns(pid)
           /\ \A p \in Envs : Owns(p) => locked /\ pid = p

\* Whoever is on its way into the channel has seen the lock taken, and it
\* still is.
WaitInv == /\ \A p \in Envs : pc[p] \in {"sleep_q", "sleep_unlk", "sleep_block"}
                                => locked
           /\ NoLostWakeup

IInv == /\ TypeOK
        /\ ChanInv
        /\ LockInv
        /\ WaitInv

----------------------------------------------------------------------------
(* The calls and returns, and every step of the code below them, keep      *)
(* ChanInv.                                                                *)
LEMMA ChanStep ==
  ASSUME IInv, [Next]_vars
  PROVE  ChanInv'
<1> USE DEF IInv
<1>1. ASSUME NEW p \in Envs, Kernel(p) \/ User(p) PROVE ChanInv'
  <2> USE DEF LkLocs, QLocs, AllLocs, BaseLocs, CallerLocs, GuardLocs
  <2>1. CASE AcquireCall(p)
    <3>1. Move(p, "user", "acq_test") /\ acquire_kspinlock("lk")
      BY <2>1 DEF AcquireCall, Move
    <3> QED BY <3>1, MoveStep DEF Locks
  <2>2. CASE AcquireTest(p)
    <3>1. \E to \in {"sleep_q", "acq_unlk"} : Move(p, "acq_test", to) /\ UNCHANGED cpuVars
      BY <2>2 DEF AcquireTest, Move
    <3>2. "sleep_q" \in AllLocs \ {"exited"}
      BY DEF SleepLocs
    <3> QED BY <3>1, <3>2, MoveStep DEF Locks
  <2>3. CASE AcquireReturn(p)
    <3>1. Move(p, "acq_unlk", "crit") /\ release_kspinlock("lk")
      BY <2>3 DEF AcquireReturn, Move
    <3> QED BY <3>1, MoveStep DEF Locks
  <2>4. ASSUME NEW from \in {"crit", "user"}, ReleaseCall(p, from) PROVE ChanInv'
    <3>1. Move(p, from, "rel_test") /\ acquire_kspinlock("lk")
      BY <2>4 DEF ReleaseCall, Move
    <3> QED BY <3>1, MoveStep DEF Locks
  <2>5. CASE ReleaseTest(p)
    <3>1. \E to \in {"wake_q", "rel_unlk"} : Move(p, "rel_test", to) /\ UNCHANGED cpuVars
      BY <2>5 DEF ReleaseTest, Move
    <3>2. "wake_q" \in AllLocs \ {"exited"}
      BY DEF WakeLocs
    <3> QED BY <3>1, <3>2, MoveStep DEF Locks
  <2>6. CASE ReleaseReturn(p)
    <3>1. Move(p, "rel_unlk", "user") /\ release_kspinlock("lk")
      BY <2>6 DEF ReleaseReturn, Move
    <3> QED BY <3>1, MoveStep DEF Locks
  <2>7. CASE AcquireSleep(p)
    BY <2>7, SpinStep, BlockStep DEF AcquireSleep, sleep
  <2>8. CASE ReleaseWakeup(p)
    BY <2>8, SpinStep, MoveAllStep DEF ReleaseWakeup, wakeup_all
  <2>9. CASE env_exit(p)
    <3>1. "acq_test" \in GuardLocs
      OBVIOUS
    <3> QED BY <2>9, <3>1, SpinStep
  <2> QED BY <1>1, <2>1, <2>2, <2>3, <2>4, <2>5, <2>6, <2>7, <2>8, <2>9 DEF Kernel, User
<1>2. ASSUME NEW p \in Envs, Resume(p) \/ Clock(p) PROVE ChanInv'
  BY <1>2, ExitStep, ResumeStep, ClockStep DEF Resume, EnvBase, Clock
<1>3. CASE Scheduler
  BY <1>3, RunStep, SchedulerStep DEF Scheduler, fos_scheduler
<1>4. CASE UNCHANGED vars
  BY <1>4, ChanStutter DEF vars
<1> QED BY <1>1, <1>2, <1>3, <1>4 DEF Next, Stopped

----------------------------------------------------------------------------
(* What the lock's own fields and the channel have to do with each other.  *)

\* p owns the lock when it stands at loc.
OwnerAt(p, loc) == loc \in {"acq_unlk", "crit"} \/ (loc = "rel_test" /\ pid = p)

\* p moves on and leaves the lock's fields alone.
Moves(p, from, to) == At(p, from) /\ Goto(p, to) /\ UNCHANGED lockVars

\* The part of the invariant that is not ChanInv.
LockPart == /\ pc \in [Envs -> Locs]
            /\ locked \in BOOLEAN
            /\ pid \in Envs \cup {NoEnv}
            /\ LockInv
            /\ WaitInv

(* If p owns the lock after such a step just when it owned it before, does *)
(* not newly go to sleep, and does not leave its wakeup before the channel *)
(* is empty, the lock's part of the invariant is kept.                     *)
LEMMA MovesStep ==
  ASSUME IInv, NEW p \in Envs, NEW from \in Locs, NEW to \in Locs,
         Moves(p, from, to), UNCHANGED cur,
         OwnerAt(p, from) <=> OwnerAt(p, to),
         to \in {"sleep_q", "sleep_unlk", "sleep_block"}
           => from \in {"sleep_q", "sleep_unlk", "sleep_block"},
         \/ chan' = <<>>
         \/ from = "sleep_block"
         \/ chan' = chan /\ (from \in {"wake_q", "wake_move"} => to \in {"wake_q", "wake_move"})
  PROVE  LockPart'
<1> USE DEF Moves, At, OnCpu, Goto, IInv, TypeOK, lockVars
<1>1. pc' = [pc EXCEPT ![p] = to] /\ pc[p] = from /\ cur = p
  OBVIOUS
<1>2. LockInv'
  BY <1>1 DEF LockInv, Owns, OwnerAt
<1>3. WaitInv'
  BY <1>1 DEF WaitInv, NoLostWakeup
<1> QED BY <1>2, <1>3 DEF LockPart

(* The calls, the returns, sleep and wakeup_all keep it.                   *)
LEMMA CallStep ==
  ASSUME IInv, NEW p \in Envs, Kernel(p) \/ User(p) \/ (ExitSched(p) /\ UNCHANGED lockVars),
         ~AcquireTest(p), ~ReleaseTest(p)
  PROVE  LockPart'
<1> USE DEF Locs, BaseLocs, SleepLocs, WakeLocs, ExitLocs, AcquireLocs, ReleaseLocs,
            OwnerAt, queueVars, schedVars
<1>1. CASE AcquireCall(p)
  <2>1. Moves(p, "user", "acq_test") /\ UNCHANGED <<cur, chan>>
    BY <1>1 DEF AcquireCall, Moves
  <2> QED BY <2>1, MovesStep
<1>2. CASE AcquireReturn(p)
  <2>1. Moves(p, "acq_unlk", "crit") /\ UNCHANGED <<cur, chan>>
    BY <1>2 DEF AcquireReturn, Moves
  <2> QED BY <2>1, MovesStep
<1>3. ASSUME NEW from \in {"crit", "user"}, ReleaseCall(p, from) PROVE LockPart'
  <2>1. Moves(p, from, "rel_test") /\ UNCHANGED <<cur, chan>>
    BY <1>3 DEF ReleaseCall, Moves
  <2>2. OwnerAt(p, from) <=> pid = p
    BY <2>1, NoEnvAssumption DEF IInv, LockInv, Owns, Moves, At
  <2> QED BY <2>1, <2>2, MovesStep
<1>4. CASE ReleaseReturn(p)
  <2>1. Moves(p, "rel_unlk", "user") /\ UNCHANGED <<cur, chan>>
    BY <1>4 DEF ReleaseReturn, Moves
  <2> QED BY <2>1, MovesStep
<1>5. CASE AcquireSleep(p)
  <2>1. CASE SleepLockQ(p)
    <3>1. Moves(p, "sleep_q", "sleep_unlk") /\ UNCHANGED <<cur, chan>>
      BY <1>5, <2>1 DEF AcquireSleep, SleepLockQ, Moves
    <3> QED BY <3>1, MovesStep
  <2>2. CASE SleepUnlock(p)
    <3>1. Moves(p, "sleep_unlk", "sleep_block") /\ UNCHANGED <<cur, chan>>
      BY <1>5, <2>2 DEF AcquireSleep, SleepUnlock, Moves
    <3> QED BY <3>1, MovesStep
  <2>3. CASE SleepBlock(p)
    <3>1. Moves(p, "sleep_block", "sleep_lk") /\ UNCHANGED cur
      BY <1>5, <2>3 DEF AcquireSleep, SleepBlock, sched, Moves
    <3> QED BY <3>1, MovesStep
  <2>4. CASE SleepRelock(p)
    <3>1. Moves(p, "sleep_lk", "sleep_unq") /\ UNCHANGED <<cur, chan>>
      BY <1>5, <2>4 DEF AcquireSleep, SleepRelock, Moves
    <3> QED BY <3>1, MovesStep
  <2>5. CASE SleepUnlockQ(p, "acq_test")
    <3>1. Moves(p, "sleep_unq", "acq_test") /\ UNCHANGED <<cur, chan>>
      BY <1>5, <2>5 DEF AcquireSleep, SleepUnlockQ, Moves
    <3> QED BY <3>1, MovesStep
  <2> QED BY <1>5, <2>1, <2>2, <2>3, <2>4, <2>5 DEF AcquireSleep, sleep
<1>6. CASE ReleaseWakeup(p)
  <2>1. CASE WakeupLockQ(p)
    <3>1. Moves(p, "wake_q", "wake_move") /\ UNCHANGED <<cur, chan>>
      BY <1>6, <2>1 DEF ReleaseWakeup, WakeupLockQ, Moves
    <3> QED BY <3>1, MovesStep
  <2>2. CASE MoveAll(p)
    <3>1. Moves(p, "wake_move", "wake_unq") /\ chan' = <<>> /\ UNCHANGED cur
      BY <1>6, <2>2 DEF ReleaseWakeup, MoveAll, Moves
    <3> QED BY <3>1, MovesStep
  <2>3. CASE WakeupUnlockQ(p, "rel_unlk")
    <3>1. Moves(p, "wake_unq", "rel_unlk") /\ UNCHANGED <<cur, chan>>
      BY <1>6, <2>3 DEF ReleaseWakeup, WakeupUnlockQ, Moves
    <3> QED BY <3>1, MovesStep
  <2> QED BY <1>6, <2>1, <2>2, <2>3 DEF ReleaseWakeup, wakeup_all
<1>7. CASE env_exit(p) /\ UNCHANGED lockVars
  <2>1. Moves(p, "user", "exit_q") /\ UNCHANGED <<cur, chan>>
    BY <1>7 DEF env_exit, Moves
  <2> QED BY <2>1, MovesStep
<1>8. CASE ExitSched(p) /\ UNCHANGED lockVars
  <2>1. Moves(p, "exit_q", "exited") /\ UNCHANGED <<cur, chan>>
    BY <1>8 DEF ExitSched, sched, Moves
  <2> QED BY <2>1, MovesStep
<1> QED BY <1>1, <1>2, <1>3, <1>4, <1>5, <1>6, <1>7, <1>8 DEF Kernel, User

(* The tests of acquire_sleeplock and release_sleeplock, which alone write *)
(* locked and pid, keep it.                                                *)
LEMMA TestStep ==
  ASSUME IInv, NEW p \in Envs, AcquireTest(p) \/ ReleaseTest(p)
  PROVE  LockPart'
<1> USE DEF Locs, BaseLocs, SleepLocs, WakeLocs, ExitLocs, AcquireLocs, ReleaseLocs,
            OwnerAt, lockVars, queueVars, schedVars
<1>0. /\ p = cur /\ cur' = cur /\ chan' = chan
      /\ pc \in [Envs -> Locs] /\ locked \in BOOLEAN /\ pid \in Envs \cup {NoEnv}
  BY DEF AcquireTest, ReleaseTest, At, OnCpu, IInv, TypeOK
<1>1. CASE AcquireTest(p) /\ locked
  <2>1. pc' = [pc EXCEPT ![p] = "sleep_q"] /\ pc[p] = "acq_test" /\ UNCHANGED lockVars
    BY <1>1 DEF AcquireTest, At, Goto
  <2> QED BY <1>0, <1>1, <2>1 DEF IInv, LockPart, LockInv, Owns, WaitInv, NoLostWakeup
<1>2. CASE AcquireTest(p) /\ ~locked
  <2>1. /\ pc' = [pc EXCEPT ![p] = "acq_unlk"] /\ pc[p] = "acq_test"
        /\ locked' = TRUE /\ pid' = p
    BY <1>2 DEF AcquireTest, At, Goto
  <2>2. LockInv'
    BY <1>0, <1>2, <2>1, NoEnvAssumption DEF IInv, LockInv, Owns
  <2>3. WaitInv'
    BY <2>1 DEF WaitInv, NoLostWakeup
  <2> QED BY <1>0, <2>1, <2>2, <2>3 DEF LockPart
<1>3. CASE ReleaseTest(p) /\ locked /\ pid = p
  <2>1. /\ pc' = [pc EXCEPT ![p] = "wake_q"] /\ pc[p] = "rel_test"
        /\ locked' = FALSE /\ pid' = NoEnv
    BY <1>3 DEF ReleaseTest, At, Goto
  <2>2. LockInv'
    BY <1>0, <1>3, <2>1, NoEnvAssumption DEF IInv, LockInv, Owns
  <2>3. \A q \in Envs : pc'[q] \notin {"sleep_q", "sleep_unlk", "sleep_block"}
    BY <1>0, <1>3, <2>1 DEF IInv, ChanInv, EnvInv, OffCpu, ReleaseTest, At, OnCpu
  <2>4. cur' # NoEnv /\ pc'[cur'] = "wake_q"
    BY <1>0, <2>1, NoEnvAssumption
  <2>5. WaitInv'
    BY <2>3, <2>4 DEF WaitInv, NoLostWakeup
  <2> QED BY <1>0, <2>1, <2>2, <2>5 DEF LockPart
<1>4. CASE ReleaseTest(p) /\ ~(locked /\ pid = p)
  <2>1. Moves(p, "rel_test", "rel_unlk")
    BY <1>4 DEF ReleaseTest, Moves
  <2>2. pid # p
    BY <1>4, NoEnvAssumption DEF IInv, LockInv
  <2> QED BY <1>0, <2>1, <2>2, MovesStep
<1> QED BY <1>1, <1>2, <1>3, <1>4

(* What happens under an environment's feet keeps it: the clock, the way   *)
(* back from it, and the scheduler.                                        *)
LEMMA AroundStep ==
  ASSUME IInv, UNCHANGED <<pc, chan, lockVars>>,
         \/ cur' = cur
         \/ cur = NoEnv
         \/ pc[cur] \notin {"wake_q", "wake_move"}
  PROVE  LockPart'
BY DEF IInv, TypeOK, LockPart, LockInv, Owns, WaitInv, NoLostWakeup, lockVars

(* Initially every environment is ready and the lock is free.              *)
LEMMA InitInv == Init => IInv
<1> SUFFICES ASSUME Init PROVE IInv
  OBVIOUS
<1>1. ChanInv
  BY ChanInitInv DEF Init
<1>2. TypeOK
  BY <1>1 DEF Init, ChanInit, ChanInv, TypeOK, Locs, BaseLocs
<1>3. LockInv /\ WaitInv
  BY NoEnvAssumption DEF Init, ChanInit, LockInv, Owns, WaitInv, NoLostWakeup
<1> QED BY <1>1, <1>2, <1>3 DEF IInv

(* Every step keeps the invariant.                                         *)
LEMMA IInvStep == IInv /\ [Next]_vars => IInv'
<1> SUFFICES ASSUME IInv, [Next]_vars PROVE IInv'
  OBVIOUS
<1>1. ChanInv'
  BY ChanStep
<1>2. ASSUME NEW p \in Envs, Kernel(p) \/ User(p) PROVE LockPart'
  BY <1>2, TestStep, CallStep
<1>3. ASSUME NEW p \in Envs, Resume(p) \/ Clock(p) PROVE LockPart'
  <2>1. CASE ExitSched(p)
    <3>1. UNCHANGED lockVars /\ ~AcquireTest(p) /\ ~ReleaseTest(p)
      BY <1>3, <2>1 DEF Resume, Clock, ExitSched, AcquireTest, ReleaseTest, At
    <3> QED BY <2>1, <3>1, CallStep
  <2>2. CASE ~ExitSched(p)
    <3>1. UNCHANGED <<pc, chan, cur, lockVars>>
      BY <1>3, <2>2 DEF Resume, EnvBase, Clock, ReturnFromSched, trapret,
                        clock_interrupt_handler, queueVars, schedVars
    <3> QED BY <3>1, AroundStep
  <2> QED BY <2>1, <2>2
<1>4. ASSUME Scheduler PROVE LockPart'
  <2>1. UNCHANGED <<pc, chan, lockVars>> /\ spc # "switched"
    BY <1>4 DEF Scheduler, fos_scheduler, SchedSti, SchedLock, SchedRun, SchedIdle,
                SchedBack, queueVars
  <2>2. cur # NoEnv => pc[cur] \notin {"wake_q", "wake_move"}
    BY <2>1 DEF IInv, ChanInv, ChanTypeOK, EnvInv, OffCpu
  <2> QED BY <2>1, <2>2, AroundStep
<1>5. ASSUME UNCHANGED vars PROVE LockPart'
  BY <1>5, AroundStep DEF vars, chanVars, schedVars, queueVars
<1>6. LockPart'
  BY <1>2, <1>3, <1>4, <1>5 DEF Next, Stopped
<1> QED BY <1>1, <1>6 DEF IInv, TypeOK, LockPart, ChanInv

(* The invariant holds in every reachable state.                           *)
LEMMA Invariance == Spec => []IInv
BY InitInv, IInvStep, PTL DEF Spec

----------------------------------------------------------------------------
(* The theorems.                                                           *)

(* The variables keep their types in every behaviour of the sleep lock     *)
(* over the channel, the spinlocks and the scheduler.                      *)
THEOREM TypeCorrect == Spec => []TypeOK
<1>1. IInv => TypeOK
  BY DEF IInv
<1> QED BY <1>1, Invariance, PTL

(* No panic of acquire_kspinlock, release_kspinlock, sched() or            *)
(* fos_scheduler() is reached, for any number of environments.             *)
THEOREM PanicFree == Spec => []NoPanic
<1>1. IInv => NoPanic
  BY DEF IInv, ChanInv, CpuInv, CpuAt, NoPanic
<1> QED BY <1>1, Invariance, PTL

(* At most one environment is between acquire_sleeplock and                *)
(* release_sleeplock.                                                      *)
THEOREM Exclusive == Spec => []MutualExclusion
<1>1. IInv => MutualExclusion
  BY DEF IInv, LockInv, Owns, MutualExclusion
<1> QED BY <1>1, Invariance, PTL

(* No environment is left in the channel with the lock free and nobody on  *)
(* the way to wakeup_all.                                                  *)
THEOREM WakeupNotLost == Spec => []NoLostWakeup
<1>1. IInv => NoLostWakeup
  BY DEF IInv, WaitInv
<1> QED BY <1>1, Invariance, PTL

(* Each environment is in the queue of its status, once.                   *)
THEOREM QueuesMatch == Spec => []QueuesMatchStatus
<1>1. IInv => QueuesMatchStatus
  BY PlacesByStatus DEF IInv, QueuesMatchStatus, InQueue, Places
<1> QED BY <1>1, Invariance, PTL

(* ncli counts the spinlocks held, and interrupts are on only when there   *)
(* are none.                                                               *)
THEOREM InterruptsOff == Spec => []InterruptsOffUnderSpinlock
<1> DEFINE S == {l \in Spinlocks : spin[l]}
<1>1. ASSUME IInv PROVE InterruptsOffUnderSpinlock
  <2> USE <1>1 DEF IInv, ChanInv, CpuInv
  <2>1. CpuTypeOK /\ CpuAt(HasLk, HasQ)
    BY DEF TypeOK, ChanTypeOK
  <2>2. ncli = (IF spin["lk"] THEN 1 ELSE 0) + (IF spin["qlock"] THEN 1 ELSE 0)
    BY <2>1 DEF CpuAt
  <2>3. CASE spin["lk"] /\ spin["qlock"]
    <3>1. S = {"lk", "qlock"}
      BY <2>3 DEF Spinlocks
    <3>2. Cardinality({"lk", "qlock"}) = 2
      <4>1. "lk" # "qlock"
        OBVIOUS
      <4> QED BY <4>1, TwoElements, Zenon
    <3> QED BY <2>1, <2>2, <2>3, <3>1, <3>2 DEF CpuAt, InterruptsOffUnderSpinlock
  <2>4. CASE spin["lk"] /\ ~spin["qlock"]
    <3>1. S = {"lk"}
      BY <2>4 DEF Spinlocks
    <3>2. Cardinality(S) = 1
      BY <3>1, FS_Singleton
    <3> QED BY <2>1, <2>2, <2>4, <3>2 DEF CpuAt, InterruptsOffUnderSpinlock
  <2>5. CASE ~spin["lk"] /\ spin["qlock"]
    <3>1. S = {"qlock"}
      BY <2>5 DEF Spinlocks
    <3>2. Cardinality(S) = 1
      BY <3>1, FS_Singleton
    <3> QED BY <2>1, <2>2, <2>5, <3>2 DEF CpuAt, InterruptsOffUnderSpinlock
  <2>6. CASE ~spin["lk"] /\ ~spin["qlock"]
    <3>1. S = {}
      BY <2>6 DEF Spinlocks
    <3> QED BY <2>1, <2>2, <2>6, <3>1, FS_EmptySet DEF CpuAt, InterruptsOffUnderSpinlock
  <2> QED BY <2>3, <2>4, <2>5, <2>6
<1>2. IInv => InterruptsOffUnderSpinlock
  BY <1>1
<1> QED BY <1>2, Invariance, PTL

\* The phase of p when it stands at loc.
PhaseAt(p, loc) == IF OwnerAt(p, loc) THEN "in"
                   ELSE IF loc \in {"acq_test"} \cup SleepLocs THEN "waiting"
                   ELSE "out"

(* A step that leaves locked and pid alone changes the phase of the        *)
(* environment on the CPU only, as its location says.                      *)
LEMMA PhaseMove ==
  ASSUME IInv, NEW p \in Envs, NEW from \in Locs, NEW to \in Locs,
         At(p, from), Goto(p, to), UNCHANGED lockVars
  PROVE  /\ Phase[p] = PhaseAt(p, from)
         /\ Phase' = [Phase EXCEPT ![p] = PhaseAt(p, to)]
BY DEF IInv, TypeOK, At, Goto, Phase, PhaseAt, Owns, OwnerAt, Wants, lockVars

(* The sleep lock implements Exclusion with one place: every step of the   *)
(* code is a step of the abstract lock or leaves it alone.  (Liveness, the *)
(* rest of ImplementsExclusion, is model-checked.)                         *)
THEOREM Refinement == Spec => Excl!Spec
<1>1. Init => Excl!Init
  BY NoEnvAssumption DEF Init, ChanInit, Excl!Init, Phase, Owns, Wants, SleepLocs
<1>2. ASSUME IInv, [Next]_vars PROVE [Excl!Next]_Phase
  <2> USE <1>2
  <2>0. USE DEF Locs, BaseLocs, SleepLocs, WakeLocs, ExitLocs, AcquireLocs, ReleaseLocs
  <2>1. ASSUME NEW p \in Envs, AcquireCall(p) PROVE Excl!Next
    <3>1. Phase[p] = "out" /\ Phase' = [Phase EXCEPT ![p] = "waiting"]
      BY <2>1, PhaseMove DEF AcquireCall, PhaseAt, OwnerAt
    <3> QED BY <3>1 DEF Excl!Next, Excl!Request
  <2>2. ASSUME NEW p \in Envs, AcquireTest(p), ~locked PROVE Excl!Next
    <3>1. \A q \in Envs : ~Owns(q)
      BY <2>2 DEF IInv, LockInv
    <3>2. Excl!Inside = {}
      BY <3>1 DEF Excl!Inside, Phase
    <3>3. Cardinality(Excl!Inside) < 1
      BY <3>2, FS_EmptySet
    <3>4. pc[p] = "acq_test" /\ pc' = [pc EXCEPT ![p] = "acq_unlk"] /\ pid' = p
      BY <2>2 DEF AcquireTest, At, Goto
    <3>5. Phase[p] = "waiting"
      BY <3>1, <3>4 DEF Phase, Wants
    <3>6. Phase' = [Phase EXCEPT ![p] = "in"]
      BY <3>1, <3>4 DEF IInv, TypeOK, Phase, Owns, Wants
    <3>7. Excl!Cardinality(Excl!Inside) = Cardinality(Excl!Inside)
      BY DEF Excl!Cardinality, Cardinality
    <3> QED BY <3>3, <3>5, <3>6, <3>7 DEF Excl!Next, Excl!Enter
  <2>3. ASSUME NEW p \in Envs, ReleaseTest(p), locked, pid = p PROVE Excl!Next
    <3>1. /\ pc[p] = "rel_test" /\ pc' = [pc EXCEPT ![p] = "wake_q"]
          /\ pid' = NoEnv
      BY <2>3 DEF ReleaseTest, At, Goto
    <3>2. \A q \in Envs \ {p} : ~Owns(q)
      BY <2>3 DEF IInv, LockInv
    <3>3. Phase[p] = "in"
      BY <2>3, <3>1 DEF Phase, Owns
    <3>4. Phase' = [Phase EXCEPT ![p] = "out"]
      BY <3>1, <3>2, NoEnvAssumption DEF IInv, TypeOK, Phase, Owns, Wants
    <3> QED BY <3>3, <3>4 DEF Excl!Next, Excl!Leave
  <2>4. ASSUME NEW p \in Envs, NEW from \in Locs, NEW to \in Locs,
               At(p, from), Goto(p, to), UNCHANGED lockVars,
               PhaseAt(p, from) = PhaseAt(p, to)
        PROVE  Phase' = Phase
    <3>1. Phase' = [Phase EXCEPT ![p] = Phase[p]]
      BY <2>4, PhaseMove
    <3> QED BY <3>1 DEF Phase
  <2>5. ASSUME UNCHANGED <<pc, lockVars>> PROVE Phase' = Phase
    BY <2>5 DEF Phase, Owns, Wants, lockVars
  <2>6. ASSUME NEW p \in Envs, AcquireTest(p), locked PROVE Phase' = Phase
    BY <2>4, <2>6 DEF AcquireTest, PhaseAt, OwnerAt
  <2>7. ASSUME NEW p \in Envs, ReleaseTest(p), ~(locked /\ pid = p)
        PROVE  Phase' = Phase
    <3>1. pid # p
      BY <2>7, NoEnvAssumption DEF IInv, LockInv
    <3> QED BY <2>4, <2>7, <3>1 DEF ReleaseTest, PhaseAt, OwnerAt
  <2>8. ASSUME NEW p \in Envs, AcquireSleep(p) PROVE Phase' = Phase
    BY <2>4, <2>8 DEF AcquireSleep, sleep, SleepLockQ, SleepUnlock, SleepBlock,
                      SleepRelock, SleepUnlockQ, PhaseAt, OwnerAt
  <2>9. ASSUME NEW p \in Envs, ReleaseWakeup(p) PROVE Phase' = Phase
    BY <2>4, <2>9 DEF ReleaseWakeup, wakeup_all, WakeupLockQ, MoveAll,
                      WakeupUnlockQ, PhaseAt, OwnerAt
  <2>10. ASSUME NEW p \in Envs, AcquireReturn(p) \/ ReleaseReturn(p)
         PROVE  Phase' = Phase
    BY <2>4, <2>10 DEF AcquireReturn, ReleaseReturn, PhaseAt, OwnerAt
  <2>11. ASSUME NEW p \in Envs, NEW from \in {"crit", "user"}, ReleaseCall(p, from)
         PROVE  Phase' = Phase
    <3>1. pc[p] = from
      BY <2>11 DEF ReleaseCall, At
    <3>2. from = "crit" <=> pid = p
      BY <3>1, NoEnvAssumption DEF IInv, LockInv, Owns
    <3> QED BY <2>4, <2>11, <3>2 DEF ReleaseCall, PhaseAt, OwnerAt
  <2>12. ASSUME NEW p \in Envs, User(p), ~AcquireCall(p) PROVE Phase' = Phase
    <3>1. CASE env_exit(p) /\ UNCHANGED lockVars
      BY <2>4, <3>1 DEF env_exit, PhaseAt, OwnerAt
    <3> QED BY <2>11, <2>12, <3>1 DEF User
  <2>13. ASSUME NEW p \in Envs, Resume(p) \/ Clock(p) PROVE Phase' = Phase
    <3>1. CASE ExitSched(p) /\ UNCHANGED lockVars
      BY <2>4, <3>1 DEF ExitSched, PhaseAt, OwnerAt
    <3>2. CASE ~ExitSched(p)
      BY <2>5, <2>13, <3>2 DEF Resume, EnvBase, ReturnFromSched, trapret,
                              Clock, clock_interrupt_handler
    <3> QED BY <2>13, <3>1, <3>2 DEF Resume, Clock, clock_interrupt_handler
  <2>14. CASE Scheduler \/ Stopped \/ UNCHANGED vars
    BY <2>5, <2>14 DEF Scheduler, fos_scheduler, SchedSti, SchedLock, SchedRun,
                       SchedIdle, SchedBack, Stopped, vars, chanVars
  <2>15. ASSUME NEW p \in Envs, Kernel(p) PROVE [Excl!Next]_Phase
    BY <2>15, <2>2, <2>3, <2>6, <2>7, <2>8, <2>9, <2>10, <2>11 DEF Kernel
  <2> QED BY <2>1, <2>12, <2>13, <2>14, <2>15 DEF Next
<1> QED BY <1>1, <1>2, Invariance, PTL DEF Spec, Excl!Spec
============================================================================
