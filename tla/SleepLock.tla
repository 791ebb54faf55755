----------------------------- MODULE SleepLock -----------------------------
(***************************************************************************)
(* The sleep lock of kern/conc/sleeplock.c: a lock whose contenders leave  *)
(* the CPU and wait on a channel.  The guard lk protects locked and pid.   *)
(*                                                                         *)
(* Location "crit" is the caller's critical section; it runs with          *)
(* interrupts on, so the holder is preempted while it owns the lock.       *)
(* Any environment may call release_sleeplock, its owner or not.           *)
(***************************************************************************)
EXTENDS Channel

VARIABLES locked, \* sleeplock.locked
          pid     \* sleeplock.pid

lockVars == <<locked, pid>>
vars == <<chanVars, lockVars>>

AcquireLocs == {"acq_test", "acq_unlk"}
ReleaseLocs == {"rel_test", "rel_unlk"}
Locs == BaseLocs \cup AcquireLocs \cup ReleaseLocs \cup {"crit"}

----------------------------------------------------------------------------
(* acquire_sleeplock()                                                     *)

AcquireCall(p) ==
  /\ At(p, "user")
  /\ acquire_kspinlock("lk")
  /\ Goto(p, "acq_test")
  /\ UNCHANGED <<queueVars, schedVars, lockVars>>

\* The owner is not recorded.
AcquireTest_slip(p) ==
  /\ At(p, "acq_test")
  /\ IF locked
     THEN Goto(p, "sleep_q") /\ UNCHANGED lockVars
     ELSE /\ locked' = TRUE
          /\ Goto(p, "acq_unlk")
          /\ UNCHANGED pid
  /\ UNCHANGED <<cpuVars, queueVars, schedVars>>

\* One evaluation of the while condition.
AcquireTest(p) ==
  /\ At(p, "acq_test")
  /\ IF locked
     THEN Goto(p, "sleep_q") /\ UNCHANGED lockVars
     ELSE /\ locked' = TRUE
          /\ pid' = p
          /\ Goto(p, "acq_unlk")
  /\ UNCHANGED <<cpuVars, queueVars, schedVars>>

\* The condition is tested once, by an if: whoever is woken takes the lock.
AcquireSleep_slip(p) ==
  /\ sleep(p, "acq_unlk")
  /\ IF pc[p] = "sleep_unq" THEN locked' = TRUE /\ pid' = p
                            ELSE UNCHANGED lockVars

AcquireSleep(p) == sleep(p, "acq_test") /\ UNCHANGED lockVars

AcquireReturn(p) ==
  /\ At(p, "acq_unlk")
  /\ release_kspinlock("lk")
  /\ Goto(p, "crit")
  /\ UNCHANGED <<queueVars, schedVars, lockVars>>

----------------------------------------------------------------------------
(* release_sleeplock()                                                     *)

ReleaseCall(p, from) ==
  /\ At(p, from)
  /\ acquire_kspinlock("lk")
  /\ Goto(p, "rel_test")
  /\ UNCHANGED <<queueVars, schedVars, lockVars>>

\* The lock is freed and nobody is woken.
ReleaseTestSilent_slip(p) ==
  /\ At(p, "rel_test")
  /\ IF locked /\ pid = p
     THEN pid' = NoEnv /\ locked' = FALSE
     ELSE UNCHANGED lockVars
  /\ Goto(p, "rel_unlk")
  /\ UNCHANGED <<cpuVars, queueVars, schedVars>>

ReleaseTest(p) ==
  /\ At(p, "rel_test")
  /\ IF locked /\ pid = p
     THEN /\ pid' = NoEnv
          /\ locked' = FALSE
          /\ Goto(p, "wake_q")
     ELSE Goto(p, "rel_unlk") /\ UNCHANGED lockVars
  /\ UNCHANGED <<cpuVars, queueVars, schedVars>>

ReleaseWakeup(p) == wakeup_all(p, "rel_unlk") /\ UNCHANGED lockVars

ReleaseReturn(p) ==
  /\ At(p, "rel_unlk")
  /\ release_kspinlock("lk")
  /\ Goto(p, "user")
  /\ UNCHANGED <<queueVars, schedVars, lockVars>>

----------------------------------------------------------------------------
Init == /\ ChanInit
        /\ locked = FALSE
        /\ pid = NoEnv

\* What p does once it is inside the kernel, or inside its critical section.
Kernel(p) ==
  \/ AcquireTest(p) \/ AcquireSleep(p) \/ AcquireReturn(p)
  \/ ReleaseCall(p, "crit")
  \/ ReleaseTest(p) \/ ReleaseWakeup(p) \/ ReleaseReturn(p)

\* What the user program chooses to do, or not to do.
User(p) ==
  \/ AcquireCall(p)
  \/ ReleaseCall(p, "user")
  \/ env_exit(p) /\ UNCHANGED lockVars

Resume(p) == EnvBase(p) /\ UNCHANGED lockVars
Clock(p) == clock_interrupt_handler(p) /\ UNCHANGED lockVars
Scheduler == fos_scheduler /\ UNCHANGED lockVars

\* The prompt owns the machine, or the kernel has panicked.
Stopped == (spc = "prompt" \/ panic) /\ UNCHANGED vars

Next == \/ \E p \in Envs : Kernel(p) \/ User(p) \/ Resume(p) \/ Clock(p)
        \/ Scheduler
        \/ Stopped

Spec == Init /\ [][Next]_vars

(***************************************************************************)
(* Fairness.  The scheduler's thread never stops by itself; the clock      *)
(* keeps interrupting; and an environment that is switched to again and    *)
(* again executes something before its quantum is over (strong fairness,   *)
(* since each preemption disables its step).  What the user program calls  *)
(* is up to it, except that a critical section ends.                       *)
(***************************************************************************)
Fairness == /\ WF_vars(Scheduler)
            /\ \A p \in Envs : /\ SF_vars(Clock(p)) /\ WF_vars(Resume(p))
                               /\ SF_vars(Kernel(p))

FairSpec == Spec /\ Fairness

----------------------------------------------------------------------------
(* The types of the variables of struct sleeplock and of its channel.      *)
TypeOK == /\ ChanTypeOK
          /\ pc \in [Envs -> Locs]
          /\ locked \in BOOLEAN
          /\ pid \in Envs \cup {NoEnv}

(* No check of the spinlocks, of sched() or of the scheduler ever fails:   *)
(* acquire_kspinlock never finds its lock held, release_kspinlock never    *)
(* finds it free, and sched() is entered with ncli = 1 (kspinlock.c:30,    *)
(* kspinlock.c:62, user_environment.c:735-747, sched.c:105-120).           *)
NoPanic == ~panic

\* The environments that own the lock: from the assignment in
\* acquire_sleeplock to the assignment in release_sleeplock.
Owns(p) == pc[p] \in {"acq_unlk", "crit"} \/ (pc[p] = "rel_test" /\ pid = p)

(* Two environments are never both between the return of acquire_sleeplock *)
(* and their call of release_sleeplock, although each is preempted there   *)
(* at will, and although others release a lock they do not own.            *)
MutualExclusion ==
  \A p, q \in Envs : pc[p] = "crit" /\ pc[q] = "crit" => p = q

(* No wakeup is lost: whenever an environment waits in the channel, the    *)
(* lock is taken, so that its release is still to come, or the environment *)
(* on the CPU has just freed it and is on its way to wakeup_all.           *)
NoLostWakeup ==
  chan # <<>> => locked \/ (cur # NoEnv /\ pc[cur] \in {"wake_q", "wake_move"})

(* Queues and status agree: an environment sits in the channel exactly     *)
(* when it is BLOCKED, in the ready queue or on its way back to it exactly *)
(* when it is READY, and never twice.                                      *)
InQueue(s, p) == {i \in DOMAIN s : s[i] = p}
QueuesMatchStatus ==
  \A p \in Envs :
    /\ Cardinality(InQueue(chan, p)) = IF status[p] = "BLOCKED" THEN 1 ELSE 0
    /\ Cardinality(InQueue(ready, p))
         = IF status[p] = "READY" /\ cur # p THEN 1 ELSE 0
    /\ status[p] = "RUNNING" => cur = p

(* Interrupts are on only when no spinlock is held, and ncli counts the    *)
(* spinlocks held (the comment above pushcli, cpu.c:77-79).                *)
InterruptsOffUnderSpinlock ==
  /\ ncli = Cardinality({l \in Spinlocks : spin[l]})
  /\ ien => ncli = 0

(* An environment that blocks on the lock is woken again.                  *)
BlockedIsWoken ==
  \A p \in Envs : status[p] = "BLOCKED" ~> status[p] # "BLOCKED"

Wants(p) == pc[p] \in {"acq_test"} \cup SleepLocs

(* The sleep lock implements Exclusion with one place: an environment      *)
(* waits from its call of acquire_sleeplock to the assignment of locked,   *)
(* and is inside until release_sleeplock clears it.                        *)
Phase == [p \in Envs |-> IF Owns(p) THEN "in"
                         ELSE IF Wants(p) THEN "waiting" ELSE "out"]
Excl == INSTANCE Exclusion WITH K <- 1, phase <- Phase
ImplementsExclusion == Excl!FairSpec
============================================================================
