------------------------------ MODULE Channel ------------------------------
(***************************************************************************)
(* The ground the kernel's blocking primitives stand on, on the one CPU    *)
(* that mycpu() returns:                                                   *)
(*   - spinlocks, which nest by counting in ncli and switch interrupts off *)
(*     (kern/conc/kspinlock.c, kern/cpu/cpu.c);                            *)
(*   - the scheduler loop with its round-robin ready queue and the yield   *)
(*     made by the clock interrupt (kern/cpu/sched.c,                      *)
(*     kern/proc/user_environment.c);                                      *)
(*   - the channel: sleep, wakeup_one, wakeup_all (kern/conc/channel.c).   *)
(*                                                                         *)
(* SleepLock and KSemaphore extend this module with the code that calls    *)
(* the channel.  An environment advances one spinlock operation at a time, *)
(* and a clock interrupt may come before any step taken with interrupts    *)
(* on.  The model stops at the first panic: SleepLock has none.            *)
(* An operator that ends in _slip is a deliberately wrong form of the      *)
(* definition below it, which the properties must tell from the right one. *)
(***************************************************************************)
EXTENDS Naturals, Sequences, FiniteSets

CONSTANTS Envs,    \* the environments (processes) that share the primitive
          NoEnv    \* the null struct Env pointer, and pid 0

ASSUME NoEnvAssumption == NoEnv \notin Envs
ASSUME EnvsAssumption == IsFiniteSet(Envs)

VARIABLES
  pc,       \* [Envs -> location]: where each environment stands in kernel code
  intr,     \* [Envs -> ...]: the frame under pc that is still to be popped
  spc,      \* where the scheduler's own thread stands
  cur,      \* mycpu()->proc
  spin,     \* [{"qlock", "lk"} -> BOOLEAN]: kspinlock.locked
  ncli,     \* mycpu()->ncli
  intena,   \* mycpu()->intena
  ien,      \* FL_IF of eflags
  saved,    \* [Envs -> BOOLEAN]: the local variable intena of sched()
  status,   \* [Envs -> ...]: env_status
  ready,    \* ProcessQueues.env_ready_queues[0], the next to run first
  chan,     \* Channel.queue, the next to wake first
  panic     \* the kernel has panicked

cpuVars == <<spin, ncli, intena, ien, panic>>
queueVars == <<status, ready, chan>>
schedVars == <<spc, cur, saved, intr>>
chanVars == <<pc, cpuVars, queueVars, schedVars>>

Spinlocks == {"qlock", "lk"}

\* Locations of an environment inside the code of this module.
SleepLocs == {"sleep_q", "sleep_unlk", "sleep_block", "sleep_lk", "sleep_unq"}
WakeLocs == {"wake_q", "wake_move", "wake_unq"}
ExitLocs == {"exit_q", "exited"}
BaseLocs == {"user"} \cup SleepLocs \cup WakeLocs \cup ExitLocs

----------------------------------------------------------------------------
(* Spinlocks.  With one CPU a lock that is found taken is held by this CPU, *)
(* so acquire_kspinlock panics where it would otherwise spin for ever.      *)

Halt == panic' = TRUE /\ UNCHANGED <<spin, ncli, intena, ien>>

acquire_kspinlock(l) ==
  IF spin[l] THEN Halt
  ELSE /\ spin' = [spin EXCEPT ![l] = TRUE]
       /\ ncli' = ncli + 1
       /\ intena' = IF ncli = 0 THEN ien ELSE intena
       /\ ien' = FALSE
       /\ UNCHANGED panic

\* popcli() switches interrupts on without looking at ncli.
release_kspinlock_slip(l) ==
  IF ~spin[l] \/ ien \/ ncli = 0 THEN Halt
  ELSE /\ spin' = [spin EXCEPT ![l] = FALSE]
       /\ ncli' = ncli - 1
       /\ ien' = intena
       /\ UNCHANGED <<intena, panic>>

release_kspinlock(l) ==
  IF ~spin[l] \/ ien \/ ncli = 0 THEN Halt
  ELSE /\ spin' = [spin EXCEPT ![l] = FALSE]
       /\ ncli' = ncli - 1
       /\ ien' = (ncli = 1 /\ intena)
       /\ UNCHANGED <<intena, panic>>

----------------------------------------------------------------------------
(* Control of an environment.  It executes when the scheduler has switched *)
(* to it and no interrupt frame lies on top of its kernel stack.           *)

OnCpu(p) == spc = "switched" /\ cur = p /\ ~panic

At(p, loc) == OnCpu(p) /\ intr[p] = "none" /\ pc[p] = loc

Goto(p, loc) == pc' = [pc EXCEPT ![p] = loc]

\* sched(): the state p leaves the CPU in is st; nothing but qlock is held.
sched(p, st) ==
  /\ status' = [status EXCEPT ![p] = st]
  /\ IF ~spin["qlock"] \/ ncli # 1 \/ ien
     THEN Halt /\ UNCHANGED <<spc, saved>>
     ELSE /\ saved' = [saved EXCEPT ![p] = intena]
          /\ spc' = "back"
          /\ UNCHANGED cpuVars
  /\ UNCHANGED cur

----------------------------------------------------------------------------
(* sleep(chan, lk), called with lk held; it returns to location next with  *)
(* lk held again.                                                          *)

SleepLockQ(p) ==
  /\ At(p, "sleep_q")
  /\ acquire_kspinlock("qlock")
  /\ Goto(p, "sleep_unlk")
  /\ UNCHANGED <<queueVars, schedVars>>

\* The guard lk stays taken while its holder sleeps.
SleepUnlock_slip(p) ==
  /\ At(p, "sleep_unlk")
  /\ Goto(p, "sleep_block")
  /\ UNCHANGED <<cpuVars, queueVars, schedVars>>

SleepUnlock(p) ==
  /\ At(p, "sleep_unlk")
  /\ release_kspinlock("lk")
  /\ Goto(p, "sleep_block")
  /\ UNCHANGED <<queueVars, schedVars>>

SleepBlock(p) ==
  /\ At(p, "sleep_block")
  /\ chan' = Append(chan, p)
  /\ sched(p, "BLOCKED")
  /\ Goto(p, "sleep_lk")
  /\ UNCHANGED <<ready, intr>>

SleepRelock(p) ==
  /\ At(p, "sleep_lk")
  /\ acquire_kspinlock("lk")
  /\ Goto(p, "sleep_unq")
  /\ UNCHANGED <<queueVars, schedVars>>

SleepUnlockQ(p, next) ==
  /\ At(p, "sleep_unq")
  /\ release_kspinlock("qlock")
  /\ Goto(p, next)
  /\ UNCHANGED <<queueVars, schedVars>>

\* lk is released before qlock is taken.
sleep_slip(p, next) ==
  \/ /\ At(p, "sleep_q")
     /\ release_kspinlock("lk")
     /\ Goto(p, "sleep_unlk")
     /\ UNCHANGED <<queueVars, schedVars>>
  \/ /\ At(p, "sleep_unlk")
     /\ acquire_kspinlock("qlock")
     /\ Goto(p, "sleep_block")
     /\ UNCHANGED <<queueVars, schedVars>>
  \/ SleepBlock(p) \/ SleepRelock(p) \/ SleepUnlockQ(p, next)

sleep(p, next) ==
  \/ SleepLockQ(p) \/ SleepUnlock(p) \/ SleepBlock(p)
  \/ SleepRelock(p) \/ SleepUnlockQ(p, next)

----------------------------------------------------------------------------
(* wakeup_one(chan) and wakeup_all(chan), returning to location next.      *)

\* sched_insert_ready of every environment of s, in that order.
sched_insert_ready(s) ==
  /\ status' = [e \in Envs |->
                  IF \E i \in DOMAIN s : s[i] = e THEN "READY" ELSE status[e]]
  /\ ready' = ready \o s

WakeupLockQ(p) ==
  /\ At(p, "wake_q")
  /\ acquire_kspinlock("qlock")
  /\ Goto(p, "wake_move")
  /\ UNCHANGED <<queueVars, schedVars>>

WakeupUnlockQ(p, next) ==
  /\ At(p, "wake_unq")
  /\ release_kspinlock("qlock")
  /\ Goto(p, next)
  /\ UNCHANGED <<queueVars, schedVars>>

\* The woken environments are not taken out of the channel.
MoveAll_slip(p) ==
  /\ At(p, "wake_move")
  /\ sched_insert_ready(chan)
  /\ Goto(p, "wake_unq")
  /\ UNCHANGED <<chan, cpuVars, schedVars>>

MoveAll(p) ==
  /\ At(p, "wake_move")
  /\ sched_insert_ready(chan)
  /\ chan' = <<>>
  /\ Goto(p, "wake_unq")
  /\ UNCHANGED <<cpuVars, schedVars>>

\* The last to come is the first to be woken.
MoveOne_slip(p) ==
  /\ At(p, "wake_move")
  /\ IF chan = <<>> THEN UNCHANGED queueVars
     ELSE /\ sched_insert_ready(<<chan[Len(chan)]>>)
          /\ chan' = SubSeq(chan, 1, Len(chan) - 1)
  /\ Goto(p, "wake_unq")
  /\ UNCHANGED <<cpuVars, schedVars>>

MoveOne(p) ==
  /\ At(p, "wake_move")
  /\ IF chan = <<>> THEN UNCHANGED queueVars
     ELSE sched_insert_ready(<<Head(chan)>>) /\ chan' = Tail(chan)
  /\ Goto(p, "wake_unq")
  /\ UNCHANGED <<cpuVars, schedVars>>

wakeup_all(p, next) == WakeupLockQ(p) \/ MoveAll(p) \/ WakeupUnlockQ(p, next)
wakeup_one(p, next) == WakeupLockQ(p) \/ MoveOne(p) \/ WakeupUnlockQ(p, next)

----------------------------------------------------------------------------
(* env_exit(): qlock is taken, the environment joins the exit queue, and   *)
(* sched() is never returned from.                                         *)

env_exit(p) ==
  /\ At(p, "user")
  /\ acquire_kspinlock("qlock")
  /\ Goto(p, "exit_q")
  /\ UNCHANGED <<queueVars, schedVars>>

ExitSched(p) ==
  /\ At(p, "exit_q")
  /\ sched(p, "EXIT")
  /\ Goto(p, "exited")
  /\ UNCHANGED <<ready, chan, intr>>

----------------------------------------------------------------------------
(* The clock interrupt.  The gate switches interrupts off, so the handler  *)
(* runs without a break to the sched() of yield(): qlock is taken with     *)
(* intena false.  When p is switched to again, yield() releases qlock and  *)
(* trapret restores the interrupted eflags.                                *)

clock_interrupt_handler(p) ==
  /\ OnCpu(p) /\ ien
  /\ IF spin["qlock"] \/ ncli # 0
     THEN Halt /\ UNCHANGED <<status, schedVars>>
     ELSE /\ spin' = [spin EXCEPT !["qlock"] = TRUE]
          /\ ncli' = 1
          /\ intena' = FALSE
          /\ ien' = FALSE
          /\ status' = [status EXCEPT ![p] = "READY"]
          /\ saved' = [saved EXCEPT ![p] = FALSE]
          /\ spc' = "back"
          /\ intr' = [intr EXCEPT ![p] = "yield"]
          /\ UNCHANGED <<cur, panic>>
  /\ UNCHANGED <<pc, ready, chan>>

\* The tail of yield(), and env_start() when p runs for the first time.
ReturnFromSched(p) ==
  /\ OnCpu(p) /\ intr[p] \in {"start", "yield"}
  /\ release_kspinlock("qlock")
  /\ intr' = [intr EXCEPT ![p] = "trapret"]
  /\ UNCHANGED <<pc, queueVars, spc, cur, saved>>

trapret(p) ==
  /\ OnCpu(p) /\ intr[p] = "trapret"
  /\ ien' = TRUE
  /\ intr' = [intr EXCEPT ![p] = "none"]
  /\ UNCHANGED <<pc, queueVars, spc, cur, saved, spin, ncli, intena, panic>>

----------------------------------------------------------------------------
(* fos_scheduler() with fos_scheduler_RR().                                *)

SchedSti ==
  /\ spc = "sti" /\ ~panic
  /\ ien' = TRUE
  /\ spc' = "lock"
  /\ UNCHANGED <<pc, queueVars, cur, saved, intr, spin, ncli, intena, panic>>

SchedLock ==
  /\ spc = "lock" /\ ~panic
  /\ acquire_kspinlock("qlock")
  /\ spc' = "next"
  /\ UNCHANGED <<pc, queueVars, cur, saved, intr>>

\* fos_scheduler_RR: the queue the next environment is taken from.
fos_scheduler_RR == IF cur = NoEnv THEN ready ELSE Append(ready, cur)

SchedRun ==
  /\ spc = "next" /\ ~panic
  /\ fos_scheduler_RR # <<>>
  /\ LET next == Head(fos_scheduler_RR)
     IN  /\ cur' = next
         /\ ready' = Tail(fos_scheduler_RR)
         /\ status' = [status EXCEPT ![next] = "RUNNING"]
         /\ intena' = IF intr[next] = "start" THEN intena ELSE saved[next]
  /\ spc' = "switched"
  /\ UNCHANGED <<pc, chan, saved, intr, spin, ncli, ien, panic>>

\* No environment is ready: look for blocked ones, then loop or leave.
SchedIdle ==
  /\ spc = "next" /\ ~panic
  /\ fos_scheduler_RR = <<>>
  /\ release_kspinlock("qlock")
  /\ spc' = IF \E e \in Envs : status[e] = "BLOCKED" THEN "sti" ELSE "prompt"
  /\ UNCHANGED <<pc, queueVars, cur, saved, intr>>

SchedBack ==
  /\ spc = "back" /\ ~panic
  /\ IF ~spin["qlock"] \/ status[cur] = "RUNNING"
     THEN Halt /\ UNCHANGED <<spc, cur>>
     ELSE /\ cur' = IF status[cur] = "READY" THEN cur ELSE NoEnv
          /\ spc' = "next"
          /\ UNCHANGED cpuVars
  /\ UNCHANGED <<pc, queueVars, saved, intr>>

fos_scheduler == SchedSti \/ SchedLock \/ SchedRun \/ SchedIdle \/ SchedBack

\* What every environment can do whatever primitive it uses.
EnvBase(p) == ExitSched(p) \/ ReturnFromSched(p) \/ trapret(p)

----------------------------------------------------------------------------
ChanInit ==
  /\ pc = [p \in Envs |-> "user"]
  /\ intr = [p \in Envs |-> "start"]
  /\ spc = "sti"
  /\ cur = NoEnv
  /\ spin = [l \in Spinlocks |-> FALSE]
  /\ ncli = 0
  /\ intena = FALSE
  /\ ien = FALSE
  /\ saved = [p \in Envs |-> FALSE]
  /\ status = [p \in Envs |-> "READY"]
  /\ ready \in {s \in [1..Cardinality(Envs) -> Envs] :
                  \A p \in Envs : \E i \in DOMAIN s : s[i] = p}
  /\ chan = <<>>
  /\ panic = FALSE

CpuTypeOK ==
  /\ spin \in [Spinlocks -> BOOLEAN]
  /\ ncli \in Nat
  /\ intena \in BOOLEAN
  /\ ien \in BOOLEAN
  /\ panic \in BOOLEAN

ChanTypeOK ==
  /\ CpuTypeOK
  /\ intr \in [Envs -> {"none", "start", "yield", "trapret"}]
  /\ spc \in {"sti", "lock", "next", "switched", "back", "prompt"}
  /\ cur \in Envs \cup {NoEnv}
  /\ saved \in [Envs -> BOOLEAN]
  /\ status \in [Envs -> {"READY", "RUNNING", "BLOCKED", "EXIT"}]
  /\ ready \in Seq(Envs)
  /\ chan \in Seq(Envs)
============================================================================
