--------------------------- MODULE ChannelProofs ---------------------------
(***************************************************************************)
(* What holds of the spinlocks, the scheduler loop and the channel under   *)
(* whatever primitive is built on them, for any finite set of              *)
(* environments.  SleepLockProofs and KSemaphoreProofs add to it what is   *)
(* true of their own fields.                                               *)
(*                                                                         *)
(* The heart of ChanInv is CpuInv: which spinlocks are held is determined  *)
(* by where the one thread on the CPU stands, so every thread off the CPU  *)
(* stands where it holds none (EnvInv).  Hence no check of a spinlock      *)
(* fails and nobody interferes with the holder of qlock: each environment  *)
(* is in the queue of its status, once (QueueInv, PlaceInv).               *)
(***************************************************************************)
EXTENDS Channel, QueueLemmas

----------------------------------------------------------------------------
(* The inductive invariant.                                                *)

\* The locations of a primitive's own code, those of the sleep lock and of
\* the semaphore: outside its calls, and inside where lk is held.
CallerLocs == {"user", "crit"}
GuardLocs == {"acq_test", "acq_unlk", "rel_test", "rel_unlk",
              "wait_dec", "wait_unlk", "sig_inc", "sig_unlk"}
AllLocs == BaseLocs \cup CallerLocs \cup GuardLocs

\* Where an environment holds the guard lk, and where it holds qlock.
LkLocs == GuardLocs \cup {"wake_q", "wake_move", "wake_unq",
                          "sleep_q", "sleep_unlk", "sleep_unq"}
QLocs == {"sleep_unlk", "sleep_block", "sleep_lk", "sleep_unq",
          "wake_move", "wake_unq", "exit_q"}

HasLk == spc = "switched" /\ intr[cur] = "none" /\ pc[cur] \in LkLocs
HasQ == \/ spc \in {"next", "back"}
        \/ spc = "switched" /\ \/ intr[cur] \in {"start", "yield"}
                               \/ intr[cur] = "none" /\ pc[cur] \in QLocs

\* The state of the CPU when lk is held iff a, and qlock iff b.
CpuAt(a, b) == /\ ~panic
               /\ spin["lk"] <=> a
               /\ spin["qlock"] <=> b
               /\ ncli = (IF a THEN 1 ELSE 0) + (IF b THEN 1 ELSE 0)
               /\ ien => ncli = 0

\* The spinlocks held, ncli and the interrupt flag follow from where the
\* thread on the CPU stands.
CpuInv == CpuAt(HasLk, HasQ)

\* The scheduler's thread knows who was running, and how it left.
SchedInv == /\ spc \in {"sti", "lock", "prompt"} => cur = NoEnv
            /\ spc \in {"switched", "back"} => cur \in Envs
            /\ spc = "switched" => status[cur] = "RUNNING"
            /\ spc = "back" => status[cur] # "RUNNING"
            /\ spc = "next" /\ cur # NoEnv => status[cur] = "READY"

OffCpu(p) == spc # "switched" \/ cur # p

\* Off the CPU an environment is preempted outside any spinlock, or inside
\* the sched() of sleep(), or gone.
EnvInv ==
  \A p \in Envs :
    /\ intr[p] # "none" => pc[p] \in {"user", "crit"}
    /\ OffCpu(p) => \/ intr[p] \in {"start", "yield"}
                    \/ intr[p] = "none" /\ pc[p] \in {"sleep_lk", "exited"}
    /\ pc[p] = "exited" => status[p] = "EXIT"

\* Nobody is queued twice, or in the wrong queue.
QueueInv ==
  /\ Distinct(ready) /\ Distinct(chan)
  /\ \A i \in DOMAIN ready : status[ready[i]] = "READY" /\ ready[i] # cur
  /\ \A i \in DOMAIN chan : status[chan[i]] = "BLOCKED" /\ pc[chan[i]] = "sleep_lk"

\* Nobody is missing from the queue of its status.
PlaceInv ==
  \A p \in Envs :
    /\ status[p] = "READY" /\ cur # p => \E i \in DOMAIN ready : ready[i] = p
    /\ status[p] = "BLOCKED" => \E i \in DOMAIN chan : chan[i] = p
    /\ status[p] = "RUNNING" => spc = "switched" /\ cur = p

ChanInv == /\ ChanTypeOK
           /\ pc \in [Envs -> AllLocs]
           /\ CpuInv
           /\ SchedInv
           /\ EnvInv
           /\ QueueInv
           /\ PlaceInv

----------------------------------------------------------------------------
(* Off the CPU, nobody stands where a spinlock is held.                    *)
LEMMA OffCpuLocs ==
  ASSUME ChanInv, NEW p \in Envs, OffCpu(p)
  PROVE  pc[p] \in {"user", "crit", "sleep_lk", "exited"}
BY DEF ChanInv, EnvInv

----------------------------------------------------------------------------
(* What the operations on spinlocks, and sched(), do to the CPU's state.   *)

(* acquire_kspinlock keeps the types of the CPU's state.                   *)
LEMMA AcquireType ==
  ASSUME CpuTypeOK, NEW l \in Spinlocks, acquire_kspinlock(l)
  PROVE  CpuTypeOK'
<1>1. CASE spin[l]
  BY <1>1 DEF CpuTypeOK, acquire_kspinlock, Halt
<1>2. CASE ~spin[l]
  <2>1. spin' \in [Spinlocks -> BOOLEAN]
    BY <1>2 DEF CpuTypeOK, acquire_kspinlock
  <2>2. ncli' \in Nat
    BY <1>2 DEF CpuTypeOK, acquire_kspinlock
  <2>3. intena' \in BOOLEAN /\ ien' \in BOOLEAN /\ panic' \in BOOLEAN
    BY <1>2 DEF CpuTypeOK, acquire_kspinlock
  <2> QED BY <2>1, <2>2, <2>3 DEF CpuTypeOK
<1> QED BY <1>1, <1>2

(* release_kspinlock keeps the types of the CPU's state.                   *)
LEMMA ReleaseType ==
  ASSUME CpuTypeOK, NEW l \in Spinlocks, release_kspinlock(l)
  PROVE  CpuTypeOK'
<1> DEFINE bad == ~spin[l] \/ ien \/ ncli = 0
<1>1. CASE bad
  BY <1>1 DEF CpuTypeOK, release_kspinlock, Halt
<1>2. CASE ~bad
  <2>1. spin' \in [Spinlocks -> BOOLEAN]
    BY <1>2 DEF CpuTypeOK, release_kspinlock
  <2>4. ncli' \in Nat
    BY <1>2 DEF CpuTypeOK, release_kspinlock
  <2>2. ien' \in BOOLEAN
    BY <1>2, Zenon DEF CpuTypeOK, release_kspinlock
  <2>3. intena' \in BOOLEAN /\ panic' \in BOOLEAN
    BY <1>2 DEF CpuTypeOK, release_kspinlock
  <2> QED BY <2>1, <2>2, <2>3, <2>4 DEF CpuTypeOK
<1> QED BY <1>1, <1>2

(* A free spinlock is taken.                                               *)
LEMMA AcquireLk ==
  ASSUME CpuTypeOK, NEW b \in BOOLEAN, CpuAt(FALSE, b), acquire_kspinlock("lk")
  PROVE  CpuAt(TRUE, b)'
BY DEF CpuTypeOK, CpuAt, acquire_kspinlock, Spinlocks

(* The same for qlock.                                                     *)
LEMMA AcquireQ ==
  ASSUME CpuTypeOK, NEW a \in BOOLEAN, CpuAt(a, FALSE), acquire_kspinlock("qlock")
  PROVE  CpuAt(a, TRUE)'
BY DEF CpuTypeOK, CpuAt, acquire_kspinlock, Spinlocks

(* A held spinlock is released.                                            *)
LEMMA ReleaseLk ==
  ASSUME CpuTypeOK, NEW b \in BOOLEAN, CpuAt(TRUE, b), release_kspinlock("lk")
  PROVE  CpuAt(FALSE, b)'
BY DEF CpuTypeOK, CpuAt, release_kspinlock, Spinlocks

(* The same for qlock.                                                     *)
LEMMA ReleaseQ ==
  ASSUME CpuTypeOK, NEW a \in BOOLEAN, CpuAt(a, TRUE), release_kspinlock("qlock")
  PROVE  CpuAt(a, FALSE)'
BY DEF CpuTypeOK, CpuAt, release_kspinlock, Spinlocks

----------------------------------------------------------------------------
(* Steps of the environment on the CPU that leave the queues and the       *)
(* scheduler alone.                                                        *)

Move(p, from, to) == /\ At(p, from)
                     /\ Goto(p, to)
                     /\ UNCHANGED <<queueVars, schedVars>>

\* The step takes or drops the spinlock that from and to differ in.
Locks(from, to) ==
  \/ /\ UNCHANGED cpuVars
     /\ from \in LkLocs <=> to \in LkLocs
     /\ from \in QLocs <=> to \in QLocs
  \/ /\ acquire_kspinlock("lk")
     /\ from \notin LkLocs /\ to \in LkLocs
     /\ from \in QLocs <=> to \in QLocs
  \/ /\ release_kspinlock("lk")
     /\ from \in LkLocs /\ to \notin LkLocs
     /\ from \in QLocs <=> to \in QLocs
  \/ /\ acquire_kspinlock("qlock")
     /\ from \notin QLocs /\ to \in QLocs
     /\ from \in LkLocs <=> to \in LkLocs
  \/ /\ release_kspinlock("qlock")
     /\ from \in QLocs /\ to \notin QLocs
     /\ from \in LkLocs <=> to \in LkLocs

(* Before and after such a step, the spinlocks held are those of the       *)
(* location.                                                               *)
LEMMA MoveHeld ==
  ASSUME ChanInv, NEW p \in Envs, NEW from \in AllLocs, NEW to \in AllLocs,
         Move(p, from, to)
  PROVE  /\ HasLk <=> from \in LkLocs
         /\ HasQ <=> from \in QLocs
         /\ HasLk' <=> to \in LkLocs
         /\ HasQ' <=> to \in QLocs
BY DEF Move, At, OnCpu, Goto, queueVars, schedVars, ChanInv, HasLk, HasQ

(* The CPU's state follows p through a step that takes or drops a lock.    *)
LEMMA MoveCpu ==
  ASSUME ChanInv, NEW p \in Envs, NEW from \in AllLocs, NEW to \in AllLocs,
         Move(p, from, to), Locks(from, to)
  PROVE  CpuTypeOK' /\ CpuInv'
<1> DEFINE a == from \in LkLocs
           b == from \in QLocs
<1>1. CpuAt(a, b) /\ CpuTypeOK
  BY MoveHeld DEF ChanInv, CpuInv, CpuAt, ChanTypeOK
<1>2. a \in BOOLEAN /\ b \in BOOLEAN /\ {"lk", "qlock"} \subseteq Spinlocks
  BY DEF Spinlocks
<1>3. CpuTypeOK' /\ CpuAt(to \in LkLocs, to \in QLocs)'
  <2>1. CASE UNCHANGED cpuVars /\ (a <=> to \in LkLocs) /\ (b <=> to \in QLocs)
    BY <1>1, <2>1 DEF CpuAt, CpuTypeOK, cpuVars
  <2>2. CASE acquire_kspinlock("lk") /\ ~a /\ to \in LkLocs /\ (b <=> to \in QLocs)
    BY <1>1, <1>2, <2>2, AcquireLk, AcquireType DEF CpuAt
  <2>3. CASE release_kspinlock("lk") /\ a /\ to \notin LkLocs /\ (b <=> to \in QLocs)
    BY <1>1, <1>2, <2>3, ReleaseLk, ReleaseType DEF CpuAt
  <2>4. CASE acquire_kspinlock("qlock") /\ ~b /\ to \in QLocs /\ (a <=> to \in LkLocs)
    BY <1>1, <1>2, <2>4, AcquireQ, AcquireType DEF CpuAt
  <2>5. CASE release_kspinlock("qlock") /\ b /\ to \notin QLocs /\ (a <=> to \in LkLocs)
    BY <1>1, <1>2, <2>5, ReleaseQ, ReleaseType DEF CpuAt
  <2> QED BY <2>1, <2>2, <2>3, <2>4, <2>5 DEF Locks
<1> QED BY <1>3, MoveHeld DEF CpuInv, CpuAt

(* A step of the environment on the CPU that at most takes or drops a      *)
(* spinlock keeps the invariant.                                           *)
LEMMA MoveStep ==
  ASSUME ChanInv, NEW p \in Envs, NEW from \in AllLocs,
         NEW to \in AllLocs \ {"exited"},
         Move(p, from, to), Locks(from, to)
  PROVE  ChanInv'
<1>1. CpuTypeOK' /\ CpuInv'
  BY MoveCpu
<1> USE DEF Move, At, OnCpu, Goto, queueVars, schedVars
<1>2. spc = "switched" /\ cur = p /\ intr[p] = "none" /\ status[p] = "RUNNING"
  BY DEF ChanInv, SchedInv
<1>3. ChanTypeOK' /\ pc' \in [Envs -> AllLocs]
  BY <1>1 DEF ChanInv, ChanTypeOK
<1>4. SchedInv'
  BY DEF ChanInv, SchedInv
<1>5. EnvInv'
  BY <1>2 DEF ChanInv, EnvInv, OffCpu
<1>6. QueueInv'
  BY <1>2 DEF ChanInv, QueueInv, Distinct, ChanTypeOK
<1>7. PlaceInv'
  BY DEF ChanInv, PlaceInv
<1> QED BY <1>1, <1>3, <1>4, <1>5, <1>6, <1>7 DEF ChanInv

(* The parts of sleep and of the wakeups, and of env_exit, that only take  *)
(* or release a spinlock keep the invariant, whatever they return to.      *)
LEMMA SpinStep ==
  ASSUME ChanInv, NEW p \in Envs, NEW next \in GuardLocs,
         \/ SleepLockQ(p) \/ SleepUnlock(p) \/ SleepRelock(p)
         \/ SleepUnlockQ(p, next)
         \/ WakeupLockQ(p) \/ WakeupUnlockQ(p, next)
         \/ env_exit(p)
  PROVE  ChanInv'
<1> USE DEF LkLocs, QLocs, GuardLocs, CallerLocs, AllLocs, BaseLocs, SleepLocs,
            WakeLocs, ExitLocs, Locks
<1>1. CASE SleepLockQ(p)
  <2>1. Move(p, "sleep_q", "sleep_unlk") /\ acquire_kspinlock("qlock")
    BY <1>1 DEF SleepLockQ, Move
  <2> QED BY <2>1, MoveStep
<1>2. CASE SleepUnlock(p)
  <2>1. Move(p, "sleep_unlk", "sleep_block") /\ release_kspinlock("lk")
    BY <1>2 DEF SleepUnlock, Move
  <2> QED BY <2>1, MoveStep
<1>3. CASE SleepRelock(p)
  <2>1. Move(p, "sleep_lk", "sleep_unq") /\ acquire_kspinlock("lk")
    BY <1>3 DEF SleepRelock, Move
  <2> QED BY <2>1, MoveStep
<1>4. CASE SleepUnlockQ(p, next)
  <2>1. Move(p, "sleep_unq", next) /\ release_kspinlock("qlock")
    BY <1>4 DEF SleepUnlockQ, Move
  <2> QED BY <2>1, MoveStep
<1>5. CASE WakeupLockQ(p)
  <2>1. Move(p, "wake_q", "wake_move") /\ acquire_kspinlock("qlock")
    BY <1>5 DEF WakeupLockQ, Move
  <2> QED BY <2>1, MoveStep
<1>6. CASE WakeupUnlockQ(p, next)
  <2>1. Move(p, "wake_unq", next) /\ release_kspinlock("qlock")
    BY <1>6 DEF WakeupUnlockQ, Move
  <2> QED BY <2>1, MoveStep
<1>7. CASE env_exit(p)
  <2>1. Move(p, "user", "exit_q") /\ acquire_kspinlock("qlock")
    BY <1>7 DEF env_exit, Move
  <2> QED BY <2>1, MoveStep
<1> QED BY <1>1, <1>2, <1>3, <1>4, <1>5, <1>6, <1>7

----------------------------------------------------------------------------
(* The wakeups.                                                            *)

(* Whoever has qlock and moves the first part s of the channel to the      *)
(* ready queue keeps the invariant.                                        *)
LEMMA WokenStep ==
  ASSUME ChanInv, NEW p \in Envs, NEW s \in Seq(Envs), NEW t \in Seq(Envs),
         At(p, "wake_move"), Goto(p, "wake_unq"), UNCHANGED <<cpuVars, schedVars>>,
         chan = s \o t, sched_insert_ready(s), chan' = t
  PROVE  ChanInv'
<1>1. /\ spc = "switched" /\ cur = p /\ intr[p] = "none"
      /\ pc[p] = "wake_move" /\ status[p] = "RUNNING"
  BY DEF ChanInv, SchedInv, At, OnCpu
<1>2. pc' = [pc EXCEPT ![p] = "wake_unq"] /\ pc' \in [Envs -> AllLocs]
  BY DEF Goto, ChanInv, AllLocs, BaseLocs, WakeLocs
<1>3. /\ ready' = ready \o s
      /\ status' = [e \in Envs |-> IF \E i \in DOMAIN s : s[i] = e
                                   THEN "READY" ELSE status[e]]
  BY DEF sched_insert_ready
<1>4. ready \in Seq(Envs) /\ status \in [Envs -> {"READY", "RUNNING", "BLOCKED", "EXIT"}]
  BY DEF ChanInv, ChanTypeOK
<1>5. /\ DOMAIN chan = 1 .. (Len(s) + Len(t))
      /\ \A i \in 1 .. Len(s) : i \in DOMAIN chan /\ chan[i] = s[i] /\ s[i] \in Envs
      /\ \A i \in 1 .. Len(t) : /\ i + Len(s) \in DOMAIN chan
                                /\ chan[i + Len(s)] = t[i] /\ t[i] \in Envs
      /\ DOMAIN s = 1 .. Len(s) /\ DOMAIN t = 1 .. Len(t)
  OBVIOUS
<1>6. /\ DOMAIN ready' = 1 .. (Len(ready) + Len(s))
      /\ \A i \in 1 .. Len(ready) : ready'[i] = ready[i] /\ ready[i] \in Envs
      /\ \A i \in 1 .. Len(s) : i + Len(ready) \in DOMAIN ready' /\ ready'[i + Len(ready)] = s[i]
      /\ \A i \in DOMAIN ready' : i \notin 1 .. Len(ready) => i - Len(ready) \in 1 .. Len(s)
      /\ DOMAIN ready = 1 .. Len(ready)
      /\ Len(ready) \in Nat /\ Len(s) \in Nat /\ Len(t) \in Nat
  BY <1>3, <1>4
<1>7. /\ \A i \in DOMAIN chan : status[chan[i]] = "BLOCKED" /\ pc[chan[i]] = "sleep_lk"
      /\ \A i \in DOMAIN ready : status[ready[i]] = "READY" /\ ready[i] # cur
      /\ Distinct(chan) /\ Distinct(ready)
  BY DEF ChanInv, QueueInv
<1>8. \A i \in DOMAIN s : status[s[i]] = "BLOCKED" /\ s[i] # p
  BY <1>1, <1>5, <1>7
<1>9. \A i \in DOMAIN t : status'[t[i]] = "BLOCKED" /\ pc'[t[i]] = "sleep_lk"
  <2> TAKE i \in DOMAIN t
  <2>1. status[t[i]] = "BLOCKED" /\ pc[t[i]] = "sleep_lk" /\ t[i] \in Envs
    <3>1. i + Len(s) \in DOMAIN chan /\ chan[i + Len(s)] = t[i] /\ t[i] \in Envs
      BY <1>5
    <3> QED BY <1>7, <3>1
  <2>2. \A j \in DOMAIN s : s[j] # t[i]
    <3>1. SUFFICES ASSUME NEW j \in DOMAIN s, s[j] = t[i] PROVE FALSE
      OBVIOUS
    <3>2. chan[j] = chan[i + Len(s)] /\ j \in DOMAIN chan /\ i + Len(s) \in DOMAIN chan
      BY <1>5, <3>1
    <3>3. j = i + Len(s)
      BY <1>7, <3>2 DEF Distinct
    <3> QED BY <1>5, <1>6, <3>3
  <2> QED BY <1>1, <1>2, <1>3, <2>1, <2>2 DEF ChanInv
<1>10. CpuTypeOK' /\ CpuInv'
  BY <1>1, <1>2 DEF ChanInv, ChanTypeOK, CpuTypeOK, CpuInv, CpuAt, HasLk, HasQ, LkLocs,
                    QLocs, cpuVars, schedVars
<1>11. ChanTypeOK'
  <2>1. ready' \in Seq(Envs) /\ chan' \in Seq(Envs)
    BY <1>3, <1>4
  <2>2. status' \in [Envs -> {"READY", "RUNNING", "BLOCKED", "EXIT"}]
    BY <1>3, <1>4
  <2> QED BY <1>10, <2>1, <2>2 DEF ChanInv, ChanTypeOK, schedVars
<1>12. SchedInv'
  <2>1. status'[p] = "RUNNING"
    BY <1>1, <1>3, <1>8
  <2> QED BY <1>1, <2>1 DEF ChanInv, SchedInv, schedVars
<1>13. EnvInv'
  <2>1. \A q \in Envs : pc[q] = "exited" => status'[q] = status[q]
    BY <1>3, <1>8 DEF ChanInv, EnvInv
  <2> QED BY <1>1, <1>2, <2>1 DEF ChanInv, EnvInv, OffCpu, schedVars
<1>14. QueueInv'
  <2>1. Distinct(ready')
    <3>1. ASSUME NEW i \in DOMAIN ready', NEW j \in DOMAIN ready',
                 ready'[i] = ready'[j], i \in 1 .. Len(ready)
          PROVE  i = j
      <4>1. CASE j \in 1 .. Len(ready)
        BY <1>6, <1>7, <3>1, <4>1 DEF Distinct
      <4>2. CASE j - Len(ready) \in 1 .. Len(s)
        BY <1>5, <1>6, <1>7, <1>8, <3>1, <4>2, SMTT(30)
      <4> QED BY <1>6, <4>1, <4>2
    <3>2. ASSUME NEW i \in DOMAIN ready', NEW j \in DOMAIN ready',
                 ready'[i] = ready'[j],
                 i - Len(ready) \in 1 .. Len(s), j - Len(ready) \in 1 .. Len(s)
          PROVE  i = j
      <4>1. s[i - Len(ready)] = s[j - Len(ready)]
        BY <1>6, <3>2
      <4>2. i - Len(ready) = j - Len(ready)
        BY <1>5, <1>7, <3>2, <4>1 DEF Distinct
      <4> QED BY <1>6, <4>2
    <3> QED BY <1>6, <3>1, <3>2 DEF Distinct
  <2>2. Distinct(t)
    <3>1. ASSUME NEW i \in DOMAIN t, NEW j \in DOMAIN t, t[i] = t[j]
          PROVE  i = j
      <4>1. chan[i + Len(s)] = chan[j + Len(s)]
        BY <1>5, <3>1
      <4>2. i + Len(s) = j + Len(s)
        BY <1>5, <1>7, <4>1 DEF Distinct
      <4> QED BY <1>5, <1>6, <4>2
    <3> QED BY <3>1 DEF Distinct
  <2>3. ASSUME NEW i \in DOMAIN ready'
        PROVE  status'[ready'[i]] = "READY" /\ ready'[i] # cur'
    <3>1. CASE i \in 1 .. Len(ready)
      BY <1>3, <1>6, <1>7, <3>1 DEF schedVars
    <3>2. CASE i - Len(ready) \in 1 .. Len(s)
      <4>1. ready'[i] = s[i - Len(ready)] /\ s[i - Len(ready)] \in Envs
        BY <1>5, <1>6, <3>2
      <4> QED BY <1>1, <1>3, <1>5, <1>8, <3>2, <4>1 DEF schedVars
    <3> QED BY <1>6, <3>1, <3>2
  <2> QED BY <1>9, <2>1, <2>2, <2>3 DEF QueueInv
<1>15. PlaceInv'
  <2> SUFFICES ASSUME NEW q \in Envs
               PROVE  /\ status'[q] = "READY" /\ cur' # q
                           => \E i \in DOMAIN ready' : ready'[i] = q
                      /\ status'[q] = "BLOCKED" => \E i \in DOMAIN chan' : chan'[i] = q
                      /\ status'[q] = "RUNNING" => spc' = "switched" /\ cur' = q
    BY DEF PlaceInv
  <2>1. CASE \E i \in DOMAIN s : s[i] = q
    <3>1. PICK i \in DOMAIN s : s[i] = q
      BY <2>1
    <3>2. i + Len(ready) \in DOMAIN ready' /\ ready'[i + Len(ready)] = q
      BY <1>5, <1>6, <3>1
    <3>3. status'[q] = "READY"
      BY <1>3, <2>1
    <3> QED BY <3>2, <3>3
  <2>2. CASE ~\E i \in DOMAIN s : s[i] = q
    <3>1. status'[q] = status[q] /\ cur' = cur /\ spc' = spc
      BY <1>3, <2>2 DEF schedVars
    <3>2. status[q] = "READY" /\ cur # q => \E i \in DOMAIN ready' : ready'[i] = q
      <4> SUFFICES ASSUME status[q] = "READY", cur # q
                   PROVE  \E i \in DOMAIN ready' : ready'[i] = q
        OBVIOUS
      <4>1. PICK i \in DOMAIN ready : ready[i] = q
        BY DEF ChanInv, PlaceInv
      <4>2. i \in DOMAIN ready' /\ ready'[i] = q
        BY <1>6, <4>1
      <4> QED BY <4>2
    <3>3. status[q] = "BLOCKED" => \E i \in DOMAIN t : t[i] = q
      <4> SUFFICES ASSUME status[q] = "BLOCKED" PROVE \E i \in DOMAIN t : t[i] = q
        OBVIOUS
      <4>1. PICK i \in DOMAIN chan : chan[i] = q
        BY DEF ChanInv, PlaceInv
      <4>2. i \notin 1 .. Len(s)
        BY <1>5, <2>2, <4>1
      <4>3. i - Len(s) \in 1 .. Len(t) /\ (i - Len(s)) + Len(s) = i
        BY <1>5, <1>6, <4>2
      <4> QED BY <1>5, <4>1, <4>3
    <3> QED BY <3>1, <3>2, <3>3 DEF ChanInv, PlaceInv
  <2> QED BY <2>1, <2>2
<1> QED BY <1>2, <1>10, <1>11, <1>12, <1>13, <1>14, <1>15 DEF ChanInv

(* wakeup_all keeps the invariant.                                         *)
LEMMA MoveAllStep ==
  ASSUME ChanInv, NEW p \in Envs, MoveAll(p)
  PROVE  ChanInv'
<1>1. chan \in Seq(Envs) /\ <<>> \in Seq(Envs) /\ chan = chan \o <<>>
  BY DEF ChanInv, ChanTypeOK
<1> QED BY <1>1, WokenStep DEF MoveAll

(* wakeup_one keeps the invariant.                                         *)
LEMMA MoveOneStep ==
  ASSUME ChanInv, NEW p \in Envs, MoveOne(p)
  PROVE  ChanInv'
<1>1. CASE chan = <<>>
  <2>1. Move(p, "wake_move", "wake_unq") /\ UNCHANGED cpuVars
    BY <1>1 DEF MoveOne, Move
  <2>2. Locks("wake_move", "wake_unq")
    BY <2>1 DEF Locks, LkLocs, QLocs
  <2> QED BY <2>1, <2>2, MoveStep DEF AllLocs, BaseLocs, WakeLocs
<1>2. CASE chan # <<>>
  <2>1. /\ chan \in Seq(Envs) /\ <<Head(chan)>> \in Seq(Envs) /\ Tail(chan) \in Seq(Envs)
        /\ chan = <<Head(chan)>> \o Tail(chan)
    BY <1>2 DEF ChanInv, ChanTypeOK
  <2> QED BY <1>2, <2>1, WokenStep DEF MoveOne
<1> QED BY <1>1, <1>2

----------------------------------------------------------------------------
(* Leaving the CPU.                                                        *)

(* The environment on the CPU enters the scheduler through sched(), from   *)
(* sleep() or from env_exit(): the checks of sched() succeed.              *)
LEMMA SchedSucceeds ==
  ASSUME ChanInv, NEW p \in Envs, NEW st, sched(p, st),
         At(p, "sleep_block") \/ At(p, "exit_q")
  PROVE  /\ spc = "switched" /\ cur = p /\ intr[p] = "none" /\ status[p] = "RUNNING"
         /\ spc' = "back" /\ cur' = p
         /\ status' = [status EXCEPT ![p] = st]
         /\ saved' \in [Envs -> BOOLEAN]
         /\ UNCHANGED cpuVars
         /\ CpuAt(FALSE, TRUE)
<1>1. /\ spc = "switched" /\ cur = p /\ intr[p] = "none" /\ status[p] = "RUNNING"
      /\ pc[p] \in {"sleep_block", "exit_q"}
  BY DEF ChanInv, SchedInv, At, OnCpu
<1>2. ~HasLk /\ HasQ
  BY <1>1 DEF HasLk, HasQ, LkLocs, QLocs, GuardLocs
<1>3. CpuAt(FALSE, TRUE)
  BY <1>2 DEF ChanInv, CpuInv, CpuAt
<1> QED BY <1>1, <1>3 DEF sched, CpuAt, ChanInv, ChanTypeOK, CpuTypeOK

(* sleep() puts the environment into the channel and leaves the CPU.       *)
LEMMA BlockStep ==
  ASSUME ChanInv, NEW p \in Envs, SleepBlock(p)
  PROVE  ChanInv'
<1>1. /\ spc = "switched" /\ cur = p /\ intr[p] = "none" /\ status[p] = "RUNNING"
      /\ spc' = "back" /\ cur' = p
      /\ status' = [status EXCEPT ![p] = "BLOCKED"]
      /\ saved' \in [Envs -> BOOLEAN]
      /\ UNCHANGED cpuVars
      /\ CpuAt(FALSE, TRUE)
  BY SchedSucceeds DEF SleepBlock
<1>2. /\ pc[p] = "sleep_block" /\ pc' = [pc EXCEPT ![p] = "sleep_lk"]
      /\ chan' = Append(chan, p) /\ UNCHANGED <<ready, intr>>
  BY DEF SleepBlock, At, Goto
<1>3. CpuInv'
  BY <1>1 DEF CpuInv, CpuAt, HasLk, HasQ, cpuVars
<1>4. ChanTypeOK' /\ pc' \in [Envs -> AllLocs]
  BY <1>1, <1>2 DEF ChanInv, ChanTypeOK, CpuTypeOK, cpuVars, AllLocs, BaseLocs, SleepLocs
<1>5. SchedInv'
  BY <1>1 DEF ChanInv, ChanTypeOK, SchedInv
<1>6. EnvInv'
  BY <1>1, <1>2 DEF ChanInv, ChanTypeOK, EnvInv, OffCpu
<1>7. ready \in Seq(Envs) /\ chan \in Seq(Envs)
  BY DEF ChanInv, ChanTypeOK
<1>8. /\ DOMAIN chan' = 1 .. (Len(chan) + 1)
      /\ \A i \in DOMAIN chan' : chan'[i] = IF i <= Len(chan) THEN chan[i] ELSE p
      /\ \A i \in DOMAIN chan : i \in DOMAIN chan' /\ chan'[i] = chan[i]
      /\ Len(chan) + 1 \in DOMAIN chan' /\ chan'[Len(chan) + 1] = p
  BY <1>2, <1>7
<1>9. QueueInv'
  <2>1. \A i \in DOMAIN chan : chan[i] # p /\ chan[i] \in Envs
    BY <1>1, <1>7 DEF ChanInv, QueueInv
  <2>2. Distinct(chan')
    BY <1>7, <1>8, <2>1 DEF ChanInv, QueueInv, Distinct
  <2>3. \A i \in DOMAIN chan' : status'[chan'[i]] = "BLOCKED" /\ pc'[chan'[i]] = "sleep_lk"
    BY <1>1, <1>2, <1>7, <1>8, <2>1 DEF ChanInv, QueueInv, ChanTypeOK
  <2>4. \A i \in DOMAIN ready : status'[ready[i]] = "READY" /\ ready[i] # cur'
    BY <1>1, <1>7 DEF ChanInv, QueueInv, ChanTypeOK
  <2> QED BY <1>2, <2>2, <2>3, <2>4 DEF ChanInv, QueueInv, Distinct
<1>10. PlaceInv'
  <2>1. \A q \in Envs \ {p} : status'[q] = status[q]
    BY <1>1 DEF ChanInv, ChanTypeOK
  <2>2. status'[p] = "BLOCKED"
    BY <1>1 DEF ChanInv, ChanTypeOK
  <2> QED BY <1>1, <1>2, <1>8, <2>1, <2>2 DEF ChanInv, PlaceInv
<1> QED BY <1>3, <1>4, <1>5, <1>6, <1>9, <1>10 DEF ChanInv

(* env_exit() leaves the CPU for good.                                     *)
LEMMA ExitStep ==
  ASSUME ChanInv, NEW p \in Envs, ExitSched(p)
  PROVE  ChanInv'
<1>1. /\ spc = "switched" /\ cur = p /\ intr[p] = "none" /\ status[p] = "RUNNING"
      /\ spc' = "back" /\ cur' = p
      /\ status' = [status EXCEPT ![p] = "EXIT"]
      /\ saved' \in [Envs -> BOOLEAN]
      /\ UNCHANGED cpuVars
      /\ CpuAt(FALSE, TRUE)
  BY SchedSucceeds DEF ExitSched
<1>2. /\ pc[p] = "exit_q" /\ pc' = [pc EXCEPT ![p] = "exited"]
      /\ UNCHANGED <<ready, chan, intr>>
  BY DEF ExitSched, At, Goto
<1>3. CpuInv'
  BY <1>1 DEF CpuInv, CpuAt, HasLk, HasQ, cpuVars
<1>4. ChanTypeOK' /\ pc' \in [Envs -> AllLocs]
  BY <1>1, <1>2 DEF ChanInv, ChanTypeOK, CpuTypeOK, cpuVars, AllLocs, BaseLocs, ExitLocs
<1>5. SchedInv'
  BY <1>1 DEF ChanInv, ChanTypeOK, SchedInv
<1>6. EnvInv'
  BY <1>1, <1>2 DEF ChanInv, ChanTypeOK, EnvInv, OffCpu
<1>7. QueueInv'
  BY <1>1, <1>2 DEF ChanInv, ChanTypeOK, QueueInv, Distinct
<1>8. PlaceInv'
  BY <1>1, <1>2 DEF ChanInv, ChanTypeOK, PlaceInv
<1> QED BY <1>3, <1>4, <1>5, <1>6, <1>7, <1>8 DEF ChanInv

(* The clock interrupt finds no spinlock taken, and the environment is     *)
(* preempted in user mode or in its critical section.                      *)
LEMMA ClockEffect ==
  ASSUME ChanInv, NEW p \in Envs, clock_interrupt_handler(p)
  PROVE  /\ spc = "switched" /\ cur = p /\ ien /\ status[p] = "RUNNING"
         /\ ncli = 0 /\ ~HasLk /\ ~HasQ /\ ~spin["qlock"] /\ ~spin["lk"] /\ ~panic
         /\ pc[p] \in {"user", "crit"}
         /\ spin' = [spin EXCEPT !["qlock"] = TRUE] /\ ncli' = 1 /\ ien' = FALSE
         /\ status' = [status EXCEPT ![p] = "READY"]
         /\ spc' = "back" /\ cur' = p /\ intr' = [intr EXCEPT ![p] = "yield"]
         /\ UNCHANGED <<panic, pc, ready, chan>>
<1>1. spc = "switched" /\ cur = p /\ ien /\ status[p] = "RUNNING"
  BY DEF ChanInv, SchedInv, clock_interrupt_handler, OnCpu
<1>2. ncli = 0 /\ ~HasLk /\ ~HasQ /\ ~spin["qlock"] /\ ~spin["lk"] /\ ~panic
  BY <1>1 DEF ChanInv, CpuInv, CpuAt
<1>3. pc[p] \in {"user", "crit"}
  BY <1>1, <1>2 DEF ChanInv, ChanTypeOK, EnvInv, HasLk, HasQ, LkLocs, QLocs,
     AllLocs, CallerLocs, GuardLocs, BaseLocs, SleepLocs, WakeLocs, ExitLocs
<1> QED BY <1>1, <1>2, <1>3 DEF clock_interrupt_handler

(* The clock interrupt keeps the invariant.                                *)
LEMMA ClockStep ==
  ASSUME ChanInv, NEW p \in Envs, clock_interrupt_handler(p)
  PROVE  ChanInv'
<1>1. spc = "switched" /\ cur = p /\ ien /\ status[p] = "RUNNING"
  BY ClockEffect
<1>2. ncli = 0 /\ ~HasLk /\ ~HasQ /\ ~spin["qlock"] /\ ~spin["lk"] /\ ~panic
  BY ClockEffect
<1>3. pc[p] \in {"user", "crit"}
  BY ClockEffect
<1>4. /\ spin' = [spin EXCEPT !["qlock"] = TRUE] /\ ncli' = 1 /\ ien' = FALSE
      /\ status' = [status EXCEPT ![p] = "READY"]
      /\ spc' = "back" /\ cur' = p /\ intr' = [intr EXCEPT ![p] = "yield"]
      /\ panic' = panic
  BY ClockEffect
<1>5. UNCHANGED <<pc, ready, chan>>
  BY ClockEffect
<1>6. CpuInv'
  <2>1. spin'["qlock"] /\ ~spin'["lk"]
    BY <1>2, <1>4 DEF ChanInv, ChanTypeOK, CpuTypeOK, Spinlocks
  <2> QED BY <1>2, <1>4, <2>1 DEF CpuInv, CpuAt, HasLk, HasQ
<1>7. SchedInv'
  BY <1>4 DEF ChanInv, ChanTypeOK, SchedInv
<1>8. EnvInv'
  BY <1>1, <1>3, <1>4, <1>5 DEF ChanInv, ChanTypeOK, EnvInv, OffCpu
<1>9. QueueInv'
  BY <1>1, <1>4, <1>5 DEF ChanInv, ChanTypeOK, QueueInv, Distinct
<1>10. PlaceInv'
  BY <1>1, <1>4, <1>5 DEF ChanInv, ChanTypeOK, PlaceInv
<1>11. ChanTypeOK' /\ pc' \in [Envs -> AllLocs]
  <2>1. CpuTypeOK' /\ saved' \in [Envs -> BOOLEAN]
    <3>1. CpuTypeOK /\ saved \in [Envs -> BOOLEAN]
      BY DEF ChanInv, ChanTypeOK
    <3>2. intena' = FALSE /\ saved' = [saved EXCEPT ![p] = FALSE]
      BY <1>1, <1>2 DEF clock_interrupt_handler
    <3> QED BY <1>4, <3>1, <3>2 DEF CpuTypeOK
  <2> QED BY <1>4, <1>5, <2>1 DEF ChanInv, ChanTypeOK
<1> QED BY <1>6, <1>7, <1>8, <1>9, <1>10, <1>11 DEF ChanInv

(* An environment that was preempted, or starts, releases qlock and goes   *)
(* back to where it was.                                                   *)
LEMMA ResumeStep ==
  ASSUME ChanInv, NEW p \in Envs, ReturnFromSched(p) \/ trapret(p)
  PROVE  ChanInv'
<1>1. spc = "switched" /\ cur = p /\ status[p] = "RUNNING" /\ pc[p] \in {"user", "crit"}
  BY DEF ChanInv, SchedInv, EnvInv, ReturnFromSched, trapret, OnCpu
<1>2. /\ intr' \in [Envs -> {"none", "start", "yield", "trapret"}]
      /\ intr'[p] \in {"trapret", "none"}
      /\ \A q \in Envs \ {p} : intr'[q] = intr[q]
  BY DEF ChanInv, ChanTypeOK, ReturnFromSched, trapret
<1>3. UNCHANGED <<pc, status, ready, chan, spc, cur>>
  BY DEF ReturnFromSched, trapret, queueVars
<1>4. ~HasLk' /\ ~HasQ'
  BY <1>1, <1>2, <1>3 DEF HasLk, HasQ, LkLocs, QLocs, GuardLocs
<1>5. CpuAt(FALSE, FALSE)'
  <2>1. CASE ReturnFromSched(p)
    <3>1. CpuAt(FALSE, TRUE)
      BY <1>1, <2>1 DEF ChanInv, CpuInv, CpuAt, HasLk, HasQ, ReturnFromSched
    <3> QED BY <2>1, <3>1, ReleaseQ DEF ReturnFromSched, ChanInv, ChanTypeOK
  <2>2. CASE trapret(p)
    <3>1. CpuAt(FALSE, FALSE)
      BY <1>1, <2>2 DEF ChanInv, CpuInv, CpuAt, HasLk, HasQ, trapret
    <3> QED BY <2>2, <3>1 DEF trapret, CpuAt
  <2> QED BY <2>1, <2>2
<1>6. CpuInv'
  BY <1>4, <1>5 DEF CpuInv, CpuAt
<1>7. SchedInv' /\ QueueInv' /\ PlaceInv'
  BY <1>3 DEF ChanInv, SchedInv, QueueInv, Distinct, PlaceInv
<1>8. EnvInv'
  BY <1>1, <1>2, <1>3 DEF ChanInv, EnvInv, OffCpu
<1>9. ChanTypeOK' /\ pc' \in [Envs -> AllLocs]
  <2>1. CpuTypeOK'
    <3>1. "qlock" \in Spinlocks /\ CpuTypeOK
      BY DEF Spinlocks, ChanInv, ChanTypeOK
    <3>2. CASE ReturnFromSched(p)
      BY <3>1, <3>2, ReleaseType DEF ReturnFromSched
    <3>3. CASE trapret(p)
      BY <3>1, <3>3 DEF trapret, CpuTypeOK
    <3> QED BY <3>2, <3>3
  <2>2. saved' = saved
    BY DEF ReturnFromSched, trapret
  <2> QED BY <1>2, <1>3, <2>1, <2>2 DEF ChanInv, ChanTypeOK
<1> QED BY <1>6, <1>7, <1>8, <1>9 DEF ChanInv

(* The scheduler switches to the first environment of the ready queue.     *)
LEMMA RunStep ==
  ASSUME ChanInv, SchedRun
  PROVE  ChanInv'
<1> DEFINE q == fos_scheduler_RR
           next == Head(q)
<1>1. spc = "next" /\ ready \in Seq(Envs) /\ cur \in Envs \cup {NoEnv}
  BY DEF ChanInv, ChanTypeOK, SchedRun
<1>2. q \in Seq(Envs) /\ q # <<>>
  BY <1>1 DEF fos_scheduler_RR, SchedRun
<1>3. /\ Distinct(q)
      /\ \A i \in DOMAIN q : status[q[i]] = "READY"
  <2>1. CASE cur = NoEnv
    BY <2>1 DEF fos_scheduler_RR, ChanInv, QueueInv
  <2>2. CASE cur # NoEnv
    <3>1. /\ DOMAIN q = 1 .. (Len(ready) + 1)
          /\ \A i \in DOMAIN q : q[i] = IF i <= Len(ready) THEN ready[i] ELSE cur
      BY <1>1, <2>2 DEF fos_scheduler_RR
    <3>2. status[cur] = "READY"
      BY <1>1, <2>2 DEF ChanInv, SchedInv
    <3>3. \A i \in DOMAIN ready : ready[i] # cur /\ status[ready[i]] = "READY"
      BY DEF ChanInv, QueueInv
    <3>4. Distinct(ready)
      BY DEF ChanInv, QueueInv
    <3> HIDE DEF q
    <3> QED BY <1>1, <3>1, <3>2, <3>3, <3>4 DEF Distinct
  <2> QED BY <2>1, <2>2
<1>3a. \A e \in Envs : status[e] = "READY" => \E i \in DOMAIN q : q[i] = e
  <2> TAKE e \in Envs
  <2> HAVE status[e] = "READY"
  <2>1. CASE cur = e
    <3>1. q = Append(ready, e)
      BY <2>1, NoEnvAssumption DEF fos_scheduler_RR
    <3>2. Len(ready) + 1 \in DOMAIN q /\ q[Len(ready) + 1] = e
      BY <1>1, <3>1
    <3> QED BY <3>2
  <2>2. CASE cur # e
    <3>1. PICK i \in DOMAIN ready : ready[i] = e
      BY <2>2 DEF ChanInv, PlaceInv
    <3>2. i \in DOMAIN q /\ q[i] = e
      BY <1>1, <3>1 DEF fos_scheduler_RR
    <3> QED BY <3>2
  <2> QED BY <2>1, <2>2
<1>4. /\ cur' = next /\ ready' = Tail(q) /\ spc' = "switched"
      /\ status' = [status EXCEPT ![next] = "RUNNING"]
      /\ UNCHANGED <<pc, chan, intr, spin, ncli, ien, panic>>
  BY DEF SchedRun
<1> HIDE DEF q
<1>5. /\ next \in Envs /\ next = q[1] /\ 1 \in DOMAIN q
      /\ DOMAIN Tail(q) = 1 .. (Len(q) - 1)
      /\ \A i \in DOMAIN Tail(q) : i + 1 \in DOMAIN q /\ Tail(q)[i] = q[i + 1]
  BY <1>2
<1>6. status[next] = "READY" /\ pc[next] # "exited"
  BY <1>3, <1>5 DEF ChanInv, EnvInv
<1>7. \/ intr[next] \in {"start", "yield"}
      \/ intr[next] = "none" /\ pc[next] = "sleep_lk"
  BY <1>1, <1>5, <1>6 DEF ChanInv, EnvInv, OffCpu
<1> HIDE DEF next
<1>8. CpuInv'
  <2>1. ~HasLk /\ HasQ /\ ~HasLk' /\ HasQ'
    BY <1>1, <1>4, <1>7 DEF HasLk, HasQ, LkLocs, QLocs, GuardLocs
  <2> QED BY <1>4, <2>1 DEF ChanInv, CpuInv, CpuAt
<1>9. SchedInv'
  BY <1>4, <1>5 DEF ChanInv, ChanTypeOK, SchedInv
<1>10. EnvInv'
  BY <1>1, <1>4, <1>5, <1>6 DEF ChanInv, ChanTypeOK, EnvInv, OffCpu
<1>11. QueueInv'
  <2>1. \A i \in DOMAIN Tail(q) : Tail(q)[i] # next /\ status[Tail(q)[i]] = "READY"
    BY <1>2, <1>3, <1>5 DEF Distinct
  <2>2. Distinct(Tail(q))
    BY <1>2, <1>3, <1>5 DEF Distinct
  <2>3. \A i \in DOMAIN chan : chan[i] # next
    BY <1>6 DEF ChanInv, QueueInv
  <2>4. \A i \in DOMAIN Tail(q) : Tail(q)[i] \in Envs
    BY <1>2
  <2> QED BY <1>4, <1>5, <2>1, <2>2, <2>3, <2>4
          DEF ChanInv, QueueInv, Distinct, ChanTypeOK
<1>12. PlaceInv'
  <2> SUFFICES ASSUME NEW e \in Envs
               PROVE  /\ status'[e] = "READY" /\ cur' # e
                           => \E i \in DOMAIN ready' : ready'[i] = e
                      /\ status'[e] = "BLOCKED" => \E i \in DOMAIN chan' : chan'[i] = e
                      /\ status'[e] = "RUNNING" => spc' = "switched" /\ cur' = e
    BY DEF PlaceInv
  <2>1. CASE e = next
    BY <1>4, <1>5, <2>1 DEF ChanInv, ChanTypeOK
  <2>2. CASE e # next
    <3>1. status'[e] = status[e] /\ status[e] # "RUNNING"
      BY <1>1, <1>4, <2>2 DEF ChanInv, ChanTypeOK, PlaceInv
    <3>2. ASSUME status[e] = "READY" PROVE \E i \in DOMAIN Tail(q) : Tail(q)[i] = e
      <4>1. PICK i \in DOMAIN q : q[i] = e
        BY <1>3a, <3>2
      <4>2. i # 1 /\ i \in 1 .. Len(q) /\ Len(q) \in Nat
        BY <1>2, <1>5, <2>2, <4>1
      <4>3. i - 1 \in DOMAIN Tail(q) /\ Tail(q)[i - 1] = q[(i - 1) + 1]
        BY <1>5, <4>2
      <4> QED BY <4>1, <4>2, <4>3
    <3> QED BY <1>4, <3>1, <3>2 DEF ChanInv, PlaceInv
  <2> QED BY <2>1, <2>2
<1>13. ChanTypeOK' /\ pc' \in [Envs -> AllLocs]
  <2>1. CpuTypeOK' /\ saved' \in [Envs -> BOOLEAN]
    BY <1>5 DEF ChanInv, ChanTypeOK, CpuTypeOK, SchedRun, next, q
  <2>2. Tail(q) \in Seq(Envs)
    BY <1>2
  <2> QED BY <1>4, <1>5, <2>1, <2>2 DEF ChanInv, ChanTypeOK
<1> QED BY <1>8, <1>9, <1>10, <1>11, <1>12, <1>13 DEF ChanInv

(* The other steps of the scheduler's thread.                              *)
LEMMA SchedulerStep ==
  ASSUME ChanInv, SchedSti \/ SchedLock \/ SchedIdle \/ SchedBack
  PROVE  ChanInv'
<1>0. /\ spc \in {"sti", "lock", "next", "back"} /\ CpuTypeOK
      /\ UNCHANGED <<pc, queueVars, saved, intr>>
  BY DEF ChanInv, ChanTypeOK, SchedSti, SchedLock, SchedIdle, SchedBack
<1>1. \A p \in Envs : \/ intr[p] \in {"start", "yield"}
                      \/ intr[p] = "none" /\ pc[p] \in {"sleep_lk", "exited"}
  BY <1>0 DEF ChanInv, EnvInv, OffCpu
<1>2. /\ CpuInv' /\ SchedInv'
      /\ cur' = cur \/ cur' = NoEnv
  <2>1. CASE SchedSti
    <3>1. CpuAt(FALSE, FALSE)'
      BY <2>1 DEF ChanInv, CpuInv, CpuAt, HasLk, HasQ, SchedSti
    <3> QED BY <2>1, <3>1 DEF ChanInv, CpuInv, CpuAt, HasLk, HasQ, SchedInv, SchedSti
  <2>2. CASE SchedLock
    <3>1. CpuAt(FALSE, FALSE) /\ cur = NoEnv /\ cur' = cur /\ spc' = "next"
      BY <2>2 DEF ChanInv, CpuInv, CpuAt, HasLk, HasQ, SchedInv, SchedLock
    <3>2. CpuAt(FALSE, TRUE)'
      BY <1>0, <2>2, <3>1, AcquireQ DEF SchedLock
    <3> QED BY <3>1, <3>2 DEF CpuInv, CpuAt, HasLk, HasQ, SchedInv
  <2>3. CASE SchedIdle
    <3>1. cur = NoEnv
      <4>1. ready \in Seq(Envs) /\ cur \in Envs \cup {NoEnv}
        BY DEF ChanInv, ChanTypeOK
      <4>2. cur # NoEnv => Len(fos_scheduler_RR) # 0
        BY <4>1 DEF fos_scheduler_RR
      <4> QED BY <2>3, <4>2 DEF SchedIdle
    <3>2. CpuAt(FALSE, TRUE) /\ spc' \in {"sti", "prompt"} /\ cur' = cur
      BY <2>3 DEF ChanInv, CpuInv, CpuAt, HasLk, HasQ, SchedIdle
    <3>3. CpuAt(FALSE, FALSE)'
      BY <1>0, <2>3, <3>2, ReleaseQ DEF SchedIdle
    <3> QED BY <3>1, <3>2, <3>3 DEF CpuInv, CpuAt, HasLk, HasQ, SchedInv
  <2>4. CASE SchedBack
    <3>1. CpuAt(FALSE, TRUE) /\ cur \in Envs /\ status[cur] # "RUNNING"
      BY <2>4 DEF ChanInv, CpuInv, CpuAt, HasLk, HasQ, SchedInv, SchedBack
    <3>2. /\ UNCHANGED cpuVars /\ spc' = "next"
          /\ cur' = IF status[cur] = "READY" THEN cur ELSE NoEnv
      BY <2>4, <3>1 DEF SchedBack, CpuAt
    <3> QED BY <1>0, <3>1, <3>2
            DEF CpuInv, CpuAt, HasLk, HasQ, SchedInv, cpuVars, queueVars
  <2> QED BY <2>1, <2>2, <2>3, <2>4
<1>3. spc' # "switched"
  BY DEF SchedSti, SchedLock, SchedIdle, SchedBack, Halt
<1>4. EnvInv'
  BY <1>0, <1>1, <1>3 DEF ChanInv, EnvInv, OffCpu, queueVars
<1>5. QueueInv'
  BY <1>0, <1>2, NoEnvAssumption
     DEF ChanInv, QueueInv, Distinct, queueVars, ChanTypeOK
<1>6. PlaceInv'
  <2>1. \A e \in Envs : status[e] # "RUNNING"
    BY <1>0 DEF ChanInv, PlaceInv
  <2>2. cur # cur' => status[cur] # "READY"
    BY <1>0, <1>2 DEF ChanInv, SchedInv, SchedSti, SchedLock, SchedIdle, SchedBack
  <2> QED BY <1>0, <1>2, <2>1, <2>2 DEF ChanInv, PlaceInv, queueVars
<1>7. ChanTypeOK' /\ pc' \in [Envs -> AllLocs]
  <2>1. CpuTypeOK'
    <3>1. "qlock" \in Spinlocks
      BY DEF Spinlocks
    <3>2. CASE SchedSti
      BY <1>0, <3>2 DEF SchedSti, CpuTypeOK
    <3>3. CASE SchedLock
      BY <1>0, <3>1, <3>3, AcquireType DEF SchedLock
    <3>4. CASE SchedIdle
      BY <1>0, <3>1, <3>4, ReleaseType DEF SchedIdle
    <3>5. CASE SchedBack
      BY <1>0, <3>5 DEF SchedBack, Halt, CpuTypeOK, cpuVars
    <3> QED BY <3>2, <3>3, <3>4, <3>5
  <2>2. spc' \in {"sti", "lock", "next", "switched", "back", "prompt"}
    BY <1>0 DEF SchedSti, SchedLock, SchedIdle, SchedBack
  <2> QED BY <1>0, <1>2, <2>1, <2>2 DEF ChanInv, ChanTypeOK, queueVars
<1> QED BY <1>2, <1>4, <1>5, <1>6, <1>7 DEF ChanInv

----------------------------------------------------------------------------
(* Initially every environment is ready and nobody holds anything.         *)
LEMMA ChanInitInv ==
  ASSUME ChanInit
  PROVE  ChanInv
<1> USE DEF ChanInit
<1>1. Cardinality(Envs) \in Nat
  BY EnvsAssumption, FS_CardinalityType
<1>2. /\ ready \in [1..Cardinality(Envs) -> Envs]
      /\ \A p \in Envs : \E i \in DOMAIN ready : ready[i] = p
  OBVIOUS
<1>3. ready \in Seq(Envs)
  BY <1>1, <1>2, SeqDef
<1>4. ChanTypeOK /\ pc \in [Envs -> AllLocs]
  <2>1. CpuTypeOK
    BY DEF CpuTypeOK
  <2> QED BY <1>3, <2>1 DEF ChanTypeOK, AllLocs, BaseLocs
<1>5. CpuInv /\ SchedInv
  BY DEF CpuInv, CpuAt, HasLk, HasQ, SchedInv, Spinlocks
<1>6. EnvInv
  BY DEF EnvInv
<1>7. QueueInv
  <2>1. Distinct(ready)
    <3>1. ready \in Surjection(1..Cardinality(Envs), Envs)
      BY <1>2 DEF Surjection
    <3>2. IsFiniteSet(1..Cardinality(Envs)) /\ Cardinality(1..Cardinality(Envs)) = Cardinality(Envs)
      BY <1>1, FS_Interval
    <3>3. ready \in Injection(1..Cardinality(Envs), Envs)
      BY <3>1, <3>2, EnvsAssumption, FS_SurjSameCardinalityImpliesInj
    <3> QED BY <1>2, <3>3 DEF Injection, IsInjective, Distinct
  <2>2. \A i \in DOMAIN ready : ready[i] \in Envs
    BY <1>2
  <2>3. Distinct(<<>>)
    BY DEF Distinct
  <2> QED BY <2>1, <2>2, <2>3, NoEnvAssumption DEF QueueInv
<1>8. PlaceInv
  BY <1>2 DEF PlaceInv
<1> QED BY <1>4, <1>5, <1>6, <1>7, <1>8 DEF ChanInv

(* A step of something else keeps the invariant.                           *)
LEMMA ChanStutter ==
  ASSUME ChanInv, UNCHANGED chanVars
  PROVE  ChanInv'
BY DEF ChanInv, ChanTypeOK, CpuTypeOK, CpuInv, CpuAt, HasLk, HasQ, SchedInv, EnvInv,
       OffCpu, QueueInv, Distinct, PlaceInv, chanVars, cpuVars, queueVars, schedVars

----------------------------------------------------------------------------
(* Consequences.                                                           *)

(* The status of an environment says in how many places of each queue it   *)
(* sits.                                                                   *)
LEMMA PlacesByStatus ==
  ASSUME ChanInv, NEW p \in Envs
  PROVE  /\ Cardinality(Places(chan, p)) = IF status[p] = "BLOCKED" THEN 1 ELSE 0
         /\ Cardinality(Places(ready, p))
              = IF status[p] = "READY" /\ cur # p THEN 1 ELSE 0
         /\ status[p] = "RUNNING" => cur = p
<1>1. Distinct(chan) /\ Distinct(ready)
  BY DEF ChanInv, QueueInv
<1>2. Occurs(chan, p) <=> status[p] = "BLOCKED"
  BY DEF ChanInv, QueueInv, PlaceInv, Occurs
<1>3. Occurs(ready, p) <=> status[p] = "READY" /\ cur # p
  BY DEF ChanInv, QueueInv, PlaceInv, Occurs
<1>4. status[p] = "RUNNING" => cur = p
  BY DEF ChanInv, PlaceInv
<1> QED BY <1>1, <1>2, <1>3, <1>4, OnceInQueue

============================================================================
