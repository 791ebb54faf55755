---------------------------- MODULE KSemaphore -----------------------------
(***************************************************************************)
(* The kernel semaphore of kern/conc/ksemaphore.c.  A negative count is    *)
(* the number of environments waiting in the channel; a signal hands its   *)
(* permit to the one that has waited longest.                              *)
(*                                                                         *)
(* An environment signals what it waited for; location "crit" lies between *)
(* the two calls.                                                          *)
(***************************************************************************)
EXTENDS Channel, Integers

CONSTANT InitValue  \* the value given to init_ksemaphore

ASSUME InitValueAssumption == InitValue \in Nat

VARIABLE count  \* ksemaphore.count

vars == <<chanVars, count>>

WaitLocs == {"wait_dec", "wait_unlk"}
SignalLocs == {"sig_inc", "sig_unlk"}
Locs == BaseLocs \cup WaitLocs \cup SignalLocs \cup {"crit"}

----------------------------------------------------------------------------
(* wait_ksemaphore()                                                       *)

WaitCall(p) ==
  /\ At(p, "user")
  /\ acquire_kspinlock("lk")
  /\ Goto(p, "wait_dec")
  /\ UNCHANGED <<queueVars, schedVars, count>>

WaitDecrement(p) ==
  /\ At(p, "wait_dec")
  /\ count' = count - 1
  /\ Goto(p, IF count - 1 < 0 THEN "sleep_q" ELSE "wait_unlk")
  /\ UNCHANGED <<cpuVars, queueVars, schedVars>>

WaitSleep(p) == sleep(p, "wait_unlk") /\ UNCHANGED count

WaitReturn(p) ==
  /\ At(p, "wait_unlk")
  /\ release_kspinlock("lk")
  /\ Goto(p, "crit")
  /\ UNCHANGED <<queueVars, schedVars, count>>

----------------------------------------------------------------------------
(* signal_ksemaphore()                                                     *)

SignalCall(p) ==
  /\ At(p, "crit")
  /\ acquire_kspinlock("lk")
  /\ Goto(p, "sig_inc")
  /\ UNCHANGED <<queueVars, schedVars, count>>

\* The last environment that waits is not woken.
SignalIncrement_slip(p) ==
  /\ At(p, "sig_inc")
  /\ count' = count + 1
  /\ Goto(p, IF count + 1 < 0 THEN "wake_q" ELSE "sig_unlk")
  /\ UNCHANGED <<cpuVars, queueVars, schedVars>>

SignalIncrement(p) ==
  /\ At(p, "sig_inc")
  /\ count' = count + 1
  /\ Goto(p, IF count + 1 <= 0 THEN "wake_q" ELSE "sig_unlk")
  /\ UNCHANGED <<cpuVars, queueVars, schedVars>>

SignalWakeup(p) == wakeup_one(p, "sig_unlk") /\ UNCHANGED count

SignalReturn(p) ==
  /\ At(p, "sig_unlk")
  /\ release_kspinlock("lk")
  /\ Goto(p, "user")
  /\ UNCHANGED <<queueVars, schedVars, count>>

----------------------------------------------------------------------------
Init == ChanInit /\ count = InitValue

Kernel(p) ==
  \/ WaitDecrement(p) \/ WaitSleep(p) \/ WaitReturn(p)
  \/ SignalCall(p)
  \/ SignalIncrement(p) \/ SignalWakeup(p) \/ SignalReturn(p)

User(p) ==
  \/ WaitCall(p)
  \/ env_exit(p) /\ UNCHANGED count

Resume(p) == EnvBase(p) /\ UNCHANGED count
Clock(p) == clock_interrupt_handler(p) /\ UNCHANGED count
Scheduler == fos_scheduler /\ UNCHANGED count

\* The prompt owns the machine, or the kernel has panicked.
Stopped == (spc = "prompt" \/ panic) /\ UNCHANGED vars

Next == \/ \E p \in Envs : Kernel(p) \/ User(p) \/ Resume(p) \/ Clock(p)
        \/ Scheduler
        \/ Stopped

Spec == Init /\ [][Next]_vars

\* As for the sleep lock: see SleepLock.Fairness.
Fairness == /\ WF_vars(Scheduler)
            /\ \A p \in Envs : /\ SF_vars(Clock(p)) /\ WF_vars(Resume(p))
                               /\ SF_vars(Kernel(p))

FairSpec == Spec /\ Fairness

----------------------------------------------------------------------------
(* The types of the variables: the count of struct ksemaphore is an int    *)
(* that wait_ksemaphore may take below zero.                               *)
TypeOK == /\ ChanTypeOK
          /\ pc \in [Envs -> Locs]
          /\ count \in Int

\* The environments that have paid for a permit and do not hold one yet.
AboutToSleep == {p \in Envs : pc[p] \in {"sleep_q", "sleep_unlk", "sleep_block"}}
AboutToWake == {p \in Envs : pc[p] \in {"wake_q", "wake_move"}}

(* The count and the channel tell the same story: a negative count is the  *)
(* number of environments that wait, give or take the one on the CPU that  *)
(* has updated the count and is on its way into, or to, the channel.  In   *)
(* particular nobody waits while the count is not negative.                *)
CountMatchesChannel ==
  (IF count < 0 THEN -count ELSE 0)
    = Len(chan) + Cardinality(AboutToSleep) - Cardinality(AboutToWake)

\* p holds a permit: it did not have to wait, or has been woken for one.
Granted(p) ==
  \/ pc[p] \in {"wait_unlk", "crit", "sig_inc", "sleep_unq"}
  \/ pc[p] = "sleep_lk" /\ status[p] # "BLOCKED"
Waiting(p) ==
  \/ pc[p] \in {"wait_dec", "sleep_q", "sleep_unlk", "sleep_block"}
  \/ pc[p] = "sleep_lk" /\ status[p] = "BLOCKED"

(* Used as a lock, the semaphore implements Exclusion with InitValue       *)
(* places, and starves nobody: the permit of a signal goes to the one that *)
(* has waited longest and cannot be overtaken.                             *)
Phase == [p \in Envs |-> IF Granted(p) THEN "in"
                         ELSE IF Waiting(p) THEN "waiting" ELSE "out"]
Excl == INSTANCE Exclusion WITH K <- InitValue, phase <- Phase
ImplementsExclusion == Excl!StarvationFreeSpec
============================================================================
