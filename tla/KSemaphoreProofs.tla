-------------------------- MODULE KSemaphoreProofs --------------------------
(***************************************************************************)
(* Proofs about the kernel semaphore, for any finite set of environments   *)
(* and any initial value.                                                  *)
(*                                                                         *)
(* ChanInv of ChannelProofs says that nobody interferes with the holder of *)
(* the guard lk.  What is left to show is where the permits are: a permit  *)
(* is in the count or with an environment, and a count below zero tells    *)
(* how many environments have to be woken before one is left over.         *)
(***************************************************************************)
EXTENDS KSemaphore, ChannelProofs

----------------------------------------------------------------------------
(* The inductive invariant.                                                *)

AboutLocs == {"sleep_q", "sleep_unlk", "sleep_block"}
WakingLocs == {"wake_q", "wake_move"}

\* The environment on the CPU has paid and is on its way into the channel,
\* or has given its permit back and is on its way to whoever it wakes.
SleepsNext == spc = "switched" /\ pc[cur] \in AboutLocs
WakesNext == spc = "switched" /\ pc[cur] \in WakingLocs

One(b) == IF b THEN 1 ELSE 0

Inside == {p \in Envs : Phase[p] = "in"}

\* A negative count is the number of environments that wait.
CountInv == /\ (IF count < 0 THEN -count ELSE 0)
                 = Len(chan) + One(SleepsNext) - One(WakesNext)
            /\ WakesNext => count <= 0

\* No permit is lost, and none is made.
PermitInv == count + Cardinality(Inside) + Len(chan) + One(SleepsNext) = InitValue

IInv == /\ TypeOK
        /\ ChanInv
        /\ CountInv
        /\ PermitInv

----------------------------------------------------------------------------
(* Every step keeps ChanInv.                                               *)
LEMMA ChanStep ==
  ASSUME IInv, [Next]_vars
  PROVE  ChanInv'
<1> USE DEF IInv
<1>1. ASSUME NEW p \in Envs, Kernel(p) \/ User(p) PROVE ChanInv'
  <2> USE DEF LkLocs, QLocs, AllLocs, BaseLocs, CallerLocs, GuardLocs
  <2>1. CASE WaitCall(p)
    <3>1. Move(p, "user", "wait_dec") /\ acquire_kspinlock("lk")
      BY <2>1 DEF WaitCall, Move
    <3> QED BY <3>1, MoveStep DEF Locks
  <2>2. CASE WaitDecrement(p)
    <3>1. \E to \in {"sleep_q", "wait_unlk"} : Move(p, "wait_dec", to) /\ UNCHANGED cpuVars
      BY <2>2 DEF WaitDecrement, Move
    <3>2. "sleep_q" \in AllLocs \ {"exited"}
      BY DEF SleepLocs
    <3> QED BY <3>1, <3>2, MoveStep DEF Locks
  <2>3. CASE WaitReturn(p)
    <3>1. Move(p, "wait_unlk", "crit") /\ release_kspinlock("lk")
      BY <2>3 DEF WaitReturn, Move
    <3> QED BY <3>1, MoveStep DEF Locks
  <2>4. CASE SignalCall(p)
    <3>1. Move(p, "crit", "sig_inc") /\ acquire_kspinlock("lk")
      BY <2>4 DEF SignalCall, Move
    <3> QED BY <3>1, MoveStep DEF Locks
  <2>5. CASE SignalIncrement(p)
    <3>1. \E to \in {"wake_q", "sig_unlk"} : Move(p, "sig_inc", to) /\ UNCHANGED cpuVars
      BY <2>5 DEF SignalIncrement, Move
    <3>2. "wake_q" \in AllLocs \ {"exited"}
      BY DEF WakeLocs
    <3> QED BY <3>1, <3>2, MoveStep DEF Locks
  <2>6. CASE SignalReturn(p)
    <3>1. Move(p, "sig_unlk", "user") /\ release_kspinlock("lk")
      BY <2>6 DEF SignalReturn, Move
    <3> QED BY <3>1, MoveStep DEF Locks
  <2>7. CASE WaitSleep(p)
    BY <2>7, SpinStep, BlockStep DEF WaitSleep, sleep
  <2>8. CASE SignalWakeup(p)
    BY <2>8, SpinStep, MoveOneStep DEF SignalWakeup, wakeup_one
  <2>9. CASE env_exit(p)
    <3>1. "wait_dec" \in GuardLocs
      OBVIOUS
    <3> QED BY <2>9, <3>1, SpinStep
  <2> QED BY <1>1, <2>1, <2>2, <2>3, <2>4, <2>5, <2>6, <2>7, <2>8, <2>9 DEF Kernel, User
<1>2. ASSUME NEW p \in Envs, Resume(p) \/ Clock(p) PROVE ChanInv'
  BY <1>2, ExitStep, ResumeStep, ClockStep DEF Resume, EnvBase, Clock
<1>3. CASE Scheduler
  BY <1>3, RunStep, SchedulerStep DEF Scheduler, fos_scheduler
<1>4. CASE UNCHANGED vars
  BY <1>4, ChanStutter DEF vars
<1> QED BY <1>1, <1>2, <1>3, <1>4 DEF Next, Stopped

----------------------------------------------------------------------------
(* What a step amounts to, seen from the permits.                          *)

\* The phase of an environment at loc with status st.
PhaseAt(loc, st) ==
  IF \/ loc \in {"wait_unlk", "crit", "sig_inc", "sleep_unq"}
     \/ loc = "sleep_lk" /\ st # "BLOCKED"
  THEN "in"
  ELSE IF loc \in {"wait_dec"} \cup AboutLocs \/ (loc = "sleep_lk" /\ st = "BLOCKED")
       THEN "waiting" ELSE "out"

Becomes(p, a, b) == Phase[p] = a /\ Phase' = [Phase EXCEPT ![p] = b]

\* Who is about to sleep, or to wake somebody, is as given.
Hurry(a, b) == (SleepsNext <=> a) /\ (WakesNext <=> b)
HurrySame == (SleepsNext' <=> SleepsNext) /\ (WakesNext' <=> WakesNext)

NoEffect == Phase' = Phase /\ HurrySame /\ UNCHANGED <<chan, count>>
Asks(p) == Becomes(p, "out", "waiting") /\ HurrySame /\ UNCHANGED <<chan, count>>
\* p takes a permit from the count,
Takes(p) == /\ Becomes(p, "waiting", "in")
            /\ count >= 1 /\ count' = count - 1
            /\ Hurry(FALSE, FALSE) /\ Hurry(FALSE, FALSE)' /\ UNCHANGED chan
\* or finds none, and goes into the channel.
FindsNone == /\ Phase' = Phase
             /\ count < 1 /\ count' = count - 1
             /\ Hurry(FALSE, FALSE) /\ Hurry(TRUE, FALSE)' /\ UNCHANGED chan
Blocks(p) == /\ Phase' = Phase
             /\ chan' = Append(chan, p)
             /\ Hurry(TRUE, FALSE) /\ Hurry(FALSE, FALSE)' /\ UNCHANGED count
\* p gives its permit back,
Gives(p) == /\ Becomes(p, "in", "out")
            /\ count' = count + 1
            /\ Hurry(FALSE, FALSE) /\ Hurry(FALSE, count <= 0)' /\ UNCHANGED chan
\* and hands it to the first that waits.
Hands(q) == /\ Becomes(q, "waiting", "in")
            /\ chan # <<>> /\ q = Head(chan) /\ chan' = Tail(chan)
            /\ Hurry(FALSE, TRUE) /\ Hurry(FALSE, FALSE)' /\ UNCHANGED count

Effect == \/ NoEffect
          \/ FindsNone
          \/ \E p \in Envs : Asks(p) \/ Takes(p) \/ Blocks(p) \/ Gives(p) \/ Hands(p)

(* The phase of an environment follows from its location and its status.   *)
LEMMA PhaseIs == /\ Phase = [p \in Envs |-> PhaseAt(pc[p], status[p])]
                 /\ Phase' = [p \in Envs |-> PhaseAt(pc'[p], status'[p])]
BY DEF Phase, Granted, Waiting, PhaseAt, AboutLocs

(* What a step of p from one location to another amounts to.               *)
LEMMA MoveEffect ==
  ASSUME IInv, NEW p \in Envs, NEW from \in Locs, NEW to \in Locs,
         At(p, from), Goto(p, to), UNCHANGED <<status, spc, cur>>
  PROVE  /\ Becomes(p, PhaseAt(from, "RUNNING"), PhaseAt(to, "RUNNING"))
         /\ Hurry(from \in AboutLocs, from \in WakingLocs)
         /\ SleepsNext' <=> to \in AboutLocs
         /\ WakesNext' <=> to \in WakingLocs
<1>1. /\ spc = "switched" /\ cur = p /\ status[p] = "RUNNING" /\ pc[p] = from
      /\ pc' = [pc EXCEPT ![p] = to] /\ pc \in [Envs -> Locs]
  BY DEF IInv, TypeOK, ChanInv, SchedInv, At, OnCpu, Goto
<1>2. Hurry(from \in AboutLocs, from \in WakingLocs)
  BY <1>1 DEF Hurry, SleepsNext, WakesNext
<1>3. (SleepsNext' <=> to \in AboutLocs) /\ (WakesNext' <=> to \in WakingLocs)
  BY <1>1 DEF SleepsNext, WakesNext
<1>4. Phase[p] = PhaseAt(from, "RUNNING")
  BY <1>1, PhaseIs
<1>5. Phase' = [q \in Envs |-> PhaseAt(pc'[q], status'[q])]
  BY PhaseIs
<1>6. Phase' = [Phase EXCEPT ![p] = PhaseAt(to, "RUNNING")]
  BY <1>1, <1>5, PhaseIs
<1> QED BY <1>2, <1>3, <1>4, <1>6 DEF Becomes

(* If the phases at both locations are the same, nothing.                  *)
LEMMA MoveNoEffect ==
  ASSUME IInv, NEW p \in Envs, NEW from \in Locs, NEW to \in Locs,
         At(p, from), Goto(p, to), UNCHANGED <<status, spc, cur, chan, count>>,
         PhaseAt(from, "RUNNING") = PhaseAt(to, "RUNNING"),
         from \in AboutLocs <=> to \in AboutLocs,
         from \in WakingLocs <=> to \in WakingLocs
  PROVE  NoEffect
<1>1. /\ Becomes(p, PhaseAt(from, "RUNNING"), PhaseAt(to, "RUNNING"))
      /\ Hurry(from \in AboutLocs, from \in WakingLocs)
      /\ SleepsNext' <=> to \in AboutLocs
      /\ WakesNext' <=> to \in WakingLocs
  BY MoveEffect
<1>2. Phase' = Phase
  BY <1>1 DEF Becomes, Phase
<1> QED BY <1>1, <1>2 DEF NoEffect, Hurry, HurrySame

(* The same, if nobody moves and only statuses of no consequence change.   *)
LEMMA AroundNoEffect ==
  ASSUME IInv, UNCHANGED <<pc, chan, count>>,
         \A q \in Envs : status'[q] = status[q] \/ (status[q] # "BLOCKED" /\ status'[q] # "BLOCKED"),
         spc = "switched" => pc[cur] \notin AboutLocs \cup WakingLocs,
         spc' = "switched" => pc[cur'] \notin AboutLocs \cup WakingLocs
  PROVE  NoEffect
<1>1. Phase' = Phase
  BY PhaseIs DEF PhaseAt
<1>2. HurrySame
  BY DEF HurrySame, SleepsNext, WakesNext
<1> QED BY <1>1, <1>2 DEF NoEffect

(* wait_ksemaphore takes a permit, or finds none and goes to sleep.        *)
LEMMA DecrementEffect ==
  ASSUME IInv, NEW p \in Envs, WaitDecrement(p)
  PROVE  Effect
<1>0. /\ At(p, "wait_dec") /\ count' = count - 1 /\ count \in Int
      /\ UNCHANGED <<status, spc, cur, chan>>
  BY DEF WaitDecrement, queueVars, schedVars, IInv, TypeOK
<1>1. /\ {"wait_dec", "sleep_q", "wait_unlk"} \subseteq Locs
      /\ {"wait_dec", "wait_unlk"} \cap (AboutLocs \cup WakingLocs) = {}
      /\ "sleep_q" \in AboutLocs \ WakingLocs
      /\ PhaseAt("wait_dec", "RUNNING") = "waiting"
      /\ PhaseAt("sleep_q", "RUNNING") = "waiting"
      /\ PhaseAt("wait_unlk", "RUNNING") = "in"
  BY DEF Locs, BaseLocs, SleepLocs, WaitLocs, AboutLocs, WakingLocs, PhaseAt
<1>2. CASE count - 1 < 0
  <2>1. Goto(p, "sleep_q")
    BY <1>2 DEF WaitDecrement
  <2>2. /\ Becomes(p, PhaseAt("wait_dec", "RUNNING"), PhaseAt("sleep_q", "RUNNING"))
        /\ Hurry("wait_dec" \in AboutLocs, "wait_dec" \in WakingLocs)
        /\ SleepsNext' <=> "sleep_q" \in AboutLocs
        /\ WakesNext' <=> "sleep_q" \in WakingLocs
    BY <1>0, <1>1, <2>1, MoveEffect
  <2>3. Phase' = Phase
    BY <1>1, <2>2 DEF Becomes, Phase
  <2>4. Hurry(FALSE, FALSE) /\ Hurry(TRUE, FALSE)'
    BY <1>1, <2>2 DEF Hurry
  <2>5. count < 1 /\ count' = count - 1 /\ UNCHANGED chan
    BY <1>0, <1>2
  <2>6. FindsNone
    BY <2>3, <2>4, <2>5 DEF FindsNone
  <2> QED BY <2>6 DEF Effect
<1>3. CASE ~(count - 1 < 0)
  <2>1. Goto(p, "wait_unlk")
    BY <1>3 DEF WaitDecrement
  <2>2. /\ Becomes(p, PhaseAt("wait_dec", "RUNNING"), PhaseAt("wait_unlk", "RUNNING"))
        /\ Hurry("wait_dec" \in AboutLocs, "wait_dec" \in WakingLocs)
        /\ SleepsNext' <=> "wait_unlk" \in AboutLocs
        /\ WakesNext' <=> "wait_unlk" \in WakingLocs
    BY <1>0, <1>1, <2>1, MoveEffect
  <2>3. Hurry(FALSE, FALSE) /\ Hurry(FALSE, FALSE)'
    BY <1>1, <2>2 DEF Hurry
  <2>4. Becomes(p, "waiting", "in") /\ count >= 1 /\ UNCHANGED chan
    BY <1>0, <1>1, <1>3, <2>2
  <2>5. Takes(p)
    BY <1>0, <2>3, <2>4 DEF Takes
  <2> QED BY <2>5 DEF Effect
<1> QED BY <1>2, <1>3

(* signal_ksemaphore gives a permit back, and wakes somebody if the count  *)
(* was below zero.                                                         *)
LEMMA IncrementEffect ==
  ASSUME IInv, NEW p \in Envs, SignalIncrement(p)
  PROVE  Effect
<1>0. /\ At(p, "sig_inc") /\ count' = count + 1 /\ count \in Int
      /\ UNCHANGED <<status, spc, cur, chan>>
  BY DEF SignalIncrement, queueVars, schedVars, IInv, TypeOK
<1> DEFINE to == IF count + 1 <= 0 THEN "wake_q" ELSE "sig_unlk"
<1>1. /\ "sig_inc" \in Locs /\ to \in Locs
      /\ {"sig_inc", to} \cap AboutLocs = {} /\ "sig_inc" \notin WakingLocs
      /\ to \in WakingLocs <=> count + 1 <= 0
      /\ PhaseAt("sig_inc", "RUNNING") = "in"
      /\ PhaseAt(to, "RUNNING") = "out"
  BY DEF Locs, BaseLocs, WakeLocs, SignalLocs, AboutLocs, WakingLocs, PhaseAt
<1>2. Goto(p, to)
  BY DEF SignalIncrement
<1> HIDE DEF to
<1>3. /\ Becomes(p, PhaseAt("sig_inc", "RUNNING"), PhaseAt(to, "RUNNING"))
      /\ Hurry("sig_inc" \in AboutLocs, "sig_inc" \in WakingLocs)
      /\ (SleepsNext' <=> to \in AboutLocs) /\ (WakesNext' <=> to \in WakingLocs)
  BY <1>0, <1>1, <1>2, MoveEffect DEF Hurry
<1>4. Hurry(FALSE, FALSE) /\ Hurry(FALSE, count <= 0)'
  BY <1>0, <1>1, <1>3 DEF Hurry
<1>5. Becomes(p, "in", "out")
  BY <1>1, <1>3
<1> QED BY <1>0, <1>4, <1>5 DEF Effect, Gives

(* sleep() puts the environment at the end of the channel.                 *)
LEMMA BlockEffect ==
  ASSUME IInv, NEW p \in Envs, SleepBlock(p), UNCHANGED count
  PROVE  Effect
<1>1. /\ spc = "switched" /\ cur = p /\ spc' = "back" /\ status[p] = "RUNNING"
      /\ status' = [status EXCEPT ![p] = "BLOCKED"]
  BY SchedSucceeds DEF IInv, SleepBlock
<1>2. /\ pc[p] = "sleep_block" /\ pc' = [pc EXCEPT ![p] = "sleep_lk"]
      /\ chan' = Append(chan, p)
      /\ pc \in [Envs -> Locs]
  BY DEF SleepBlock, At, Goto, IInv, TypeOK
<1>3. Phase' = Phase
  BY <1>1, <1>2, PhaseIs DEF PhaseAt, AboutLocs, IInv, TypeOK, ChanTypeOK
<1>4. Hurry(TRUE, FALSE) /\ Hurry(FALSE, FALSE)'
  BY <1>1, <1>2 DEF Hurry, SleepsNext, WakesNext, AboutLocs, WakingLocs
<1> QED BY <1>2, <1>3, <1>4 DEF Effect, Blocks

(* wakeup_one finds somebody to wake, and hands it the permit.             *)
LEMMA HandEffect ==
  ASSUME IInv, NEW p \in Envs, MoveOne(p), UNCHANGED count
  PROVE  Effect
<1>1. /\ spc = "switched" /\ cur = p /\ UNCHANGED <<spc, cur>>
      /\ pc[p] = "wake_move" /\ pc' = [pc EXCEPT ![p] = "wake_unq"]
      /\ pc \in [Envs -> Locs] /\ chan \in Seq(Envs) /\ count \in Int
  BY DEF MoveOne, At, OnCpu, Goto, schedVars, IInv, TypeOK, ChanTypeOK
<1>2. Hurry(FALSE, TRUE) /\ Hurry(FALSE, FALSE)'
  BY <1>1 DEF Hurry, SleepsNext, WakesNext, AboutLocs, WakingLocs
<1>3. chan # <<>>
  <2>1. One(SleepsNext) = 0 /\ One(WakesNext) = 1
    BY <1>2 DEF Hurry, One
  <2>2. (IF count < 0 THEN -count ELSE 0) = Len(chan) + 0 - 1
    BY <2>1 DEF IInv, CountInv
  <2> QED BY <1>1, <2>2
<1> DEFINE q == Head(chan)
<1>4. q \in Envs /\ pc[q] = "sleep_lk" /\ status[q] = "BLOCKED" /\ q # p
  BY <1>1, <1>3 DEF IInv, ChanInv, QueueInv
<1>5. chan' = Tail(chan) /\ status' = [e \in Envs |-> IF e = q THEN "READY" ELSE status[e]]
  BY <1>3 DEF MoveOne, sched_insert_ready
<1> HIDE DEF q
<1>6. Becomes(q, "waiting", "in")
  <2>1. Phase[q] = "waiting"
    BY <1>4, PhaseIs DEF PhaseAt
  <2>2. \A e \in Envs : PhaseAt(pc'[e], status'[e])
                          = IF e = q THEN "in" ELSE PhaseAt(pc[e], status[e])
    BY <1>1, <1>4, <1>5 DEF PhaseAt, AboutLocs
  <2>3. Phase' = [Phase EXCEPT ![q] = "in"]
    BY <2>2, PhaseIs
  <2> QED BY <2>1, <2>3 DEF Becomes
<1> QED BY <1>2, <1>3, <1>4, <1>5, <1>6 DEF Effect, Hands, q

(* wait_ksemaphore asks for a permit.                                      *)
LEMMA AskEffect ==
  ASSUME IInv, NEW p \in Envs, WaitCall(p)
  PROVE  Effect
<1>1. /\ {"user", "wait_dec"} \subseteq Locs
      /\ {"user", "wait_dec"} \cap (AboutLocs \cup WakingLocs) = {}
      /\ PhaseAt("user", "RUNNING") = "out" /\ PhaseAt("wait_dec", "RUNNING") = "waiting"
  BY DEF Locs, BaseLocs, WaitLocs, AboutLocs, WakingLocs, PhaseAt
<1>2. /\ At(p, "user") /\ Goto(p, "wait_dec")
      /\ UNCHANGED <<status, spc, cur, chan, count>>
  BY DEF WaitCall, queueVars, schedVars
<1>3. /\ Becomes(p, PhaseAt("user", "RUNNING"), PhaseAt("wait_dec", "RUNNING"))
      /\ Hurry("user" \in AboutLocs, "user" \in WakingLocs)
      /\ SleepsNext' <=> "wait_dec" \in AboutLocs
      /\ WakesNext' <=> "wait_dec" \in WakingLocs
  BY <1>1, <1>2, MoveEffect
<1>4. Becomes(p, "out", "waiting") /\ HurrySame
  BY <1>1, <1>3 DEF Hurry, HurrySame
<1>5. Asks(p)
  BY <1>2, <1>4 DEF Asks
<1> QED BY <1>5 DEF Effect

(* The other steps of an environment in the kernel take no part in it.     *)
LEMMA OtherEffect ==
  ASSUME IInv, NEW p \in Envs, UNCHANGED count,
         \/ SleepLockQ(p) \/ SleepUnlock(p) \/ SleepRelock(p)
         \/ SleepUnlockQ(p, "wait_unlk")
         \/ WakeupLockQ(p) \/ WakeupUnlockQ(p, "sig_unlk")
         \/ WaitReturn(p) \/ SignalCall(p) \/ SignalReturn(p) \/ env_exit(p)
  PROVE  NoEffect
<1> DEFINE Pairs == {<<"sleep_q", "sleep_unlk">>, <<"sleep_unlk", "sleep_block">>,
                     <<"sleep_lk", "sleep_unq">>, <<"sleep_unq", "wait_unlk">>,
                     <<"wake_q", "wake_move">>, <<"wake_unq", "sig_unlk">>,
                     <<"wait_unlk", "crit">>, <<"crit", "sig_inc">>,
                     <<"sig_unlk", "user">>, <<"user", "exit_q">>}
<1>1. /\ UNCHANGED <<status, spc, cur, chan, count>>
      /\ \E x \in Pairs : At(p, x[1]) /\ Goto(p, x[2])
  BY DEF SleepLockQ, SleepUnlock, SleepRelock, SleepUnlockQ, WakeupLockQ, WakeupUnlockQ,
         WaitReturn, SignalCall, SignalReturn, env_exit, queueVars, schedVars
<1>2. PICK x \in Pairs : At(p, x[1]) /\ Goto(p, x[2])
  BY <1>1
<1>3. /\ x[1] \in Locs /\ x[2] \in Locs
      /\ PhaseAt(x[1], "RUNNING") = PhaseAt(x[2], "RUNNING")
      /\ x[1] \in AboutLocs <=> x[2] \in AboutLocs
      /\ x[1] \in WakingLocs <=> x[2] \in WakingLocs
  BY DEF Locs, BaseLocs, SleepLocs, WakeLocs, ExitLocs, WaitLocs, SignalLocs,
         AboutLocs, WakingLocs, PhaseAt
<1> QED BY <1>1, <1>2, <1>3, MoveNoEffect

(* What happens under an environment's feet takes no part in it either:    *)
(* the clock, the way back from it, env_exit() and the scheduler.          *)
LEMMA UnderEffect ==
  ASSUME IInv, UNCHANGED count,
         \/ \E p \in Envs : EnvBase(p) \/ clock_interrupt_handler(p)
         \/ fos_scheduler
  PROVE  NoEffect
<1>0. /\ pc \in [Envs -> Locs] /\ ChanInv
      /\ status \in [Envs -> {"READY", "RUNNING", "BLOCKED", "EXIT"}]
  BY DEF IInv, TypeOK, ChanTypeOK
<1>1. ASSUME NEW p \in Envs, ExitSched(p) PROVE NoEffect
  <2>1. /\ spc = "switched" /\ cur = p /\ spc' = "back" /\ status[p] = "RUNNING"
        /\ status' = [status EXCEPT ![p] = "EXIT"]
    BY <1>0, <1>1, SchedSucceeds DEF ExitSched
  <2>2. pc[p] = "exit_q" /\ pc' = [pc EXCEPT ![p] = "exited"] /\ chan' = chan
    BY <1>1 DEF ExitSched, At, Goto
  <2>3. Phase' = Phase
    BY <1>0, <2>1, <2>2, PhaseIs DEF PhaseAt, AboutLocs
  <2>4. HurrySame
    BY <2>1, <2>2 DEF HurrySame, SleepsNext, WakesNext, AboutLocs, WakingLocs
  <2> QED BY <2>2, <2>3, <2>4 DEF NoEffect
<1>2. ASSUME NEW p \in Envs, ReturnFromSched(p) \/ trapret(p) PROVE NoEffect
  <2>1. UNCHANGED <<pc, chan, status, spc, cur>>
    BY <1>2 DEF ReturnFromSched, trapret, queueVars
  <2> QED BY <2>1, PhaseIs DEF NoEffect, HurrySame, SleepsNext, WakesNext
<1>3. ASSUME NEW p \in Envs, clock_interrupt_handler(p) PROVE NoEffect
  <2>1. /\ cur = p /\ status[p] = "RUNNING" /\ pc[p] \in {"user", "crit"}
        /\ status' = [status EXCEPT ![p] = "READY"] /\ spc' = "back"
        /\ UNCHANGED <<pc, chan>>
    BY <1>0, <1>3, ClockEffect
  <2> QED BY <1>0, <2>1, AroundNoEffect DEF AboutLocs, WakingLocs
<1>4. CASE SchedRun
  <2>1. /\ spc = "next" /\ spc' = "switched" /\ UNCHANGED <<pc, chan>>
        /\ cur' = Head(fos_scheduler_RR) /\ fos_scheduler_RR # <<>>
        /\ status' = [status EXCEPT ![cur'] = "RUNNING"]
    BY <1>4 DEF SchedRun
  <2>2. cur' \in Envs /\ status[cur'] = "READY"
    <3>1. CASE ready = <<>>
      BY <2>1, <3>1 DEF fos_scheduler_RR, IInv, ChanInv, ChanTypeOK, SchedInv
    <3>2. CASE ready # <<>>
      <4>1. ready \in Seq(Envs) /\ cur' = Head(ready)
        BY <2>1, <3>2 DEF fos_scheduler_RR, IInv, ChanInv, ChanTypeOK
      <4> QED BY <3>2, <4>1 DEF IInv, ChanInv, QueueInv
    <3> QED BY <3>1, <3>2
  <2>3. pc[cur'] \in {"user", "crit", "sleep_lk", "exited"}
    BY <1>0, <2>1, <2>2, OffCpuLocs DEF OffCpu
  <2> QED BY <1>0, <2>1, <2>2, <2>3, AroundNoEffect DEF AboutLocs, WakingLocs
<1>5. CASE SchedSti \/ SchedLock \/ SchedIdle \/ SchedBack
  <2>1. UNCHANGED <<pc, chan, status>> /\ spc # "switched" /\ spc' # "switched"
    BY <1>5 DEF SchedSti, SchedLock, SchedIdle, SchedBack, queueVars, Halt
  <2> QED BY <2>1, AroundNoEffect
<1> QED BY <1>1, <1>2, <1>3, <1>4, <1>5 DEF EnvBase, fos_scheduler

(* Every step has one of these effects.                                    *)
LEMMA StepEffect ==
  ASSUME IInv, [Next]_vars
  PROVE  Effect
<1>1. ASSUME NEW p \in Envs, Kernel(p) \/ User(p) PROVE Effect
  <2>1. CASE WaitSleep(p)
    BY <2>1, OtherEffect, BlockEffect DEF WaitSleep, sleep, Effect
  <2>2. CASE SignalWakeup(p)
    BY <2>2, OtherEffect, HandEffect DEF SignalWakeup, wakeup_one, Effect
  <2>3. CASE WaitReturn(p) \/ SignalCall(p) \/ SignalReturn(p)
    <3>1. UNCHANGED count
      BY <2>3 DEF WaitReturn, SignalCall, SignalReturn
    <3> QED BY <2>3, <3>1, OtherEffect DEF Effect
  <2>4. CASE env_exit(p) /\ UNCHANGED count
    BY <2>4, OtherEffect DEF Effect
  <2> QED BY <1>1, <2>1, <2>2, <2>3, <2>4, AskEffect, DecrementEffect, IncrementEffect
          DEF Kernel, User
<1>2. ASSUME NEW p \in Envs, Resume(p) \/ Clock(p) PROVE Effect
  BY <1>2, UnderEffect DEF Resume, Clock, Effect
<1>3. CASE Scheduler
  BY <1>3, UnderEffect DEF Scheduler, Effect
<1>4. CASE UNCHANGED vars
  BY <1>4, PhaseIs DEF vars, chanVars, queueVars, schedVars, Effect, NoEffect, HurrySame,
                       SleepsNext, WakesNext
<1> QED BY <1>1, <1>2, <1>3, <1>4 DEF Next, Stopped

----------------------------------------------------------------------------
(* Where the permits are.                                                  *)

(* Who comes in is one more, and who leaves one less.                      *)
LEMMA InsideCount ==
  /\ Cardinality(Inside) \in Nat
  /\ \A p \in Envs : Becomes(p, "waiting", "in")
                       => Cardinality(Inside') = Cardinality(Inside) + 1
  /\ \A p \in Envs : Becomes(p, "in", "out")
                       => Cardinality(Inside') = Cardinality(Inside) - 1
<1>1. IsFiniteSet(Inside)
  BY EnvsAssumption, FS_Subset DEF Inside
<1>2. Cardinality(Inside) \in Nat
  BY <1>1, FS_CardinalityType
<1>3. ASSUME NEW p \in Envs, Becomes(p, "waiting", "in")
      PROVE  Cardinality(Inside') = Cardinality(Inside) + 1
  <2>1. Inside' = Inside \cup {p} /\ p \notin Inside
    BY <1>3 DEF Inside, Becomes, Phase
  <2> QED BY <1>1, <2>1, FS_AddElement
<1>4. ASSUME NEW p \in Envs, Becomes(p, "in", "out")
      PROVE  Cardinality(Inside') = Cardinality(Inside) - 1
  <2>1. Inside' = Inside \ {p} /\ p \in Inside
    BY <1>4 DEF Inside, Becomes, Phase
  <2> QED BY <1>1, <2>1, FS_RemoveElement
<1> QED BY <1>2, <1>3, <1>4

(* Every effect keeps count, channel and phases in step.                   *)
LEMMA EffectStep ==
  ASSUME IInv, Effect
  PROVE  count' \in Int /\ CountInv' /\ PermitInv'
<1>0. count \in Int /\ chan \in Seq(Envs) /\ Len(chan) \in Nat /\ InitValue \in Nat
  BY InitValueAssumption DEF IInv, TypeOK, ChanTypeOK
<1> DEFINE neg(c) == IF c < 0 THEN -c ELSE 0
           S == One(SleepsNext)
           W == One(WakesNext)
           N == Cardinality(Inside)
<1>1. /\ neg(count) = Len(chan) + S - W
      /\ WakesNext => count <= 0
      /\ count + N + Len(chan) + S = InitValue
      /\ N \in Nat /\ S \in {0, 1} /\ W \in {0, 1}
  BY InsideCount DEF IInv, CountInv, PermitInv, One
<1>2. SUFFICES /\ count' \in Int
               /\ neg(count') = Len(chan') + S' - W'
               /\ WakesNext' => count' <= 0
               /\ count' + N' + Len(chan') + S' = InitValue
  BY DEF CountInv, PermitInv
<1>3. Phase' = Phase => N' = N
  BY DEF Inside
<1> HIDE DEF N
<1>4. CASE NoEffect
  BY <1>0, <1>1, <1>3, <1>4 DEF NoEffect, HurrySame, One
<1>5. CASE FindsNone
  BY <1>0, <1>1, <1>3, <1>5 DEF FindsNone, Hurry, One
<1>6. ASSUME NEW p \in Envs, Asks(p) PROVE <1>2!1
  <2>1. N' = N
    BY <1>6 DEF Asks, Becomes, Inside, Phase, N
  <2> QED BY <1>0, <1>1, <1>6, <2>1 DEF Asks, HurrySame, One
<1>7. ASSUME NEW p \in Envs, Takes(p) PROVE <1>2!1
  <2>1. N' = N + 1
    BY <1>7, InsideCount DEF Takes, N
  <2> QED BY <1>0, <1>1, <1>7, <2>1 DEF Takes, Hurry, One
<1>8. ASSUME NEW p \in Envs, Blocks(p) PROVE <1>2!1
  <2>1. Len(chan') = Len(chan) + 1 /\ N' = N
    BY <1>0, <1>3, <1>8 DEF Blocks
  <2> QED BY <1>0, <1>1, <1>8, <2>1 DEF Blocks, Hurry, One
<1>9. ASSUME NEW p \in Envs, Gives(p) PROVE <1>2!1
  <2>1. N' = N - 1
    BY <1>9, InsideCount DEF Gives, N
  <2> QED BY <1>0, <1>1, <1>9, <2>1 DEF Gives, Hurry, One
<1>10. ASSUME NEW p \in Envs, Hands(p) PROVE <1>2!1
  <2>1. N' = N + 1 /\ Len(chan') = Len(chan) - 1
    BY <1>0, <1>10, InsideCount DEF Hands, N
  <2>2. S = 0 /\ W = 1 /\ S' = 0 /\ W' = 0 /\ ~WakesNext' /\ count' = count
    BY <1>10 DEF Hands, Hurry, One
  <2> QED BY <1>0, <1>1, <2>1, <2>2
<1> QED BY <1>4, <1>5, <1>6, <1>7, <1>8, <1>9, <1>10 DEF Effect

(* Initially nobody is inside, and every permit is in the count.           *)
LEMMA InitInv == Init => IInv
<1> SUFFICES ASSUME Init PROVE IInv
  OBVIOUS
<1>1. ChanInv
  BY ChanInitInv DEF Init
<1>2. TypeOK
  BY <1>1, InitValueAssumption DEF Init, ChanInit, ChanInv, TypeOK, Locs, BaseLocs
<1>3. One(SleepsNext) = 0 /\ One(WakesNext) = 0 /\ ~WakesNext /\ Len(chan) = 0
  BY DEF Init, ChanInit, SleepsNext, WakesNext, One
<1>4. Cardinality(Inside) = 0
  <2>1. Inside = {}
    BY DEF Init, ChanInit, Inside, Phase, Granted, Waiting
  <2> QED BY <2>1, FS_EmptySet
<1>5. CountInv /\ PermitInv
  BY <1>3, <1>4, InitValueAssumption DEF Init, CountInv, PermitInv
<1> QED BY <1>1, <1>2, <1>5 DEF IInv

(* No step leaves the locations of this module.                            *)
LEMMA LocsStep ==
  ASSUME IInv, [Next]_vars
  PROVE  pc' \in [Envs -> Locs]
<1> USE DEF Goto, IInv, TypeOK, Locs, BaseLocs, SleepLocs, WakeLocs, ExitLocs, WaitLocs, SignalLocs
<1>1. ASSUME NEW p \in Envs, Kernel(p) PROVE pc' \in [Envs -> Locs]
  BY <1>1 DEF Kernel, WaitDecrement, WaitSleep, sleep, SleepLockQ, SleepUnlock, SleepBlock,
              SleepRelock, SleepUnlockQ, WaitReturn, SignalCall, SignalIncrement,
              SignalWakeup, wakeup_one, WakeupLockQ, MoveOne, WakeupUnlockQ, SignalReturn
<1>2. ASSUME NEW p \in Envs, User(p) \/ Resume(p) \/ Clock(p) PROVE pc' \in [Envs -> Locs]
  BY <1>2 DEF User, WaitCall, env_exit, Resume, EnvBase, ExitSched, ReturnFromSched,
              trapret, Clock, clock_interrupt_handler
<1>3. CASE Scheduler \/ UNCHANGED vars
  BY <1>3 DEF Scheduler, fos_scheduler, SchedSti, SchedLock, SchedRun, SchedIdle,
              SchedBack, vars, chanVars
<1> QED BY <1>1, <1>2, <1>3 DEF Next, Stopped

(* Every step keeps the invariant.                                         *)
LEMMA IInvStep == IInv /\ [Next]_vars => IInv'
<1> SUFFICES ASSUME IInv, [Next]_vars PROVE IInv'
  OBVIOUS
<1>1. count' \in Int /\ CountInv' /\ PermitInv'
  BY StepEffect, EffectStep
<1> QED BY <1>1, ChanStep, LocsStep DEF IInv, TypeOK, ChanInv

(* The invariant holds in every reachable state.                           *)
LEMMA Invariance == Spec => []IInv
BY InitInv, IInvStep, PTL DEF Spec

----------------------------------------------------------------------------
(* The theorems.                                                           *)

(* The variables keep their types in every behaviour of the semaphore over *)
(* the channel, the spinlocks and the scheduler.                           *)
THEOREM TypeCorrect == Spec => []TypeOK
<1>1. IInv => TypeOK
  BY DEF IInv
<1> QED BY <1>1, Invariance, PTL

(* No panic of acquire_kspinlock, release_kspinlock, sched() or            *)
(* fos_scheduler() is reached through the semaphore.                       *)
THEOREM PanicFree == Spec => []~panic
<1>1. IInv => ~panic
  BY DEF IInv, ChanInv, CpuInv, CpuAt
<1> QED BY <1>1, Invariance, PTL

(* A negative count is the number of environments in the channel, give or  *)
(* take the one on its way into it or to it.                               *)
THEOREM CountMatches == Spec => []CountMatchesChannel
<1>1. ASSUME IInv PROVE CountMatchesChannel
  <2>1. \A p \in Envs : pc[p] \in AboutLocs \cup WakingLocs => spc = "switched" /\ cur = p
    BY <1>1, OffCpuLocs DEF IInv, OffCpu, AboutLocs, WakingLocs
  <2>2. Cardinality(AboutToSleep) = One(SleepsNext)
    <3>1. CASE SleepsNext
      <4>1. AboutToSleep = {cur}
        BY <1>1, <2>1, <3>1 DEF AboutToSleep, SleepsNext, AboutLocs, IInv, ChanInv, SchedInv
      <4> QED BY <3>1, <4>1, FS_Singleton DEF One
    <3>2. CASE ~SleepsNext
      <4>1. AboutToSleep = {}
        BY <2>1, <3>2 DEF AboutToSleep, SleepsNext, AboutLocs
      <4> QED BY <3>2, <4>1, FS_EmptySet DEF One
    <3> QED BY <3>1, <3>2
  <2>3. Cardinality(AboutToWake) = One(WakesNext)
    <3>1. CASE WakesNext
      <4>1. AboutToWake = {cur}
        BY <1>1, <2>1, <3>1 DEF AboutToWake, WakesNext, WakingLocs, IInv, ChanInv, SchedInv
      <4> QED BY <3>1, <4>1, FS_Singleton DEF One
    <3>2. CASE ~WakesNext
      <4>1. AboutToWake = {}
        BY <2>1, <3>2 DEF AboutToWake, WakesNext, WakingLocs
      <4> QED BY <3>2, <4>1, FS_EmptySet DEF One
    <3> QED BY <3>1, <3>2
  <2> QED BY <1>1, <2>2, <2>3 DEF IInv, CountInv, CountMatchesChannel
<1>2. IInv => CountMatchesChannel
  BY <1>1
<1> QED BY <1>2, Invariance, PTL

(* How many are inside is what the count and the waiters leave over.       *)
LEMMA RoomInside ==
  ASSUME IInv
  PROVE  /\ Cardinality(Inside) <= InitValue
         /\ WakesNext \/ count >= 1 => Cardinality(Inside) < InitValue
<1>1. count \in Int /\ Len(chan) \in Nat /\ InitValue \in Nat /\ Cardinality(Inside) \in Nat
  BY InitValueAssumption, InsideCount DEF IInv, TypeOK, ChanTypeOK
<1>2. One(SleepsNext) \in {0, 1} /\ One(WakesNext) \in {0, 1}
  BY DEF One
<1>3. WakesNext => One(WakesNext) = 1 /\ count <= 0
  BY DEF One, IInv, CountInv
<1>4. /\ (IF count < 0 THEN -count ELSE 0) = Len(chan) + One(SleepsNext) - One(WakesNext)
      /\ count + Cardinality(Inside) + Len(chan) + One(SleepsNext) = InitValue
  BY DEF IInv, CountInv, PermitInv
<1> QED BY <1>1, <1>2, <1>3, <1>4

(* At most InitValue environments hold a permit: those between             *)
(* wait_ksemaphore and signal_ksemaphore, and those that have been woken   *)
(* for one and are not back yet.                                           *)
THEOREM PermitsBounded == Spec => [](Cardinality(Inside) <= InitValue)
<1>1. IInv => Cardinality(Inside) <= InitValue
  BY RoomInside
<1> QED BY <1>1, Invariance, PTL

(* The semaphore implements Exclusion with InitValue places: every step of *)
(* the code is a step of the abstract lock or leaves it alone.  (Liveness, *)
(* the rest of ImplementsExclusion, is model-checked.)                     *)
THEOREM Refinement == Spec => Excl!Spec
<1>1. Init => Excl!Init
  BY DEF Init, ChanInit, Excl!Init, Phase, Granted, Waiting
<1>2. ASSUME IInv, Effect PROVE [Excl!Next]_Phase
  <2>0. Excl!Inside = Inside /\ Excl!Cardinality(Inside) = Cardinality(Inside)
    BY DEF Excl!Inside, Inside, Excl!Cardinality, Cardinality
  <2>1. CASE NoEffect \/ FindsNone
    BY <2>1 DEF NoEffect, FindsNone
  <2>2. ASSUME NEW p \in Envs, Asks(p) PROVE Excl!Next
    BY <2>2 DEF Asks, Becomes, Excl!Next, Excl!Request
  <2>3. ASSUME NEW p \in Envs, Takes(p) \/ Hands(p) PROVE Excl!Next
    <3>1. Becomes(p, "waiting", "in") /\ (count >= 1 \/ WakesNext)
      BY <2>3 DEF Takes, Hands, Hurry
    <3>2. Cardinality(Inside) < InitValue
      BY <1>2, <3>1, RoomInside
    <3> QED BY <2>0, <3>1, <3>2 DEF Becomes, Excl!Next, Excl!Enter
  <2>4. ASSUME NEW p \in Envs, Blocks(p) PROVE Phase' = Phase
    BY <2>4 DEF Blocks
  <2>5. ASSUME NEW p \in Envs, Gives(p) PROVE Excl!Next
    BY <2>5 DEF Gives, Becomes, Excl!Next, Excl!Leave
  <2> QED BY <1>2, <2>1, <2>2, <2>3, <2>4, <2>5 DEF Effect
<1>3. IInv /\ [Next]_vars => [Excl!Next]_Phase
  BY <1>2, StepEffect
<1> QED BY <1>1, <1>3, Invariance, PTL DEF Spec, Excl!Spec

============================================================================
