------------------------------- MODULE Sched -------------------------------
(***************************************************************************)
(* The life of environments and the CPU scheduler: kern/cpu/sched.c,       *)
(* kern/cpu/sched_helpers.c, and the parts of                              *)
(* kern/proc/user_environment.c, kern/trap/syscall.c and                   *)
(* kern/cmd/commands.c that call them.                                     *)
(*                                                                         *)
(* Code that holds ProcessQueues.qlock runs with interrupts off on the one *)
(* CPU, so each locked section is one action.  A system call that leaves   *)
(* the lock between two sections is two actions, and op remembers what is  *)
(* left to do: the clock may preempt the caller in between.  So is a store *)
(* that env_set_priority makes without the lock.                           *)
(*                                                                         *)
(* Queues are sequences whose first element is the next to be dequeued:    *)
(* enqueue inserts at the head of the C list and dequeue takes its last.   *)
(*                                                                         *)
(* An operator that ends in _slip is a deliberately wrong form of the      *)
(* definition below it, which the properties must tell from the right one. *)
(***************************************************************************)
EXTENDS Integers, Sequences, FiniteSets, SequencesExt, Queues

CONSTANTS
  Envs,        \* the slots of envs[]
  NoEnv,       \* the null struct Env pointer
  Levels,      \* num_of_ready_queues of PRIRR; RR has one
  Threshold,   \* starvation_threshold
  Priorities,  \* the priorities that programs and commands ask for
  Workload     \* the schedulers (values of scheduler_method) that may be
               \* chosen, and for each the system calls that programs make

ASSUME SchedAssumption ==
  /\ NoEnv \notin Envs /\ IsFiniteSet(Envs)
  /\ Levels \in Nat \ {0}
  /\ Threshold \in Nat
  /\ Priorities \subseteq 0..(Levels - 1)
  /\ DOMAIN Workload \subseteq {"RR", "PRIRR"}
  /\ \A m \in DOMAIN Workload :
       Workload[m] \subseteq {"create", "kill", "block", "setprio", "setprio_stale"}

VARIABLES
  scheduler_method,  \* "RR" or "PRIRR", as the last sched command set it
  status,    \* [Envs -> ...]: env_status
  priority,  \* [Envs -> Int]: priority
  waited,    \* [Envs -> Nat]: samawaiting_ticks
  newQ,      \* ProcessQueues.env_new_queue
  readyQ,    \* [0..Levels-1 -> Seq(Envs)]: ProcessQueues.env_ready_queues
  exitQ,     \* ProcessQueues.env_exit_queue
  chanQ,     \* the environments that sleep on some channel
  cur,       \* mycpu()->proc
  ctl,       \* who has the CPU: "prompt", "sched", "env" (that is, cur),
             \* "gone" (cur, freed by itself), or nobody: "dead"
  op,        \* [Envs -> ...]: what is left of a system call in progress
  fault      \* the checks that failed and the stray writes that happened

queues == <<newQ, readyQ, exitQ, chanQ>>
attrs == <<status, priority, waited>>
vars == <<scheduler_method, attrs, queues, cur, ctl, op, fault>>

Level == 0..(Levels - 1)
NoOp == [kind |-> "none", env |-> NoEnv, prio |-> 0]

\* e is on the CPU, in user mode or between two instructions of the kernel
\* that leave interrupts on.
Running(e) == ctl = "env" /\ cur = e
Idle(e) == Running(e) /\ op[e] = NoOp

ReadyIn(e) == {i \in Level : Contains(readyQ[i], e)}
Drop(s, e) == Filter(s, Envs \ {e})

----------------------------------------------------------------------------
(* Queue helpers.                                                          *)

\* sched_insert_ready for every environment of s in turn.  The queue is
\* indexed with the priority, unchecked: an index outside the array is a
\* stray write, and the environment is in no queue.
sched_insert_ready(q, s) ==
  [i \in Level |-> q[i] \o Filter(s, {e \in Envs : priority[e] = i})]

SetStatus(S, st) == [e \in Envs |-> IF e \in S THEN st ELSE status[e]]

\* allocate_environment .. complete_environment_initialization: a free slot,
\* zeroed when it was freed, so its priority is 0.
Created(e) == status[e] = "FREE"

----------------------------------------------------------------------------
(* The command prompt.  It runs with interrupts off and no current         *)
(* environment.                                                            *)

AtPrompt == ctl = "prompt"

\* CreateEnv sets a priority under PRIRR only.
Askable == IF scheduler_method = "PRIRR" THEN Priorities ELSE {0}

\* CreateEnv with env_set_priority, then sched_new_env.
command_load_env(e, prio) ==
  /\ AtPrompt /\ Created(e)
  /\ status' = [status EXCEPT ![e] = "NEW"]
  /\ priority' = [priority EXCEPT ![e] = prio]
  /\ newQ' = Append(newQ, e)
  /\ UNCHANGED <<scheduler_method, waited, readyQ, exitQ, chanQ, cur, ctl, op,
                 fault>>

\* CreateEnv, sched_new_env, and sched_run_env, which starts the scheduler.
command_run_program(e, prio) ==
  /\ AtPrompt /\ Created(e)
  /\ status' = [status EXCEPT ![e] = "READY"]
  /\ priority' = [priority EXCEPT ![e] = prio]
  /\ readyQ' = [readyQ EXCEPT ![prio] = Append(@, e)]
  /\ ctl' = "sched"
  /\ UNCHANGED <<scheduler_method, waited, newQ, exitQ, chanQ, cur, op, fault>>

sched_run_all ==
  /\ AtPrompt /\ newQ # <<>>
  /\ newQ' = <<>>
  /\ readyQ' = sched_insert_ready(readyQ, newQ)
  /\ status' = SetStatus(Range(newQ), "READY")
  /\ ctl' = "sched"
  /\ UNCHANGED <<scheduler_method, priority, waited, exitQ, chanQ, cur, op,
                 fault>>

\* env_free of every environment of S: free_environment zeroes the slots.
env_free(S) ==
  /\ status' = SetStatus(S, "FREE")
  /\ priority' = [e \in Envs |-> IF e \in S THEN 0 ELSE priority[e]]
  /\ waited' = [e \in Envs |-> IF e \in S THEN 0 ELSE waited[e]]

\* sched_kill_env from the prompt, for an environment it finds.
command_kill_program(e) ==
  /\ AtPrompt /\ (Contains(newQ, e) \/ Contains(exitQ, e))
  /\ newQ' = Drop(newQ, e)
  /\ exitQ' = Drop(exitQ, e)
  /\ env_free({e})
  /\ op' = [op EXCEPT ![e] = NoOp]
  /\ UNCHANGED <<scheduler_method, readyQ, chanQ, cur, ctl, fault>>

sched_kill_all ==
  /\ AtPrompt
  /\ LET S == Range(newQ) \cup Range(exitQ)
              \cup UNION {Range(readyQ[i]) : i \in Level}
     IN  /\ S # {}
         /\ env_free(S)
         /\ op' = [e \in Envs |-> IF e \in S THEN NoOp ELSE op[e]]
  /\ newQ' = <<>> /\ exitQ' = <<>>
  /\ readyQ' = [i \in Level |-> <<>>]
  /\ UNCHANGED <<scheduler_method, chanQ, cur, ctl, fault>>

Prompt ==
  \/ \E e \in Envs : \/ \E prio \in Askable : \/ command_load_env(e, prio)
                                              \/ command_run_program(e, prio)
                     \/ command_kill_program(e)
  \/ sched_run_all
  \/ sched_kill_all

----------------------------------------------------------------------------
(* System calls of the running environment.                                *)

\* sys_create_env: env_create runs with interrupts off, sched_new_env later.
sys_create_env(p, e) ==
  /\ "create" \in Workload[scheduler_method]
  /\ Idle(p) /\ Created(e)
  /\ status' = [status EXCEPT ![e] = "NEW"]
  /\ op' = [op EXCEPT ![p] = [kind |-> "new", env |-> e, prio |-> 0]]
  /\ UNCHANGED <<scheduler_method, priority, waited, queues, cur, ctl, fault>>

\* The environment is initialised and not enqueued.
sched_new_env_slip(p) ==
  /\ Running(p) /\ op[p].kind = "new"
  /\ status' = [status EXCEPT ![op[p].env] = "NEW"]
  /\ op' = [op EXCEPT ![p] = NoOp]
  /\ UNCHANGED <<scheduler_method, priority, waited, queues, cur, ctl, fault>>

sched_new_env(p) ==
  /\ Running(p) /\ op[p].kind = "new"
  /\ newQ' = Append(newQ, op[p].env)
  /\ status' = [status EXCEPT ![op[p].env] = "NEW"]
  /\ op' = [op EXCEPT ![p] = NoOp]
  /\ UNCHANGED <<scheduler_method, priority, waited, readyQ, exitQ, chanQ, cur,
                 ctl, fault>>

sys_run_env(p, e) ==
  /\ Idle(p) /\ Contains(newQ, e)
  /\ newQ' = Drop(newQ, e)
  /\ readyQ' = sched_insert_ready(readyQ, <<e>>)
  /\ status' = [status EXCEPT ![e] = "READY"]
  /\ UNCHANGED <<scheduler_method, priority, waited, exitQ, chanQ, cur, ctl,
                 op, fault>>

\* env_exit -> sched_exit_env -> sched; the scheduler finds status EXIT and
\* clears the current environment.
LeaveCpu(p, st) ==
  /\ status' = [status EXCEPT ![p] = st]
  /\ ctl' = "sched"
  /\ cur' = NoEnv

sys_exit_env(p) ==
  /\ Idle(p)
  /\ exitQ' = Append(exitQ, p)
  /\ LeaveCpu(p, "EXIT")
  /\ UNCHANGED <<scheduler_method, priority, waited, newQ, readyQ, chanQ, op,
                 fault>>

\* sleep() and wakeup_one() of a channel; see module Channel.
Block(p) ==
  /\ "block" \in Workload[scheduler_method]
  /\ Idle(p)
  /\ chanQ' = Append(chanQ, p)
  /\ LeaveCpu(p, "BLOCKED")
  /\ UNCHANGED <<scheduler_method, priority, waited, newQ, readyQ, exitQ, op,
                 fault>>

\* By the running environment, or by the interrupt of a device, wherever
\* interrupts are on.
Wakeup ==
  /\ chanQ # <<>> /\ ctl \in {"sched", "env", "gone"}
  /\ readyQ' = sched_insert_ready(readyQ, <<Head(chanQ)>>)
  /\ status' = [status EXCEPT ![Head(chanQ)] = "READY"]
  /\ chanQ' = Tail(chanQ)
  /\ UNCHANGED <<scheduler_method, priority, waited, newQ, exitQ, cur, ctl, op,
                 fault>>

\* sys_destroy_env: envid2env accepts any environment that is not free.
sys_destroy_env(p, e) ==
  /\ "kill" \in Workload[scheduler_method]
  /\ Idle(p) /\ status[e] # "FREE"
  /\ op' = [op EXCEPT ![p] = [kind |-> "kill", env |-> e, prio |-> 0]]
  /\ UNCHANGED <<scheduler_method, attrs, queues, cur, ctl, fault>>

\* sched_kill_env: the victim is unlinked under the lock and freed after the
\* lock is released.  One that is found nowhere is left alone.
sched_kill_env(p) ==
  /\ Running(p) /\ op[p].kind = "kill"
  /\ LET e == op[p].env
         found == Contains(newQ, e) \/ ReadyIn(e) # {} \/ Contains(exitQ, e)
     IN  /\ e # p
         /\ newQ' = Drop(newQ, e)
         /\ readyQ' = [i \in Level |-> Drop(readyQ[i], e)]
         /\ exitQ' = Drop(exitQ, e)
         /\ status' = IF Contains(newQ, e) \/ Contains(exitQ, e)
                      THEN [status EXCEPT ![e] = "UNKNOWN"] ELSE status
         /\ op' = [op EXCEPT ![p] = IF found THEN [@ EXCEPT !.kind = "free"]
                                    ELSE NoOp]
  /\ UNCHANGED <<scheduler_method, priority, waited, chanQ, cur, ctl, fault>>

KillFree(p) ==
  /\ Running(p) /\ op[p].kind = "free"
  /\ env_free({op[p].env})
  /\ op' = [op EXCEPT ![p] = NoOp, ![op[p].env] = NoOp]
  /\ UNCHANGED <<scheduler_method, queues, cur, ctl, fault>>

\* The running environment destroys itself.  env_free runs with interrupts
\* on, after qlock is released, and gives back the directory and the kernel
\* stack that are in use.
KillSelf(p) ==
  /\ Running(p) /\ op[p].kind = "kill" /\ op[p].env = p
  /\ env_free({p})
  /\ op' = [op EXCEPT ![p] = NoOp]
  /\ ctl' = "gone"
  /\ UNCHANGED <<scheduler_method, queues, cur, fault>>

\* What is left of sched_kill_env: the lock is acquired and sched() leaves
\* the CPU; the scheduler clears the current environment.  Or the freed
\* stack is missed, or the clock comes first and its yield() makes an
\* environment READY that has no directory: the machine stops.
LeaveFreed ==
  /\ ctl = "gone"
  /\ \/ ctl' = "sched" /\ cur' = NoEnv
     \/ ctl' = "dead" /\ cur' = cur
  /\ UNCHANGED <<scheduler_method, attrs, queues, op, fault>>

\* The priority of a READY environment changes and its queue does not.
env_set_priority_slip(p, e, prio) ==
  /\ "setprio" \in Workload[scheduler_method]
  /\ Idle(p) /\ status[e] # "FREE"
  /\ priority' = [priority EXCEPT ![e] = prio]
  /\ UNCHANGED <<scheduler_method, op, status, waited, queues, cur, ctl,
                 fault>>

\* env_set_priority: status is read before qlock is taken, and so is any
\* other status than READY before the priority is stored without the lock.
env_set_priority(p, e, prio) ==
  /\ "setprio" \in Workload[scheduler_method]
  /\ Idle(p) /\ status[e] # "FREE"
  /\ op' = [op EXCEPT ![p] =
              [kind |-> IF status[e] = "READY" THEN "setprio" ELSE "setprio_store",
               env |-> e, prio |-> prio]]
  /\ UNCHANGED <<scheduler_method, priority, status, waited, queues, cur, ctl,
                 fault>>

\* The other branch, for an environment that was not READY, takes no lock:
\* by now it may wait in the queue of its old priority.
SetPriorityStore(p) ==
  /\ Running(p) /\ op[p].kind = "setprio_store"
  /\ priority' = [priority EXCEPT ![op[p].env] = op[p].prio]
  /\ op' = [op EXCEPT ![p] = NoOp]
  /\ UNCHANGED <<scheduler_method, status, waited, queues, cur, ctl, fault>>

\* Looks for e at the level of its priority only.
sched_remove_ready_slip(e) == [readyQ EXCEPT ![priority[e]] = Drop(@, e)]

\* The environment is looked for at every level.
sched_remove_ready(e) == [i \in Level |-> Drop(readyQ[i], e)]

\* The locked section: sched_remove_ready asserts that the status is READY.
\* A panic makes the running environment exit (kern/init.c).
SetPriorityLocked(p) ==
  /\ Running(p) /\ op[p].kind = "setprio"
  /\ LET e == op[p].env
     IN  \/ /\ status[e] = "READY"
            /\ priority' = [priority EXCEPT ![e] = op[p].prio]
            /\ waited' = [waited EXCEPT ![e] = 0]
            /\ readyQ' = [sched_remove_ready(e) EXCEPT
                          ![op[p].prio] = Append(@, e)]
            /\ UNCHANGED <<status, exitQ, cur, ctl, fault>>
         \/ /\ status[e] # "READY"
            /\ fault' = fault \cup {"assert: sched_remove_ready"}
            /\ exitQ' = Append(exitQ, p)
            /\ LeaveCpu(p, "EXIT")
            /\ UNCHANGED <<priority, waited, readyQ>>
  /\ op' = [op EXCEPT ![p] = NoOp]
  /\ UNCHANGED <<scheduler_method, newQ, chanQ>>

\* env_set_priority of an id that envid2env rejects: qlock is released
\* without having been acquired.
SetPriorityStale(p, e) ==
  /\ "setprio_stale" \in Workload[scheduler_method]
  /\ Idle(p) /\ status[e] = "FREE"
  /\ fault' = fault \cup {"panic: release of qlock"}
  /\ exitQ' = Append(exitQ, p)
  /\ LeaveCpu(p, "EXIT")
  /\ UNCHANGED <<scheduler_method, priority, waited, newQ, readyQ, chanQ, op>>

Syscall(p) ==
  \/ \E e \in Envs : \/ sys_create_env(p, e)
                     \/ sys_run_env(p, e)
                     \/ sys_destroy_env(p, e)
                     \/ \E prio \in Askable : env_set_priority(p, e, prio)
                     \/ SetPriorityStale(p, e)
  \/ sys_exit_env(p) \/ Block(p)

\* The second half of a system call in progress.
Finish(p) == \/ sched_new_env(p) \/ SetPriorityLocked(p) \/ SetPriorityStore(p)
             \/ sched_kill_env(p) \/ KillFree(p) \/ KillSelf(p)

----------------------------------------------------------------------------
(* The clock interrupt: ageing, then yield().  The levels are visited from *)
(* 0 up.  LIST_FOREACH walks a queue from the last enqueued, so those who  *)
(* leave it arrive in reverse order at the level above their priority,     *)
(* which is above their queue unless the priority was stored too late.     *)

Starved(e) == scheduler_method = "PRIRR" /\ waited[e] > Threshold
Staying(i) == Filter(readyQ[i], {e \in Envs : ~Starved(e)})
Moving(i, j) == Filter(Reverse(readyQ[i]),
                       {e \in Envs : Starved(e) /\ priority[e] - 1 = j})
Aged(j) == Each(LAMBDA q, i : q \o Moving(i, j), Staying(j),
                [n \in 1..Levels |-> n - 1])

\* One that moves down, to a level not yet visited, is met again there.
MetAgain(e) == \E i \in ReadyIn(e) : i < priority[e] - 1

\* A starved environment has its ticks reset and stays where it is.
NoPromotion_slip ==
  /\ ctl = "env"
  /\ waited' = [e \in Envs |-> IF ReadyIn(e) = {} THEN waited[e]
                               ELSE IF Starved(e) THEN 0 ELSE waited[e] + 1]
  /\ status' = [status EXCEPT ![cur] = "READY"]
  /\ ctl' = "sched"
  /\ UNCHANGED <<scheduler_method, priority, queues, cur, op, fault>>

clock_interrupt_handler ==
  /\ ctl = "env"
  /\ LET Queued(e) == scheduler_method = "PRIRR" /\ ReadyIn(e) # {}
     IN  /\ priority' = [e \in Envs |-> IF Queued(e) /\ Starved(e)
                                        THEN priority[e] - 1 ELSE priority[e]]
         /\ waited' = [e \in Envs |-> IF ~Queued(e) THEN waited[e]
                                      ELSE IF ~Starved(e) THEN waited[e] + 1
                                      ELSE IF MetAgain(e) THEN 1 ELSE 0]
         /\ fault' = IF \E e \in Envs : Queued(e) /\ Starved(e) /\ priority[e] = 0
                     THEN fault \cup {"stray write: env_ready_queues[-1]"}
                     ELSE fault
  /\ readyQ' = [j \in Level |-> Aged(j)]
  /\ status' = [status EXCEPT ![cur] = "READY"]
  /\ ctl' = "sched"
  /\ UNCHANGED <<scheduler_method, newQ, exitQ, chanQ, cur, op>>

----------------------------------------------------------------------------
(* fos_scheduler with fos_scheduler_RR or fos_scheduler_PRIRR.             *)

\* The ready queues after the current environment, if any, is put back.
Requeued == IF cur = NoEnv THEN readyQ
            ELSE IF scheduler_method = "RR" THEN [readyQ EXCEPT ![0] = Append(@, cur)]
            ELSE sched_insert_ready(readyQ, <<cur>>)

NonEmpty == {i \in Level : Requeued[i] # <<>>}

\* The queues are searched from the wrong end.
Highest_slip(S) == CHOOSE i \in S : \A j \in S : i >= j

Highest(S) == CHOOSE i \in S : \A j \in S : i <= j

\* The ticks of whoever is put back go on counting.
Rested_slip == waited

\* fos_scheduler_PRIRR resets the ticks of the environment that it puts back.
Rested == IF cur # NoEnv /\ scheduler_method = "PRIRR"
          THEN [waited EXCEPT ![cur] = 0] ELSE waited

SchedRun ==
  /\ ctl = "sched" /\ NonEmpty # {}
  /\ LET i == Highest(NonEmpty)
         next == Head(Requeued[i])
     IN  /\ readyQ' = [Requeued EXCEPT ![i] = Tail(@)]
         /\ status' = [status EXCEPT ![next] = "RUNNING"]
         /\ cur' = next
  /\ waited' = Rested
  /\ ctl' = "env"
  /\ UNCHANGED <<scheduler_method, priority, newQ, exitQ, chanQ, op, fault>>

\* Nothing to run and nobody blocked: get_into_prompt.
SchedToPrompt ==
  /\ ctl = "sched" /\ NonEmpty = {}
  /\ \A e \in Envs : status[e] # "BLOCKED"
  /\ cur' = NoEnv
  /\ ctl' = "prompt"
  /\ UNCHANGED <<scheduler_method, attrs, queues, op, fault>>

----------------------------------------------------------------------------
Init ==
  /\ scheduler_method \in DOMAIN Workload
  /\ status = [e \in Envs |-> "FREE"]
  /\ priority = [e \in Envs |-> 0]
  /\ waited = [e \in Envs |-> 0]
  /\ newQ = <<>> /\ exitQ = <<>> /\ chanQ = <<>>
  /\ readyQ = [i \in Level |-> <<>>]
  /\ cur = NoEnv
  /\ ctl = "prompt"
  /\ op = [e \in Envs |-> NoOp]
  /\ fault = {}

Scheduler == SchedRun \/ SchedToPrompt

Next == \/ Prompt
        \/ \E p \in Envs : Syscall(p) \/ Finish(p)
        \/ Wakeup
        \/ LeaveFreed
        \/ clock_interrupt_handler
        \/ Scheduler

Spec == Init /\ [][Next]_vars

(***************************************************************************)
(* Fairness: the scheduler's thread runs, the clock keeps interrupting     *)
(* whoever is on the CPU, and the kernel goes on with the exit of whoever  *)
(* freed itself.  Nothing is assumed about programs and commands.          *)
(***************************************************************************)
FairSpec == /\ Spec
            /\ WF_vars(Scheduler)
            /\ WF_vars(clock_interrupt_handler)
            /\ WF_vars(LeaveFreed)

----------------------------------------------------------------------------
(* The types of the variables: samawaiting_ticks never passes the          *)
(* threshold by more than the tick that promotes.                          *)
TypeOK ==
  /\ scheduler_method \in DOMAIN Workload
  /\ status \in [Envs -> {"FREE", "NEW", "READY", "RUNNING", "BLOCKED",
                          "EXIT", "UNKNOWN"}]
  /\ priority \in [Envs -> Int]
  /\ waited \in [Envs -> 0..(Threshold + 1)]
  /\ readyQ \in [Level -> Seq(Envs)]
  /\ newQ \in Seq(Envs) /\ exitQ \in Seq(Envs) /\ chanQ \in Seq(Envs)
  /\ cur \in Envs \cup {NoEnv}
  /\ ctl \in {"prompt", "sched", "env", "gone", "dead"}
  /\ op \in [Envs -> [kind : {"none", "new", "kill", "free", "setprio",
                              "setprio_store"},
                      env : Envs \cup {NoEnv}, prio : Level]]

\* How often e occurs in all the queues together.
Occurrences(e) ==
  LET In(s) == Cardinality({i \in DOMAIN s : s[i] = e})
  IN  In(newQ) + In(exitQ) + In(chanQ)
        + Cardinality({x \in UNION {{i} \X DOMAIN readyQ[i] : i \in Level} :
                         readyQ[x[1]][x[2]] = e})

(* Every queued environment is where its status says, and nowhere else,    *)
(* although system calls read and change the queues in several steps and   *)
(* are preempted, or their caller destroyed, between them.                 *)
QueuesMatchStatus ==
  \A e \in Envs :
    /\ Occurrences(e) <= 1
    /\ Contains(newQ, e) => status[e] = "NEW"
    /\ Contains(exitQ, e) => status[e] = "EXIT"
    /\ Contains(chanQ, e) <=> status[e] = "BLOCKED"
    /\ ReadyIn(e) # {} => status[e] = "READY"
    /\ cur = e => Occurrences(e) = 0

\* e waits at another level than that of its priority.
Misplaced(e) == \E i \in ReadyIn(e) : priority[e] # i

(* A ready environment waits at the level of its priority, through ageing, *)
(* preemption and calls in progress: env_set_priority alone, when it has   *)
(* seen another status and stores the priority without the lock            *)
(* (sched_helpers.c:713), can take that from it.                           *)
OnlyLateStoresMisplace ==
  [][\A e \in Envs :
       ~Misplaced(e) /\ Misplaced(e)' =>
         \E p \in Envs : op[p].kind = "setprio_store" /\ op[p].env = e]_vars

(* Ageing, which has no lower bound (sched.c:379), promotes nobody above   *)
(* level 0.  It depends on who else is there: an environment at level 0    *)
(* must have its turn before it has waited too long, and its ticks must be *)
(* reset at each turn, so programs may not block nor store a priority too  *)
(* late, and there may be no more than Threshold + 2 environments.         *)
NoStray == "stray write: env_ready_queues[-1]" \notin fault

(* No environment is lost: one that is not free is in a queue, on the CPU, *)
(* or about to be enqueued by the system call that created it ("Create a   *)
(* new env & add it to the NEW queue", syscall.c:457), until ageing leaves *)
(* the array of ready queues.                                              *)
NoOrphan ==
  NoStray =>
    \A e \in Envs :
      \/ status[e] = "FREE" \/ Occurrences(e) = 1 \/ cur = e
      \/ \E p \in Envs : op[p].kind \in {"new", "free"} /\ op[p].env = e

(* The environment whose priority is set is READY when it is taken out of  *)
(* the ready queue: "assert(env != NULL && env->env_status == ENV_READY)"  *)
(* (sched_helpers.c:172).                                                  *)
RemovedIsReady == "assert: sched_remove_ready" \notin fault

(* Whoever waits in a ready queue gets out of it, by running unless it is  *)
(* destroyed first, whatever the priorities of the others: the round robin *)
(* of its level and the ageing of the clock interrupt see to it, as long   *)
(* as nobody stops the machine by destroying itself.                       *)
ReadyRuns == \A e \in Envs : ReadyIn(e) # {} ~> ReadyIn(e) = {} \/ ctl = "dead"

(* The scheduler runs an environment of the best priority in the ready     *)
(* queues, among those that wait where their priority says.                *)
RunsTheBest ==
  [][ctl = "sched" /\ ctl' = "env" /\ ~Misplaced(cur') =>
       \A e \in Envs : (ReadyIn(e) # {} /\ ~Misplaced(e))' =>
                        priority[cur'] <= priority[e]]_vars
=============================================================================
