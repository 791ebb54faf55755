---------------------------- MODULE SchedProofs ----------------------------
(***************************************************************************)
(* What holds of the queues of the scheduler for any number of             *)
(* environments, levels and any starvation threshold.                      *)
(*                                                                         *)
(* The system calls that change queues in two steps may be preempted       *)
(* between them.  PendingInv says what stays true of the environment that  *)
(* such a call has named: nobody else enqueues, runs or frees the one that *)
(* is about to be enqueued or freed.  That is so unless the same programs  *)
(* both destroy environments and set priorities (Separate): a victim that  *)
(* is unlinked and not yet freed keeps the status READY, and               *)
(* env_set_priority would enqueue it again.                                *)
(*                                                                         *)
(* The last part is about the console, which programs read and the         *)
(* prompt waits on: the ring of keys (Console, as C) and the history of    *)
(* lines (Readline, as L).  A key stays at its place modulo the size of    *)
(* the ring from the interrupt that stores it until a reader has it.       *)
(***************************************************************************)
EXTENDS Sched, MCConsole, QueueLemmas

\* No scheduler's programs both destroy environments and set priorities.
Separate == \A m \in DOMAIN Workload : ~({"kill", "setprio"} \subseteq Workload[m])

----------------------------------------------------------------------------
(* The inductive invariant of the queues.                                  *)

DistinctInv ==
  /\ Distinct(newQ) /\ Distinct(exitQ) /\ Distinct(chanQ)
  /\ \A i \in Level : Distinct(readyQ[i])

\* Who is queued is where its status says, and at one level.
MatchInv ==
  \A e \in Envs :
    /\ Occurs(newQ, e) => status[e] = "NEW"
    /\ Occurs(exitQ, e) => status[e] = "EXIT"
    /\ Occurs(chanQ, e) <=> status[e] = "BLOCKED"
    /\ \A i \in Level : Occurs(readyQ[i], e) =>
                         status[e] = "READY" /\ \A j \in Level : Occurs(readyQ[j], e) => i = j

Unlinked(e) == \A i \in Level : ~Occurs(readyQ[i], e)

CurInv ==
  /\ ctl = "prompt" => cur = NoEnv
  /\ ctl = "env" => cur \in Envs /\ status[cur] = "RUNNING"
  /\ ctl = "sched" /\ cur # NoEnv => status[cur] = "READY" /\ Unlinked(cur)
  /\ ctl \in {"gone", "dead"} =>
       cur \in Envs /\ status[cur] = "FREE" /\ "kill" \in Workload[scheduler_method]

\* One that is about to be enqueued, or freed: nobody else can find it.
ToEnqueue(e) == status[e] = "NEW" /\ ~Occurs(newQ, e)
ToFree(e) == e # cur /\ status[e] \in {"READY", "UNKNOWN"} /\ Unlinked(e)

\* The environment named by a system call in progress.
PendingInv ==
  \A p \in Envs :
    /\ op[p].kind = "new" => op[p].env \in Envs /\ ToEnqueue(op[p].env)
    /\ op[p].kind = "free" => op[p].env \in Envs /\ ToFree(op[p].env)
    /\ op[p].kind \in {"kill", "free"} =>
         op[p].env \in Envs /\ "kill" \in Workload[scheduler_method]
    /\ op[p].kind \in {"setprio", "setprio_store"} =>
         op[p].env \in Envs /\ "setprio" \in Workload[scheduler_method]
    /\ \A q \in Envs : op[p].kind \in {"new", "free"} /\ op[q].kind \in {"new", "free"}
                         /\ op[p].env = op[q].env => p = q

\* The round robin scheduler knows one priority.
RoundRobinInv ==
  scheduler_method = "RR" => \A e \in Envs : priority[e] = 0 /\ op[e].prio = 0

\* Somebody is about to enqueue e.
Awaited(e) == \E p \in Envs : op[p].kind = "new" /\ op[p].env = e

\* Whoever is not free can be found, and a caller lives until its call ends.
Placed(e) ==
  /\ priority[e] \in Level
  /\ status[e] = "NEW" => Occurs(newQ, e) \/ Awaited(e)
  /\ status[e] = "READY" => ~Unlinked(e) \/ (ctl = "sched" /\ cur = e)
  /\ status[e] = "RUNNING" => ctl = "env" /\ cur = e
  /\ status[e] = "EXIT" => Occurs(exitQ, e)
  /\ status[e] # "UNKNOWN"
  /\ op[e].kind # "none" => status[e] \in {"READY", "RUNNING"}

\* Nobody is lost where programs do not destroy each other and ageing does
\* not leave the array of ready queues.
Calm == "kill" \notin Workload[scheduler_method] /\ NoStray
PlaceInv == Calm => /\ \A e \in Envs : Placed(e)
                    /\ ctl = "prompt" => \A e \in Envs : Unlinked(e)

IInv == /\ TypeOK /\ DistinctInv /\ MatchInv /\ CurInv /\ PendingInv /\ RoundRobinInv
        /\ PlaceInv

----------------------------------------------------------------------------
(* The operators on queues.                                                *)

(* Contains, Range and Occurs are the same question.                       *)
LEMMA ContainsOccurs ==
  ASSUME NEW T, NEW s \in Seq(T), NEW e
  PROVE  /\ Contains(s, e) <=> Occurs(s, e)
         /\ e \in Range(s) <=> Occurs(s, e)
<1>1. DOMAIN s = 1..Len(s)
  BY LenProperties
<1> QED BY <1>1 DEF Contains, Range, Occurs

(* A queue that is reversed keeps its elements.                            *)
LEMMA OccursReverse ==
  ASSUME NEW T, NEW s \in Seq(T)
  PROVE  /\ Reverse(s) \in Seq(T)
         /\ \A e : Occurs(Reverse(s), e) <=> Occurs(s, e)
         /\ Distinct(s) => Distinct(Reverse(s))
<1>1. /\ DOMAIN s = 1..Len(s) /\ Len(s) \in Nat
      /\ DOMAIN Reverse(s) = 1..Len(s)
      /\ \A i \in 1..Len(s) : Reverse(s)[i] = s[(Len(s) - i) + 1]
  BY LenProperties DEF Reverse
<1>2. \A i \in 1..Len(s) : /\ (Len(s) - i) + 1 \in 1..Len(s)
                           /\ (Len(s) - ((Len(s) - i) + 1)) + 1 = i
  BY <1>1
<1>3. \A i \in 1..Len(s) : s[i] = Reverse(s)[(Len(s) - i) + 1]
  BY <1>1, <1>2
<1>4. Reverse(s) \in Seq(T)
  BY <1>1, <1>2, ElementOfSeq, IsASeq DEF Reverse
<1>5. ASSUME NEW e PROVE Occurs(Reverse(s), e) <=> Occurs(s, e)
  BY <1>1, <1>2, <1>3 DEF Occurs
<1>6. ASSUME Distinct(s) PROVE Distinct(Reverse(s))
  BY <1>1, <1>2, <1>6 DEF Distinct
<1> QED BY <1>4, <1>5, <1>6

(* Drop: e leaves.                                                         *)
LEMMA OccursDrop ==
  ASSUME NEW s \in Seq(Envs), NEW e
  PROVE  /\ Drop(s, e) \in Seq(Envs)
         /\ \A x : Occurs(Drop(s, e), x) <=> Occurs(s, x) /\ x # e
         /\ Distinct(s) => Distinct(Drop(s, e))
<1>1. Drop(s, e) \in Seq(Envs)
  BY FilterType DEF Drop
<1>2. ASSUME NEW x PROVE Occurs(Drop(s, e), x) <=> Occurs(s, x) /\ x # e
  <2>1. Occurs(s, x) => x \in Envs
    BY ElementOfSeq, LenProperties DEF Occurs
  <2> QED BY <2>1, FilterOccurs DEF Drop
<1> QED BY <1>1, <1>2, FilterDistinct DEF Drop

\* The ready queues as an operation on them finds and leaves them.
ReadyQueues(q) == /\ q \in [Level -> Seq(Envs)]
                  /\ \A i \in Level : Distinct(q[i])

(* sched_insert_ready: the environments of s join the queue of their       *)
(* priority.                                                               *)
LEMMA InsertReady ==
  ASSUME NEW q, ReadyQueues(q), NEW s \in Seq(Envs), Distinct(s),
         \A e \in Envs, i \in Level : ~(Occurs(s, e) /\ Occurs(q[i], e))
  PROVE  /\ ReadyQueues(sched_insert_ready(q, s))
         /\ \A i \in Level, e \in Envs :
              Occurs(sched_insert_ready(q, s)[i], e)
                <=> Occurs(q[i], e) \/ (Occurs(s, e) /\ priority[e] = i)
<1> DEFINE Joins(i) == Filter(s, {e \in Envs : priority[e] = i})
<1>1. sched_insert_ready(q, s) = [i \in Level |-> q[i] \o Joins(i)]
  BY DEF sched_insert_ready
<1>2. ASSUME NEW i \in Level
      PROVE  /\ Joins(i) \in Seq(Envs) /\ Distinct(Joins(i))
             /\ \A e \in Envs : Occurs(Joins(i), e) <=> Occurs(s, e) /\ priority[e] = i
  BY FilterType, FilterDistinct, FilterOccurs, ZenonT(60)
<1> HIDE DEF Joins
<1>3. ASSUME NEW i \in Level
      PROVE  /\ q[i] \o Joins(i) \in Seq(Envs) /\ Distinct(q[i] \o Joins(i))
             /\ \A e \in Envs : Occurs(q[i] \o Joins(i), e)
                                  <=> Occurs(q[i], e) \/ (Occurs(s, e) /\ priority[e] = i)
  BY <1>2, OccursConcat DEF ReadyQueues
<1> QED BY <1>1, <1>3 DEF ReadyQueues

(* A queue of one.                                                         *)
LEMMA OccursOne ==
  ASSUME NEW e \in Envs
  PROVE  <<e>> \in Seq(Envs) /\ Distinct(<<e>>) /\ \A x : Occurs(<<e>>, x) <=> x = e
BY DEF Distinct, Occurs

(* Who is in a ready queue, in the words of the specification.             *)
LEMMA LinkedIn ==
  ASSUME TypeOK, NEW e \in Envs
  PROVE  /\ \A i \in Level : i \in ReadyIn(e) <=> Occurs(readyQ[i], e)
         /\ ReadyIn(e) # {} <=> ~Unlinked(e)
<1>1. \A i \in Level : Contains(readyQ[i], e) <=> Occurs(readyQ[i], e)
  BY ContainsOccurs DEF TypeOK
<1> QED BY <1>1 DEF ReadyIn, Unlinked

----------------------------------------------------------------------------
(* The initial states, and the steps of the command prompt.                *)

(* The priorities that are asked for are levels; round robin has one.      *)
LEMMA AskedLevels ==
  /\ 0 \in Level
  /\ Askable \subseteq Level
  /\ scheduler_method = "RR" => Askable = {0}
<1>1. 0 \in Level
  BY SchedAssumption DEF Level
<1> QED BY <1>1, SchedAssumption DEF Askable, Level

(* The queues are empty and nothing is in progress.                        *)
LEMMA InitInv == Init => IInv
<1> SUFFICES ASSUME Init PROVE IInv
  OBVIOUS
<1>1. TypeOK
  <2>1. op \in [Envs -> [kind : {"none", "new", "kill", "free", "setprio", "setprio_store"},
                         env : Envs \cup {NoEnv}, prio : Level]]
    BY AskedLevels DEF Init, NoOp
  <2>2. waited \in [Envs -> 0..(Threshold + 1)]
    BY SchedAssumption DEF Init
  <2> QED BY <2>1, <2>2, OccursEmpty DEF Init, TypeOK
<1>2. DistinctInv /\ MatchInv
  BY OccursEmpty DEF Init, DistinctInv, MatchInv
<1>3. CurInv /\ PendingInv /\ RoundRobinInv
  BY DEF Init, CurInv, PendingInv, RoundRobinInv, NoOp
<1>4. PlaceInv
  BY AskedLevels, OccursEmpty DEF Init, PlaceInv, Placed, Unlinked, NoOp
<1> QED BY <1>1, <1>2, <1>3, <1>4 DEF IInv

(* Calls in progress stay as they are, or end, and those that stay have    *)
(* nothing to fear for the environment they name.                          *)
LEMMA PendingKept ==
  ASSUME PendingInv, scheduler_method' = scheduler_method,
         \A p \in Envs : op'[p] = op[p] \/ op'[p].kind = "none",
         \A e \in Envs : \A p \in Envs :
           op'[p] = op[p] /\ op[p].env = e =>
             /\ op[p].kind = "new" /\ ToEnqueue(e) => ToEnqueue(e)'
             /\ op[p].kind = "free" /\ ToFree(e) => ToFree(e)'
  PROVE  PendingInv'
<1>1. ASSUME NEW p \in Envs, NEW e, op'[p] = op[p], op[p].env = e
      PROVE  /\ op[p].kind = "new" => e \in Envs /\ ToEnqueue(e)'
             /\ op[p].kind = "free" => e \in Envs /\ ToFree(e)'
  <2>1. /\ op[p].kind = "new" => e \in Envs /\ ToEnqueue(e)
        /\ op[p].kind = "free" => e \in Envs /\ ToFree(e)
    BY <1>1 DEF PendingInv, ToEnqueue, ToFree, Unlinked
  <2> QED BY <1>1, <2>1
<1>2. \A p \in Envs : op'[p] = op[p] =>
             /\ op[p].kind = "new" =>
                  /\ op'[p].env \in Envs
                  /\ status'[op'[p].env] = "NEW" /\ ~Occurs(newQ', op'[p].env)
             /\ op[p].kind = "free" =>
                  /\ op'[p].env \in Envs /\ op'[p].env # cur'
                  /\ status'[op'[p].env] \in {"READY", "UNKNOWN"}
                  /\ \A i \in Level : ~Occurs(readyQ'[i], op'[p].env)
  BY <1>1 DEF ToEnqueue, ToFree, Unlinked
<1> QED BY <1>2 DEF PendingInv, ToEnqueue, ToFree, Unlinked

(* Nobody is lost by a step that loses none of those who could be found.   *)
LEMMA PlaceKept ==
  ASSUME PlaceInv, scheduler_method' = scheduler_method, fault \subseteq fault',
         Calm => \A e \in Envs : Placed(e) => Placed(e)',
         Calm /\ ctl' = "prompt" => \A e \in Envs : Unlinked(e)'
  PROVE  PlaceInv'
<1>1. Calm' => Calm
  BY DEF Calm, NoStray
<1>2. Calm' => \A e \in Envs : Placed(e)'
  BY <1>1 DEF PlaceInv
<1> QED BY <1>1, <1>2 DEF PlaceInv

(* A new environment is enqueued where no other one of its id is.          *)
LEMMA LoadStep ==
  ASSUME IInv, NEW e \in Envs, NEW prio \in Askable, command_load_env(e, prio)
  PROVE  IInv'
<1> USE DEF IInv
<1>1. /\ newQ' \in Seq(Envs) /\ (Distinct(newQ) => Distinct(newQ'))
      /\ \A x : Occurs(newQ', x) <=> Occurs(newQ, x) \/ x = e
  BY OccursAppend DEF TypeOK, MatchInv, command_load_env, Created
<1>2. TypeOK'
  BY <1>1, AskedLevels DEF TypeOK, command_load_env, Level
<1>3. DistinctInv'
  BY <1>1 DEF DistinctInv, command_load_env
<1>4. MatchInv'
  BY <1>1 DEF TypeOK, MatchInv, command_load_env, Created
<1>5. CurInv'
  BY DEF CurInv, command_load_env, AtPrompt
<1>6. PendingInv'
  BY <1>1, PendingKept DEF TypeOK, ToEnqueue, ToFree, Unlinked, command_load_env, Created
<1>7. RoundRobinInv'
  BY AskedLevels DEF TypeOK, RoundRobinInv, command_load_env
<1>8. PlaceInv'
  <2>1. ASSUME NEW x \in Envs, Placed(x) PROVE Placed(x)'
    <3>1. Awaited(x)' <=> Awaited(x)
      BY DEF Awaited, command_load_env
    <3> QED BY <1>1, <2>1, <3>1, AskedLevels DEF TypeOK, CurInv, Placed, Unlinked,
            command_load_env, AtPrompt, Created
  <2> QED BY <2>1, PlaceKept DEF PlaceInv, Unlinked, command_load_env
<1> QED BY <1>2, <1>3, <1>4, <1>5, <1>6, <1>7, <1>8

(* The same for a program that is started at once.                         *)
LEMMA RunProgramStep ==
  ASSUME IInv, NEW e \in Envs, NEW prio \in Askable, command_run_program(e, prio)
  PROVE  IInv'
<1> USE DEF IInv
<1>0. prio \in Level /\ status[e] = "FREE"
  BY AskedLevels DEF command_run_program, Created
<1>1. /\ readyQ' \in [Level -> Seq(Envs)]
      /\ \A i \in Level : /\ Distinct(readyQ'[i])
                          /\ \A x : Occurs(readyQ'[i], x)
                                      <=> Occurs(readyQ[i], x) \/ (i = prio /\ x = e)
  <2>1. readyQ[prio] \in Seq(Envs) /\ ~Occurs(readyQ[prio], e) /\ Distinct(readyQ[prio])
    BY <1>0 DEF TypeOK, MatchInv, DistinctInv
  <2>2. /\ Append(readyQ[prio], e) \in Seq(Envs) /\ Distinct(Append(readyQ[prio], e))
        /\ \A x : Occurs(Append(readyQ[prio], e), x) <=> Occurs(readyQ[prio], x) \/ x = e
    BY <2>1, OccursAppend
  <2> QED BY <1>0, <2>2 DEF TypeOK, DistinctInv, command_run_program
<1>2. TypeOK'
  BY <1>0, <1>1 DEF TypeOK, command_run_program, Level
<1>3. DistinctInv'
  BY <1>1 DEF DistinctInv, command_run_program
<1>4. MatchInv'
  BY <1>0, <1>1 DEF TypeOK, MatchInv, command_run_program
<1>5. CurInv'
  BY DEF CurInv, command_run_program, AtPrompt
<1>6. PendingInv'
  BY <1>0, <1>1, PendingKept DEF TypeOK, ToEnqueue, ToFree, Unlinked, command_run_program
<1>7. RoundRobinInv'
  BY AskedLevels DEF TypeOK, RoundRobinInv, command_run_program
<1>8. PlaceInv'
  <2>1. ASSUME NEW x \in Envs, Placed(x) PROVE Placed(x)'
    <3>1. Awaited(x)' <=> Awaited(x)
      BY DEF Awaited, command_run_program
    <3>2. CASE x = e
      <4>1. status'[x] = "READY" /\ priority'[x] = prio /\ ~Unlinked(x)'
        BY <1>0, <1>1, <3>2 DEF TypeOK, Unlinked, command_run_program
      <4>2. op'[x].kind = "none"
        BY <1>0, <2>1, <3>2 DEF Placed, command_run_program
      <4> QED BY <1>0, <4>1, <4>2 DEF Placed
    <3>3. CASE x # e
      <4>1. status'[x] = status[x] /\ priority'[x] = priority[x]
        BY <1>0, <1>1, <3>3 DEF TypeOK, Unlinked, command_run_program
      <4>2. ctl = "prompt" /\ cur = NoEnv /\ cur' = cur /\ x # NoEnv
        BY SchedAssumption DEF CurInv, command_run_program, AtPrompt
      <4>3. ~Unlinked(x) => ~Unlinked(x)'
        BY <1>0, <1>1 DEF TypeOK, Unlinked
      <4> QED BY <2>1, <3>1, <4>1, <4>2, <4>3 DEF Placed, command_run_program
    <3> QED BY <3>2, <3>3
  <2> QED BY <2>1, PlaceKept DEF PlaceInv, Unlinked, command_run_program, AtPrompt
<1> QED BY <1>2, <1>3, <1>4, <1>5, <1>6, <1>7, <1>8

(* All new environments move to the ready queues.                          *)
LEMMA RunAllStep ==
  ASSUME IInv, sched_run_all
  PROVE  IInv'
<1> USE DEF IInv
<1>1. /\ ReadyQueues(readyQ')
      /\ \A i \in Level, x \in Envs :
           Occurs(readyQ'[i], x) <=> Occurs(readyQ[i], x) \/ (Occurs(newQ, x) /\ priority[x] = i)
  <2>1. ReadyQueues(readyQ) /\ newQ \in Seq(Envs) /\ Distinct(newQ)
    BY DEF TypeOK, DistinctInv, ReadyQueues
  <2>2. \A x \in Envs, i \in Level : ~(Occurs(newQ, x) /\ Occurs(readyQ[i], x))
    BY DEF MatchInv
  <2> QED BY <2>1, <2>2, InsertReady DEF sched_run_all
<1>2. /\ status' \in [Envs -> {"FREE", "NEW", "READY", "RUNNING", "BLOCKED", "EXIT", "UNKNOWN"}]
      /\ \A x \in Envs : status'[x] = IF Occurs(newQ, x) THEN "READY" ELSE status[x]
  BY ContainsOccurs DEF TypeOK, sched_run_all, SetStatus
<1>3. newQ' = <<>> /\ \A x : ~Occurs(newQ', x)
  BY OccursEmpty DEF sched_run_all
<1>4. TypeOK'
  BY <1>1, <1>2, <1>3, OccursEmpty, SMTT(30) DEF TypeOK, ReadyQueues, sched_run_all
<1>5. DistinctInv'
  BY <1>1, <1>3, OccursEmpty DEF DistinctInv, ReadyQueues, sched_run_all
<1>6. MatchInv'
  BY <1>1, <1>2, <1>3 DEF MatchInv, sched_run_all
<1>7. CurInv'
  BY DEF CurInv, sched_run_all, AtPrompt
<1>8. PendingInv'
  BY <1>1, <1>2, <1>3, PendingKept DEF MatchInv, ToEnqueue, ToFree, Unlinked, sched_run_all
<1>9. RoundRobinInv'
  BY DEF RoundRobinInv, sched_run_all
<1>10. PlaceInv'
  <2>1. ASSUME NEW x \in Envs, Placed(x) PROVE Placed(x)'
    <3>1. Awaited(x)' <=> Awaited(x)
      BY DEF Awaited, sched_run_all
    <3> QED BY <1>1, <1>2, <1>3, <2>1, <3>1, SchedAssumption
            DEF TypeOK, CurInv, Placed, Unlinked, sched_run_all, AtPrompt
  <2> QED BY <2>1, PlaceKept DEF PlaceInv, Unlinked, sched_run_all, AtPrompt
<1> QED BY <1>4, <1>5, <1>6, <1>7, <1>8, <1>9, <1>10

\* The statuses.
Statuses == {"FREE", "NEW", "READY", "RUNNING", "BLOCKED", "EXIT", "UNKNOWN"}

(* env_free of a set of environments.                                      *)
LEMMA FreeEffect ==
  ASSUME TypeOK, NEW S \in SUBSET Envs, env_free(S)
  PROVE  /\ status' \in [Envs -> Statuses]
         /\ priority' \in [Envs -> Int]
         /\ waited' \in [Envs -> 0..(Threshold + 1)]
         /\ \A e \in S : status'[e] = "FREE" /\ priority'[e] = 0
         /\ \A e \in Envs \ S : status'[e] = status[e] /\ priority'[e] = priority[e]
<1>1. 0 \in 0..(Threshold + 1)
  BY SchedAssumption
<1> QED BY <1>1 DEF TypeOK, env_free, SetStatus, Statuses

(* Who is freed at the prompt is in none of the queues afterwards, and no  *)
(* call in progress is about to enqueue or free it.                        *)
LEMMA KillProgramStep ==
  ASSUME IInv, NEW e \in Envs, command_kill_program(e)
  PROVE  IInv'
<1> USE DEF IInv
<1>1. /\ newQ' \in Seq(Envs) /\ exitQ' \in Seq(Envs)
      /\ Distinct(newQ) => Distinct(newQ')
      /\ Distinct(exitQ) => Distinct(exitQ')
      /\ \A x : Occurs(newQ', x) <=> Occurs(newQ, x) /\ x # e
      /\ \A x : Occurs(exitQ', x) <=> Occurs(exitQ, x) /\ x # e
  BY OccursDrop DEF TypeOK, command_kill_program
<1>2. /\ status' \in [Envs -> Statuses] /\ priority' \in [Envs -> Int]
      /\ waited' \in [Envs -> 0..(Threshold + 1)]
      /\ status'[e] = "FREE" /\ priority'[e] = 0
      /\ \A x \in Envs \ {e} : status'[x] = status[x] /\ priority'[x] = priority[x]
  BY FreeEffect DEF command_kill_program
<1>3. status[e] \in {"NEW", "EXIT"} /\ (Occurs(newQ, e) \/ Occurs(exitQ, e))
  BY ContainsOccurs DEF TypeOK, MatchInv, command_kill_program
<1>4. op' \in [Envs -> [kind : {"none", "new", "kill", "free", "setprio", "setprio_store"},
                        env : Envs \cup {NoEnv}, prio : Level]]
  BY AskedLevels DEF TypeOK, command_kill_program, NoOp
<1>5. TypeOK'
  BY <1>1, <1>2, <1>4 DEF TypeOK, Statuses, command_kill_program
<1>6. DistinctInv'
  BY <1>1 DEF DistinctInv, command_kill_program
<1>7. MatchInv'
  BY <1>1, <1>2, <1>3 DEF MatchInv, command_kill_program
<1>8. CurInv'
  BY DEF CurInv, command_kill_program, AtPrompt
<1>9. PendingInv'
  <2>1. \A p \in Envs : op'[p] = op[p] \/ op'[p].kind = "none"
    BY DEF TypeOK, command_kill_program, NoOp
  <2>2. ~ToEnqueue(e) /\ ~ToFree(e)
    BY <1>3 DEF ToEnqueue, ToFree, MatchInv
  <2> QED BY <1>1, <1>2, <2>1, <2>2, PendingKept
          DEF ToEnqueue, ToFree, Unlinked, command_kill_program
<1>10. RoundRobinInv'
  <2>1. \A p \in Envs : op'[p] = op[p] \/ op'[p].prio = 0
    BY DEF TypeOK, command_kill_program, NoOp
  <2> QED BY <1>2, <2>1 DEF RoundRobinInv, command_kill_program
<1>11. PlaceInv'
  <2>1. \A p \in Envs : op'[p] = IF p = e THEN NoOp ELSE op[p]
    BY DEF TypeOK, command_kill_program
  <2>2. ASSUME NEW x \in Envs, Placed(e), Placed(x) PROVE Placed(x)'
    <3>1. op[e].kind = "none"
      BY <1>3, <2>2 DEF Placed
    <3>2. Awaited(x) => Awaited(x)'
      BY <2>1, <3>1 DEF Awaited
    <3> QED BY <1>1, <1>2, <2>1, <2>2, <3>2, AskedLevels
            DEF CurInv, Placed, Unlinked, NoOp, command_kill_program, AtPrompt
  <2> QED BY <2>2, PlaceKept DEF PlaceInv, Unlinked, command_kill_program
<1> QED BY <1>5, <1>6, <1>7, <1>8, <1>9, <1>10, <1>11

(* The same for everybody who is in a queue.                               *)
LEMMA KillAllStep ==
  ASSUME IInv, sched_kill_all
  PROVE  IInv'
<1> USE DEF IInv
<1> DEFINE S == Range(newQ) \cup Range(exitQ) \cup UNION {Range(readyQ[i]) : i \in Level}
<1>1. \A e : e \in S <=> Occurs(newQ, e) \/ Occurs(exitQ, e)
                          \/ \E i \in Level : Occurs(readyQ[i], e)
  <2>1. \A e : /\ e \in Range(newQ) <=> Occurs(newQ, e)
               /\ e \in Range(exitQ) <=> Occurs(exitQ, e)
    BY ContainsOccurs DEF TypeOK
  <2>2. \A e : \A i \in Level : e \in Range(readyQ[i]) <=> Occurs(readyQ[i], e)
    BY ContainsOccurs DEF TypeOK
  <2>3. ASSUME NEW e
        PROVE  e \in UNION {Range(readyQ[i]) : i \in Level}
                 <=> \E i \in Level : e \in Range(readyQ[i])
    OBVIOUS
  <2> QED BY <2>1, <2>2, <2>3
<1>2. S \in SUBSET Envs
  BY ElementOfSeq, LenProperties DEF TypeOK, Range
<1>3. env_free(S) /\ op' = [e \in Envs |-> IF e \in S THEN NoOp ELSE op[e]]
  BY DEF sched_kill_all
<1> HIDE DEF S
<1>4. /\ status' \in [Envs -> Statuses] /\ priority' \in [Envs -> Int]
      /\ waited' \in [Envs -> 0..(Threshold + 1)]
      /\ \A e \in S : status'[e] = "FREE" /\ priority'[e] = 0
      /\ \A e \in Envs \ S : status'[e] = status[e] /\ priority'[e] = priority[e]
  BY <1>2, <1>3, FreeEffect
<1>5. /\ newQ' = <<>> /\ exitQ' = <<>> /\ readyQ' = [i \in Level |-> <<>>]
      /\ UNCHANGED <<scheduler_method, chanQ, cur, ctl, fault>>
      /\ ctl = "prompt"
  BY DEF sched_kill_all, AtPrompt
<1>6. \A p \in Envs : op'[p] = op[p] \/ (op'[p].kind = "none" /\ op'[p].prio = 0)
  BY <1>3 DEF TypeOK, NoOp
<1>7. TypeOK'
  <2>1. op' \in [Envs -> [kind : {"none", "new", "kill", "free", "setprio", "setprio_store"},
                          env : Envs \cup {NoEnv}, prio : Level]]
    BY <1>3, AskedLevels DEF TypeOK, NoOp
  <2> QED BY <1>4, <1>5, <2>1, OccursEmpty DEF TypeOK, Statuses
<1>8. DistinctInv'
  BY <1>5, OccursEmpty DEF DistinctInv
<1>9. MatchInv'
  <2>1. \A e \in S : ~Occurs(chanQ, e)
    BY <1>1, <1>2 DEF MatchInv
  <2> QED BY <1>4, <1>5, <2>1, OccursEmpty DEF MatchInv
<1>10. CurInv'
  BY <1>5 DEF CurInv
<1>11. PendingInv'
  <2>1. \A e \in S : ~ToEnqueue(e) /\ ~ToFree(e)
    BY <1>1, <1>2 DEF ToEnqueue, ToFree, MatchInv, Unlinked
  <2> QED BY <1>4, <1>5, <1>6, <2>1, PendingKept, OccursEmpty DEF ToEnqueue, ToFree, Unlinked
<1>12. RoundRobinInv'
  <2>1. \A x \in Envs : priority'[x] = 0 \/ priority'[x] = priority[x]
    BY <1>4
  <2> QED BY <1>5, <1>6, <2>1 DEF RoundRobinInv
<1>13. PlaceInv'
  <2>1. ASSUME NEW x \in Envs, Calm PROVE Placed(x)'
    <3>0. \A y \in Envs : Placed(y) /\ Unlinked(y)
      BY <1>5, <2>1 DEF PlaceInv
    <3>1. \A p \in S : op[p].kind = "none"
      BY <1>1, <1>2, <3>0 DEF Placed, MatchInv, Unlinked
    <3>2. \A p \in Envs : op'[p] = IF p \in S THEN NoOp ELSE op[p]
      BY <1>3
    <3>3. Awaited(x) => Awaited(x)'
      BY <3>1, <3>2 DEF Awaited
    <3>4. CASE x \in S
      BY <1>4, <3>2, <3>4, AskedLevels DEF Placed, NoOp
    <3>5. CASE x \notin S
      <4>1. status'[x] = status[x] /\ priority'[x] = priority[x] /\ op'[x] = op[x]
        BY <1>4, <3>2, <3>5
      <4>2. ~Occurs(newQ, x) /\ ~Occurs(exitQ, x) /\ Unlinked(x)
        BY <1>1, <3>5 DEF Unlinked
      <4> QED BY <1>5, <3>0, <3>3, <4>1, <4>2 DEF Placed, CurInv
    <3> QED BY <3>4, <3>5
  <2> QED BY <2>1, PlaceKept, <1>5, OccursEmpty DEF PlaceInv, Unlinked, sched_kill_all
<1> QED BY <1>7, <1>8, <1>9, <1>10, <1>11, <1>12, <1>13

----------------------------------------------------------------------------
(* The steps of system calls.                                              *)

\* The types of op.
Ops == [kind : {"none", "new", "kill", "free", "setprio", "setprio_store"},
        env : Envs \cup {NoEnv}, prio : Level]

(* A call in progress of p is replaced, all others are as they were.       *)
LEMMA OpSet ==
  ASSUME TypeOK, NEW p \in Envs, NEW o \in Ops, op' = [op EXCEPT ![p] = o]
  PROVE  /\ op' \in [Envs -> Ops]
         /\ op'[p] = o /\ \A q \in Envs \ {p} : op'[q] = op[q]
BY DEF TypeOK, Ops

(* The call that p has finished names nobody.                              *)
LEMMA OpDone ==
  ASSUME TypeOK, NEW p \in Envs, op' = [op EXCEPT ![p] = NoOp]
  PROVE  /\ op' \in [Envs -> Ops]
         /\ op'[p].kind = "none" /\ op'[p].prio = 0
         /\ \A q \in Envs \ {p} : op'[q] = op[q]
<1>1. NoOp \in Ops
  BY AskedLevels DEF NoOp, Ops
<1> QED BY <1>1, OpSet DEF NoOp

(* A created environment is named by its creator and by nobody else.       *)
LEMMA CreateStep ==
  ASSUME IInv, NEW p \in Envs, NEW e \in Envs, sys_create_env(p, e)
  PROVE  IInv'
<1> USE DEF IInv
<1> DEFINE o == [kind |-> "new", env |-> e, prio |-> 0]
<1>1. /\ op' \in [Envs -> Ops]
      /\ op'[p] = o /\ \A q \in Envs \ {p} : op'[q] = op[q]
  <2>1. o \in Ops
    BY AskedLevels DEF Ops
  <2> QED BY <2>1, OpSet DEF sys_create_env
<1>2. /\ op'[p].kind = "new" /\ op'[p].env = e /\ op'[p].prio = 0
  BY <1>1
<1>3. /\ status[e] = "FREE" /\ status'[e] = "NEW" /\ e # p
      /\ \A x \in Envs \ {e} : status'[x] = status[x]
  BY DEF TypeOK, CurInv, sys_create_env, Created, Idle, Running
<1>4. TypeOK'
  BY <1>1 DEF TypeOK, Ops, sys_create_env, queues
<1>5. DistinctInv' /\ MatchInv'
  BY <1>3 DEF DistinctInv, MatchInv, sys_create_env, queues
<1>6. CurInv'
  BY <1>3 DEF TypeOK, CurInv, Unlinked, sys_create_env, queues, Idle, Running
<1>7. PendingInv'
  <2>1. \A q \in Envs : op[q].kind \in {"new", "free"} => op[q].env # e
    BY <1>3 DEF PendingInv, ToEnqueue, ToFree
  <2>2. ~Occurs(newQ, e)
    BY <1>3 DEF MatchInv
  <2> QED BY <1>1, <1>2, <1>3, <2>1, <2>2
          DEF PendingInv, ToEnqueue, ToFree, Unlinked, sys_create_env, queues
<1>8. RoundRobinInv'
  BY <1>1, <1>2 DEF RoundRobinInv, sys_create_env
<1>9. PlaceInv'
  <2>1. ASSUME NEW x \in Envs, Placed(x) PROVE Placed(x)'
    <3>1. Awaited(x) \/ x = e => Awaited(x)'
      BY <1>1, <1>2 DEF Awaited, sys_create_env, Idle, NoOp
    <3>2. status[p] = "RUNNING"
      BY DEF CurInv, sys_create_env, Idle, Running
    <3> QED BY <1>1, <1>3, <2>1, <3>1, <3>2
            DEF TypeOK, Placed, Unlinked, sys_create_env, queues
  <2> QED BY <2>1, PlaceKept DEF PlaceInv, Unlinked, sys_create_env, queues, Idle, Running
<1> QED BY <1>4, <1>5, <1>6, <1>7, <1>8, <1>9

(* The created environment is enqueued: it was in no queue.                *)
LEMMA NewEnvStep ==
  ASSUME IInv, NEW p \in Envs, sched_new_env(p)
  PROVE  IInv'
<1> USE DEF IInv
<1>1. PICK e \in Envs : e = op[p].env /\ ToEnqueue(e)
  BY DEF PendingInv, ToEnqueue, sched_new_env
<1>2. /\ newQ' \in Seq(Envs) /\ Distinct(newQ')
      /\ \A x : Occurs(newQ', x) <=> Occurs(newQ, x) \/ x = e
  BY <1>1, OccursAppend DEF TypeOK, DistinctInv, ToEnqueue, sched_new_env
<1>3. status' = status
  BY <1>1 DEF TypeOK, ToEnqueue, sched_new_env
<1>4. /\ op' \in [Envs -> Ops]
      /\ op'[p].kind = "none" /\ op'[p].prio = 0
      /\ \A q \in Envs \ {p} : op'[q] = op[q]
  BY OpDone DEF sched_new_env
<1>5. TypeOK'
  BY <1>2, <1>3, <1>4 DEF TypeOK, Ops, sched_new_env
<1>6. DistinctInv' /\ MatchInv'
  BY <1>1, <1>2, <1>3 DEF DistinctInv, MatchInv, ToEnqueue, sched_new_env
<1>7. CurInv'
  BY <1>3 DEF CurInv, Unlinked, sched_new_env
<1>8. PendingInv'
  <2>1. \A q \in Envs \ {p} : op[q].kind = "new" => op[q].env # e
    BY <1>1 DEF PendingInv, sched_new_env
  <2> QED BY <1>2, <1>3, <1>4, <2>1, PendingKept DEF ToEnqueue, ToFree, Unlinked, sched_new_env
<1>9. RoundRobinInv'
  BY <1>4 DEF RoundRobinInv, sched_new_env
<1>10. PlaceInv'
  <2>1. ASSUME NEW x \in Envs, Placed(x) PROVE Placed(x)'
    <3>1. Awaited(x) => Awaited(x)' \/ x = e
      BY <1>1, <1>4 DEF Awaited
    <3> QED BY <1>2, <1>3, <1>4, <2>1, <3>1 DEF Placed, Unlinked, sched_new_env
  <2> QED BY <2>1, PlaceKept DEF PlaceInv, Unlinked, sched_new_env, Running
<1> QED BY <1>5, <1>6, <1>7, <1>8, <1>9, <1>10

(* A new environment is moved to the ready queue of its priority.          *)
LEMMA RunEnvStep ==
  ASSUME IInv, NEW p \in Envs, NEW e \in Envs, sys_run_env(p, e)
  PROVE  IInv'
<1> USE DEF IInv
<1>1. Occurs(newQ, e) /\ status[e] = "NEW"
  BY ContainsOccurs DEF TypeOK, MatchInv, sys_run_env
<1>2. /\ newQ' \in Seq(Envs) /\ Distinct(newQ')
      /\ \A x : Occurs(newQ', x) <=> Occurs(newQ, x) /\ x # e
  BY OccursDrop DEF TypeOK, DistinctInv, sys_run_env
<1>3. /\ ReadyQueues(readyQ')
      /\ \A i \in Level, x \in Envs :
           Occurs(readyQ'[i], x) <=> Occurs(readyQ[i], x) \/ (x = e /\ priority[x] = i)
  <2>1. ReadyQueues(readyQ)
    BY DEF TypeOK, DistinctInv, ReadyQueues
  <2>2. \A x \in Envs, i \in Level : ~(Occurs(<<e>>, x) /\ Occurs(readyQ[i], x))
    BY <1>1, OccursOne DEF MatchInv
  <2>3. readyQ' = sched_insert_ready(readyQ, <<e>>)
    BY DEF sys_run_env
  <2> DEFINE s == <<e>>
  <2>4. s \in Seq(Envs) /\ Distinct(s) /\ \A x : Occurs(s, x) <=> x = e
    BY OccursOne
  <2> HIDE DEF s, IInv
  <2>5. \A x \in Envs, i \in Level : ~(Occurs(s, x) /\ Occurs(readyQ[i], x))
    BY <2>2 DEF s
  <2>6. readyQ' = sched_insert_ready(readyQ, s)
    BY <2>3 DEF s
  <2>7. /\ ReadyQueues(sched_insert_ready(readyQ, s))
        /\ \A i \in Level, x \in Envs :
             Occurs(sched_insert_ready(readyQ, s)[i], x)
               <=> Occurs(readyQ[i], x) \/ (Occurs(s, x) /\ priority[x] = i)
    BY <2>1, <2>4, <2>5, InsertReady
  <2> QED BY <2>4, <2>6, <2>7
<1>4. status'[e] = "READY" /\ \A x \in Envs \ {e} : status'[x] = status[x]
  BY DEF TypeOK, sys_run_env
<1>5. TypeOK'
  BY <1>2, <1>3 DEF TypeOK, ReadyQueues, sys_run_env
<1>6. DistinctInv' /\ MatchInv'
  <2>1. DistinctInv'
    BY <1>2, <1>3 DEF DistinctInv, ReadyQueues, sys_run_env
  <2>2. \A i \in Level : ~Occurs(readyQ[i], e)
    BY <1>1 DEF MatchInv
  <2>3. MatchInv'
    BY <1>1, <1>2, <1>3, <1>4, <2>2 DEF MatchInv, sys_run_env
  <2> QED BY <2>1, <2>3
<1>7. CurInv'
  BY <1>1, <1>4 DEF TypeOK, CurInv, sys_run_env, Idle, Running
<1>8. PendingInv'
  BY <1>1, <1>2, <1>3, <1>4, PendingKept DEF ToEnqueue, ToFree, Unlinked, sys_run_env
<1>9. RoundRobinInv'
  BY DEF RoundRobinInv, sys_run_env
<1>10. PlaceInv'
  <2>1. ASSUME NEW x \in Envs, Placed(x) PROVE Placed(x)'
    <3>1. Awaited(x)' <=> Awaited(x)
      BY DEF Awaited, sys_run_env
    <3> QED BY <1>1, <1>2, <1>3, <1>4, <2>1, <3>1
            DEF TypeOK, CurInv, Placed, Unlinked, sys_run_env, Idle, Running
  <2> QED BY <2>1, PlaceKept DEF PlaceInv, Unlinked, sys_run_env, CurInv, Idle, Running
<1> QED BY <1>5, <1>6, <1>7, <1>8, <1>9, <1>10

(* The running environment is in no queue and nobody is to enqueue or free *)
(* it.                                                                     *)
LEMMA RunningIsNowhere ==
  ASSUME IInv, NEW p \in Envs, Running(p)
  PROVE  /\ status[p] = "RUNNING" /\ ctl = "env" /\ cur = p
         /\ ~Occurs(newQ, p) /\ ~Occurs(exitQ, p) /\ ~Occurs(chanQ, p) /\ Unlinked(p)
         /\ ~ToEnqueue(p) /\ ~ToFree(p)
BY DEF IInv, CurInv, MatchInv, Running, Unlinked, ToEnqueue, ToFree

(* env_exit, called by the program or by a panic.                          *)
LEMMA ExitsStep ==
  ASSUME IInv, NEW p \in Envs, Running(p), LeaveCpu(p, "EXIT"),
         exitQ' = Append(exitQ, p), op' \in [Envs -> Ops],
         op[p].kind # "new", op'[p].kind = "none", op'[p].prio = 0,
         \A q \in Envs \ {p} : op'[q] = op[q],
         fault \subseteq fault',
         UNCHANGED <<scheduler_method, priority, waited, newQ, readyQ, chanQ>>
  PROVE  IInv'
<1> USE DEF IInv
<1>1. /\ status[p] = "RUNNING" /\ ~Occurs(newQ, p) /\ ~Occurs(exitQ, p)
      /\ ~Occurs(chanQ, p) /\ Unlinked(p) /\ ~ToEnqueue(p) /\ ~ToFree(p)
  BY RunningIsNowhere
<1>2. /\ exitQ' \in Seq(Envs) /\ Distinct(exitQ')
      /\ \A x : Occurs(exitQ', x) <=> Occurs(exitQ, x) \/ x = p
  BY <1>1, OccursAppend DEF TypeOK, DistinctInv
<1>3. /\ status'[p] = "EXIT" /\ \A x \in Envs \ {p} : status'[x] = status[x]
      /\ ctl' = "sched" /\ cur' = NoEnv
  BY DEF TypeOK, LeaveCpu
<1>4. TypeOK'
  BY <1>2 DEF TypeOK, Ops, LeaveCpu
<1>5. DistinctInv' /\ MatchInv'
  BY <1>1, <1>2, <1>3 DEF DistinctInv, MatchInv, Unlinked
<1>6. CurInv'
  BY <1>3 DEF CurInv
<1>7. PendingInv'
  <2>1. \A e \in Envs : /\ ToEnqueue(e) => ToEnqueue(e)'
                        /\ ToFree(e) => ToFree(e)'
    BY <1>1, <1>3, SchedAssumption DEF ToEnqueue, ToFree, Unlinked
  <2> QED BY <2>1, PendingKept
<1>8. RoundRobinInv'
  BY DEF RoundRobinInv
<1>9. PlaceInv'
  <2>1. ASSUME NEW x \in Envs, Placed(x) PROVE Placed(x)'
    <3>1. Awaited(x) => Awaited(x)'
      BY DEF Awaited
    <3> QED BY <1>2, <1>3, <2>1, <3>1 DEF Placed, Unlinked, Running
  <2> QED BY <1>3, <2>1, PlaceKept
<1> QED BY <1>4, <1>5, <1>6, <1>7, <1>8, <1>9

(* sleep() on a channel.                                                   *)
LEMMA BlockStep ==
  ASSUME IInv, NEW p \in Envs, Block(p)
  PROVE  IInv'
<1> USE DEF IInv
<1>1. /\ status[p] = "RUNNING" /\ ~Occurs(newQ, p) /\ ~Occurs(exitQ, p)
      /\ ~Occurs(chanQ, p) /\ Unlinked(p) /\ ~ToEnqueue(p) /\ ~ToFree(p)
  BY RunningIsNowhere DEF Block, Idle
<1>2. /\ chanQ' \in Seq(Envs) /\ Distinct(chanQ')
      /\ \A x : Occurs(chanQ', x) <=> Occurs(chanQ, x) \/ x = p
  BY <1>1, OccursAppend DEF TypeOK, DistinctInv, Block
<1>3. /\ status'[p] = "BLOCKED" /\ \A x \in Envs \ {p} : status'[x] = status[x]
      /\ ctl' = "sched" /\ cur' = NoEnv
  BY DEF TypeOK, Block, LeaveCpu
<1>4. TypeOK'
  BY <1>2 DEF TypeOK, Block, LeaveCpu
<1>5. DistinctInv' /\ MatchInv'
  BY <1>1, <1>2, <1>3 DEF DistinctInv, MatchInv, Unlinked, Block
<1>6. CurInv'
  BY <1>3 DEF CurInv
<1>7. PendingInv'
  <2>1. \A e \in Envs : /\ ToEnqueue(e) => ToEnqueue(e)'
                        /\ ToFree(e) => ToFree(e)'
    BY <1>1, <1>3, SchedAssumption DEF ToEnqueue, ToFree, Unlinked, Block
  <2> QED BY <2>1, PendingKept DEF Block
<1>8. RoundRobinInv'
  BY DEF RoundRobinInv, Block
<1>9. PlaceInv'
  <2>1. ASSUME NEW x \in Envs, Placed(x) PROVE Placed(x)'
    <3>1. Awaited(x) => Awaited(x)'
      BY DEF Awaited, Block
    <3> QED BY <1>2, <1>3, <2>1, <3>1 DEF Placed, Unlinked, Block, Idle, Running, NoOp
  <2> QED BY <1>3, <2>1, PlaceKept DEF Block
<1> QED BY <1>4, <1>5, <1>6, <1>7, <1>8, <1>9

(* wakeup_one of a channel.                                                *)
LEMMA WakeupStep ==
  ASSUME IInv, Wakeup
  PROVE  IInv'
<1> USE DEF IInv
<1> DEFINE e == Head(chanQ)
<1>1. /\ e \in Envs /\ Occurs(chanQ, e) /\ status[e] = "BLOCKED"
      /\ chanQ' \in Seq(Envs) /\ Distinct(chanQ')
      /\ \A x : Occurs(chanQ', x) <=> Occurs(chanQ, x) /\ x # e
  BY OccursTail DEF TypeOK, DistinctInv, MatchInv, Wakeup
<1>2. /\ ReadyQueues(readyQ')
      /\ \A i \in Level, x \in Envs :
           Occurs(readyQ'[i], x) <=> Occurs(readyQ[i], x) \/ (x = e /\ priority[x] = i)
  <2>1. ReadyQueues(readyQ)
    BY DEF TypeOK, DistinctInv, ReadyQueues
  <2>2. readyQ' = sched_insert_ready(readyQ, <<e>>)
    BY DEF Wakeup
  <2> HIDE DEF e
  <2>3. \A x \in Envs, i \in Level : ~(Occurs(<<e>>, x) /\ Occurs(readyQ[i], x))
    BY <1>1, OccursOne DEF MatchInv
  <2> DEFINE s == <<e>>
  <2>4. s \in Seq(Envs) /\ Distinct(s) /\ \A x : Occurs(s, x) <=> x = e
    BY <1>1, OccursOne
  <2> HIDE DEF s, IInv
  <2>5. \A x \in Envs, i \in Level : ~(Occurs(s, x) /\ Occurs(readyQ[i], x))
    BY <2>3 DEF s
  <2>6. readyQ' = sched_insert_ready(readyQ, s)
    BY <2>2 DEF s
  <2>7. /\ ReadyQueues(sched_insert_ready(readyQ, s))
        /\ \A i \in Level, x \in Envs :
             Occurs(sched_insert_ready(readyQ, s)[i], x)
               <=> Occurs(readyQ[i], x) \/ (Occurs(s, x) /\ priority[x] = i)
    BY <2>1, <2>4, <2>5, InsertReady
  <2> QED BY <2>4, <2>6, <2>7
<1>3. status'[e] = "READY" /\ \A x \in Envs \ {e} : status'[x] = status[x]
  BY <1>1 DEF TypeOK, Wakeup
<1>4. TypeOK'
  BY <1>1, <1>2 DEF TypeOK, ReadyQueues, Wakeup
<1> HIDE DEF e
<1>5. DistinctInv' /\ MatchInv'
  <2>1. DistinctInv'
    BY <1>1, <1>2 DEF DistinctInv, ReadyQueues, Wakeup
  <2>2. \A i \in Level : ~Occurs(readyQ[i], e)
    BY <1>1 DEF MatchInv
  <2>3. MatchInv'
    BY <1>1, <1>2, <1>3, <2>2 DEF MatchInv, Wakeup
  <2> QED BY <2>1, <2>3
<1>6. CurInv'
  BY <1>1, <1>2, <1>3 DEF TypeOK, CurInv, Unlinked, Wakeup
<1>7. PendingInv'
  BY <1>1, <1>2, <1>3, PendingKept DEF ToEnqueue, ToFree, Unlinked, Wakeup
<1>8. RoundRobinInv'
  BY DEF RoundRobinInv, Wakeup
<1>9. PlaceInv'
  <2>1. ASSUME NEW x \in Envs, Placed(x) PROVE Placed(x)'
    <3>1. Awaited(x) => Awaited(x)'
      BY DEF Awaited, Wakeup
    <3> QED BY <1>1, <1>2, <1>3, <2>1, <3>1 DEF Placed, Unlinked, Wakeup
  <2> QED BY <2>1, PlaceKept DEF Wakeup, Idle, Running
<1> QED BY <1>4, <1>5, <1>6, <1>7, <1>8, <1>9

(* A call that starts and only remembers whom it names.                    *)
LEMMA AsksStep ==
  ASSUME IInv, NEW p \in Envs, NEW o \in Ops, op' = [op EXCEPT ![p] = o],
         UNCHANGED <<scheduler_method, attrs, queues, cur, ctl, fault>>,
         Idle(p), o.kind \notin {"new", "free"},
         o.kind = "kill" => o.env \in Envs /\ "kill" \in Workload[scheduler_method],
         o.kind \in {"setprio", "setprio_store"} =>
           o.env \in Envs /\ "setprio" \in Workload[scheduler_method],
         scheduler_method = "RR" => o.prio = 0
  PROVE  IInv'
<1> USE DEF IInv
<1>1. /\ op' \in [Envs -> Ops]
      /\ op'[p] = o /\ \A q \in Envs \ {p} : op'[q] = op[q]
  BY OpSet
<1>2. TypeOK'
  BY <1>1 DEF TypeOK, Ops, attrs, queues
<1>3. DistinctInv' /\ MatchInv' /\ CurInv'
  BY DEF DistinctInv, MatchInv, CurInv, Unlinked, attrs, queues
<1>4. PendingInv'
  BY <1>1 DEF PendingInv, ToEnqueue, ToFree, Unlinked, attrs, queues
<1>5. RoundRobinInv'
  BY <1>1 DEF RoundRobinInv, attrs
<1>6. PlaceInv'
  <2>1. ASSUME NEW x \in Envs, Placed(x) PROVE Placed(x)'
    <3>1. Awaited(x) => Awaited(x)'
      BY <1>1 DEF Awaited, Idle, NoOp
    <3>2. status[p] = "RUNNING"
      BY DEF CurInv, Idle, Running
    <3> QED BY <1>1, <2>1, <3>1, <3>2 DEF Placed, Unlinked, attrs, queues
  <2> QED BY <2>1, PlaceKept DEF Idle, Running
<1> QED BY <1>2, <1>3, <1>4, <1>5, <1>6

(* sched_kill_env: a victim that is found somewhere is unlinked there, and *)
(* nobody else is to enqueue or free it.                                   *)
LEMMA KillEnvStep ==
  ASSUME IInv, NEW p \in Envs, sched_kill_env(p)
  PROVE  IInv'
<1> USE DEF IInv
<1>1. PICK e \in Envs : e = op[p].env /\ e # p
  BY DEF PendingInv, sched_kill_env
<1>2. /\ newQ' \in Seq(Envs) /\ Distinct(newQ')
      /\ \A x : Occurs(newQ', x) <=> Occurs(newQ, x) /\ x # e
  BY <1>1, OccursDrop DEF TypeOK, DistinctInv, sched_kill_env
<1>3. /\ exitQ' \in Seq(Envs) /\ Distinct(exitQ')
      /\ \A x : Occurs(exitQ', x) <=> Occurs(exitQ, x) /\ x # e
  BY <1>1, OccursDrop DEF TypeOK, DistinctInv, sched_kill_env
<1>4. /\ readyQ' \in [Level -> Seq(Envs)] /\ \A i \in Level : Distinct(readyQ'[i])
      /\ \A i \in Level : \A x : Occurs(readyQ'[i], x) <=> Occurs(readyQ[i], x) /\ x # e
  <2>1. readyQ' = [i \in Level |-> Drop(readyQ[i], e)]
    BY <1>1 DEF sched_kill_env
  <2> QED BY <2>1, OccursDrop DEF TypeOK, DistinctInv
<1> DEFINE marked == Occurs(newQ, e) \/ Occurs(exitQ, e)
           found == marked \/ ~Unlinked(e)
<1>5. /\ Contains(newQ, e) <=> Occurs(newQ, e)
      /\ Contains(exitQ, e) <=> Occurs(exitQ, e)
      /\ ReadyIn(e) # {} <=> ~Unlinked(e)
  <2>1. \A i \in Level : Contains(readyQ[i], e) <=> Occurs(readyQ[i], e)
    BY ContainsOccurs DEF TypeOK
  <2> QED BY <2>1, ContainsOccurs DEF TypeOK, ReadyIn, Unlinked
<1>6. /\ status' = IF marked THEN [status EXCEPT ![e] = "UNKNOWN"] ELSE status
      /\ op' = [op EXCEPT ![p] = IF found THEN [op[p] EXCEPT !.kind = "free"] ELSE NoOp]
      /\ UNCHANGED <<scheduler_method, priority, waited, chanQ, cur, ctl>>
  BY <1>1, <1>5 DEF sched_kill_env
<1>7. /\ op' \in [Envs -> Ops] /\ \A q \in Envs \ {p} : op'[q] = op[q]
      /\ found => /\ op'[p].kind = "free" /\ op'[p].env = e
                  /\ op'[p].prio = op[p].prio
      /\ ~found => op'[p].kind = "none" /\ op'[p].prio = 0
  <2>1. op[p] \in Ops
    BY DEF TypeOK, Ops
  <2>2. [op[p] EXCEPT !.kind = "free"] \in Ops
    BY <2>1 DEF Ops
  <2>3. NoOp \in Ops
    BY AskedLevels DEF NoOp, Ops
  <2>4. CASE found
    <3>1. op' = [op EXCEPT ![p] = [op[p] EXCEPT !.kind = "free"]]
      BY <1>6, <2>4
    <3>2. /\ op' \in [Envs -> Ops] /\ \A q \in Envs \ {p} : op'[q] = op[q]
          /\ op'[p] = [op[p] EXCEPT !.kind = "free"]
      BY <2>2, <3>1, OpSet
    <3> QED BY <1>1, <2>1, <2>4, <3>2 DEF Ops
  <2>5. CASE ~found
    BY <1>6, <2>5, OpDone
  <2> QED BY <2>4, <2>5
<1>8. /\ ctl = "env" /\ cur = p /\ op[p].kind = "kill"
      /\ \A x \in Envs \ {e} : status'[x] = status[x]
      /\ status'[e] = IF marked THEN "UNKNOWN" ELSE status[e]
  BY <1>6 DEF TypeOK, sched_kill_env, Running
<1>9. marked => status[e] # "BLOCKED"
  BY DEF MatchInv
<1>10. found => ToFree(e)'
  BY <1>1, <1>4, <1>6, <1>8 DEF MatchInv, ToFree, Unlinked
<1>11. \A q \in Envs : op[q].kind \in {"new", "free"} /\ op[q].env = e => ~found
  BY DEF PendingInv, ToEnqueue, ToFree, MatchInv, Unlinked
<1>12. "kill" \in Workload[scheduler_method]
  BY <1>8 DEF PendingInv
<1>13. TypeOK'
  BY <1>2, <1>3, <1>4, <1>6, <1>7 DEF TypeOK, Ops
<1>14. DistinctInv' /\ MatchInv'
  BY <1>2, <1>3, <1>4, <1>6, <1>8, <1>9 DEF DistinctInv, MatchInv
<1>15. CurInv'
  BY <1>1, <1>6, <1>8 DEF CurInv
<1>16. PendingInv'
  <2> HIDE DEF found, marked
  <2>1. \A x \in Envs \ {e} : /\ ToEnqueue(x) => ToEnqueue(x)'
                              /\ ToFree(x) => ToFree(x)'
    BY <1>2, <1>4, <1>6, <1>8 DEF ToEnqueue, ToFree, Unlinked
  <2>2. ~found => /\ ToEnqueue(e) => ToEnqueue(e)'
                  /\ ToFree(e) => ToFree(e)'
    BY <1>1, <1>2, <1>4, <1>6, <1>8 DEF ToEnqueue, ToFree, Unlinked, found
  <2>3. CASE ~found
    BY <1>6, <1>7, <2>1, <2>2, <2>3, PendingKept
  <2>4. CASE found
    <3>1. ASSUME NEW q \in Envs \ {p}, op[q].kind \in {"new", "free"}
          PROVE  op[q].env \in Envs \ {e}
      BY <1>11, <2>4, <3>1 DEF PendingInv
    <3>2. ASSUME NEW q \in Envs \ {p}, NEW x, x = op[q].env
          PROVE  /\ op'[q].kind = "new" => ToEnqueue(x)'
                 /\ op'[q].kind = "free" => ToFree(x)'
      <4>1. /\ op[q].kind = "new" => ToEnqueue(x)
            /\ op[q].kind = "free" => ToFree(x)
        BY <3>2 DEF PendingInv, ToEnqueue, ToFree, Unlinked
      <4> QED BY <1>7, <2>1, <3>1, <3>2, <4>1
    <3> QED BY <1>6, <1>7, <1>10, <1>12, <2>4, <3>1, <3>2
            DEF PendingInv, ToEnqueue, ToFree, Unlinked
  <2> QED BY <2>3, <2>4
<1>17. RoundRobinInv'
  BY <1>6, <1>7 DEF RoundRobinInv
<1>18. PlaceInv'
  BY <1>6, <1>12 DEF PlaceInv, Calm, PendingInv
<1> QED BY <1>13, <1>14, <1>15, <1>16, <1>17, <1>18

(* The victim of sched_kill_env is freed.                                  *)
LEMMA KillFreeStep ==
  ASSUME IInv, NEW p \in Envs, KillFree(p)
  PROVE  IInv'
<1> USE DEF IInv
<1>1. PICK e \in Envs : e = op[p].env /\ ToFree(e)
  BY DEF PendingInv, ToFree, Unlinked, KillFree
<1>2. /\ status' \in [Envs -> Statuses] /\ priority' \in [Envs -> Int]
      /\ waited' \in [Envs -> 0..(Threshold + 1)]
      /\ status'[e] = "FREE" /\ priority'[e] = 0
      /\ \A x \in Envs \ {e} : status'[x] = status[x] /\ priority'[x] = priority[x]
  BY <1>1, FreeEffect DEF KillFree
<1>3. /\ UNCHANGED <<scheduler_method, newQ, readyQ, exitQ, chanQ, cur, ctl>>
      /\ ctl = "env" /\ cur = p /\ op[p].kind = "free"
  BY DEF KillFree, queues, Running
<1>4. /\ op' \in [Envs -> Ops] /\ op'[p].kind = "none" /\ op'[p].prio = 0
      /\ \A q \in Envs : op'[q] = op[q] \/ (op'[q].kind = "none" /\ op'[q].prio = 0)
  <2>1. NoOp \in Ops
    BY AskedLevels DEF NoOp, Ops
  <2> QED BY <1>1, <2>1 DEF TypeOK, Ops, KillFree, NoOp
<1>5. TypeOK'
  BY <1>2, <1>3, <1>4 DEF TypeOK, Ops, Statuses
<1>6. DistinctInv' /\ MatchInv'
  BY <1>1, <1>2, <1>3 DEF DistinctInv, MatchInv, ToFree, Unlinked
<1>7. CurInv'
  BY <1>1, <1>2, <1>3 DEF CurInv, ToFree
<1>8. PendingInv'
  <2>1. \A q \in Envs \ {p} : op[q].kind \in {"new", "free"} => op[q].env # e
    BY <1>1, <1>3 DEF PendingInv
  <2> QED BY <1>2, <1>3, <1>4, <2>1, PendingKept DEF ToEnqueue, ToFree, Unlinked
<1>9. RoundRobinInv'
  BY <1>2, <1>3, <1>4 DEF RoundRobinInv
<1>10. PlaceInv'
  BY <1>3 DEF PlaceInv, Calm, PendingInv
<1> QED BY <1>5, <1>6, <1>7, <1>8, <1>9, <1>10

(* The running environment destroys itself.                                *)
LEMMA KillSelfStep ==
  ASSUME IInv, NEW p \in Envs, KillSelf(p)
  PROVE  IInv'
<1> USE DEF IInv
<1>1. /\ status[p] = "RUNNING" /\ ~Occurs(newQ, p) /\ ~Occurs(exitQ, p)
      /\ ~Occurs(chanQ, p) /\ Unlinked(p) /\ ~ToEnqueue(p) /\ ~ToFree(p)
  BY RunningIsNowhere DEF KillSelf
<1>2. /\ status' \in [Envs -> Statuses] /\ priority' \in [Envs -> Int]
      /\ waited' \in [Envs -> 0..(Threshold + 1)]
      /\ status'[p] = "FREE" /\ priority'[p] = 0
      /\ \A x \in Envs \ {p} : status'[x] = status[x] /\ priority'[x] = priority[x]
  BY FreeEffect DEF KillSelf
<1>3. /\ UNCHANGED <<scheduler_method, newQ, readyQ, exitQ, chanQ>>
      /\ ctl' = "gone" /\ cur' = p
      /\ "kill" \in Workload[scheduler_method]
  BY DEF KillSelf, Running, queues, PendingInv
<1>4. /\ op' \in [Envs -> Ops]
      /\ \A q \in Envs : op'[q] = op[q] \/ (op'[q].kind = "none" /\ op'[q].prio = 0)
  BY OpDone DEF KillSelf
<1>5. TypeOK'
  BY <1>2, <1>3, <1>4 DEF TypeOK, Ops, Statuses
<1>6. DistinctInv' /\ MatchInv'
  BY <1>1, <1>2, <1>3 DEF DistinctInv, MatchInv, Unlinked
<1>7. CurInv'
  BY <1>2, <1>3 DEF CurInv
<1>8. PendingInv'
  <2>1. \A e \in Envs : /\ ToEnqueue(e) => ToEnqueue(e)'
                        /\ ToFree(e) => ToFree(e)'
    BY <1>1, <1>2, <1>3, SchedAssumption DEF ToEnqueue, ToFree, Unlinked
  <2> QED BY <1>3, <1>4, <2>1, PendingKept
<1>9. RoundRobinInv'
  BY <1>2, <1>3, <1>4 DEF RoundRobinInv
<1>10. PlaceInv'
  BY <1>3 DEF PlaceInv, Calm, PendingInv, KillSelf
<1> QED BY <1>5, <1>6, <1>7, <1>8, <1>9, <1>10

(* What is left of a destruction by oneself: the scheduler has the CPU, or *)
(* nobody has.                                                             *)
LEMMA LeaveFreedStep ==
  ASSUME IInv, LeaveFreed
  PROVE  IInv'
<1> USE DEF IInv
<1>1. /\ UNCHANGED <<scheduler_method, status, priority, waited, newQ, readyQ, exitQ, chanQ,
                     op, fault>>
      /\ \/ ctl' = "sched" /\ cur' = NoEnv
         \/ ctl' = "dead" /\ cur' = cur
      /\ cur \in Envs /\ status[cur] = "FREE" /\ "kill" \in Workload[scheduler_method]
  BY DEF LeaveFreed, attrs, queues, CurInv
<1>2. TypeOK' /\ DistinctInv' /\ MatchInv' /\ CurInv' /\ RoundRobinInv'
  BY <1>1 DEF TypeOK, DistinctInv, MatchInv, CurInv, RoundRobinInv
<1>3. PendingInv'
  <2>1. \A e \in Envs : /\ ToEnqueue(e) => ToEnqueue(e)'
                        /\ ToFree(e) => ToFree(e)'
    BY <1>1, SchedAssumption DEF ToEnqueue, ToFree, Unlinked
  <2> QED BY <1>1, <2>1, PendingKept
<1>4. PlaceInv'
  BY <1>1 DEF PlaceInv, Calm
<1> QED BY <1>2, <1>3, <1>4

(* A priority that is stored without the lock changes no queue.            *)
LEMMA StorePriorityStep ==
  ASSUME IInv, NEW p \in Envs, SetPriorityStore(p)
  PROVE  IInv'
<1> USE DEF IInv
<1> DEFINE e == op[p].env
<1>1. e \in Envs /\ op[p].prio \in Level
  BY DEF TypeOK, PendingInv, SetPriorityStore
<1>2. /\ priority' \in [Envs -> Int] /\ priority'[e] = op[p].prio
      /\ \A x \in Envs \ {e} : priority'[x] = priority[x]
  BY <1>1 DEF TypeOK, SetPriorityStore, Level
<1>3. UNCHANGED <<scheduler_method, status, waited, newQ, readyQ, exitQ, chanQ, cur, ctl>>
  BY DEF SetPriorityStore, queues
<1>4. /\ op' \in [Envs -> Ops]
      /\ \A q \in Envs : op'[q] = op[q] \/ (op'[q].kind = "none" /\ op'[q].prio = 0)
  BY OpDone DEF SetPriorityStore
<1> HIDE DEF e
<1>5. TypeOK'
  BY <1>2, <1>3, <1>4 DEF TypeOK, Ops
<1>6. DistinctInv' /\ MatchInv' /\ CurInv'
  BY <1>3 DEF DistinctInv, MatchInv, CurInv, Unlinked
<1>7. PendingInv'
  BY <1>3, <1>4, PendingKept DEF ToEnqueue, ToFree, Unlinked
<1>8. RoundRobinInv'
  BY <1>1, <1>2, <1>3, <1>4 DEF RoundRobinInv, e
<1>9. PlaceInv'
  <2>1. ASSUME NEW x \in Envs, Placed(x) PROVE Placed(x)'
    <3>1. Awaited(x) => Awaited(x)'
      <4>1. op[p].kind # "new" /\ \A q \in Envs \ {p} : op'[q] = op[q]
        BY OpDone DEF SetPriorityStore
      <4> QED BY <4>1 DEF Awaited
    <3> QED BY <1>1, <1>2, <1>3, <1>4, <2>1, <3>1 DEF Placed, Unlinked
  <2> QED BY <1>3, <2>1, PlaceKept DEF SetPriorityStore, Running
<1> QED BY <1>5, <1>6, <1>7, <1>8, <1>9

(* env_set_priority of a READY environment moves it to the queue of its    *)
(* new priority, and fails its assertion for one that is not READY.  The   *)
(* one that is moved is not about to be freed: here Separate is needed.    *)
LEMMA LockedPriorityStep ==
  ASSUME IInv, Separate, NEW p \in Envs, SetPriorityLocked(p)
  PROVE  IInv'
<1> USE DEF IInv
<1>1. /\ op' \in [Envs -> Ops]
      /\ \A q \in Envs : op'[q] = op[q] \/ (op'[q].kind = "none" /\ op'[q].prio = 0)
  BY OpDone DEF SetPriorityLocked
<1>2. PICK e \in Envs : e = op[p].env
  BY DEF PendingInv, SetPriorityLocked
<1>3. CASE status[e] # "READY"
  <2>1. /\ Running(p) /\ LeaveCpu(p, "EXIT") /\ exitQ' = Append(exitQ, p)
        /\ UNCHANGED <<scheduler_method, priority, waited, newQ, readyQ, chanQ>>
        /\ fault \subseteq fault' /\ op[p].kind # "new" /\ op' = [op EXCEPT ![p] = NoOp]
    BY <1>2, <1>3 DEF SetPriorityLocked, sched_remove_ready
  <2> QED BY <2>1, OpDone, ExitsStep
<1>4. CASE status[e] = "READY"
  <2> DEFINE prio == op[p].prio
  <2>1. /\ priority' = [priority EXCEPT ![e] = prio]
        /\ waited' = [waited EXCEPT ![e] = 0]
        /\ readyQ' = [[i \in Level |-> Drop(readyQ[i], e)] EXCEPT ![prio] = Append(@, e)]
        /\ UNCHANGED <<scheduler_method, status, newQ, exitQ, chanQ, cur, ctl>>
        /\ ctl = "env" /\ prio \in Level
    BY <1>2, <1>4 DEF TypeOK, SetPriorityLocked, sched_remove_ready, Running
  <2> HIDE DEF prio
  <2>2. /\ priority' \in [Envs -> Int] /\ priority'[e] = prio
        /\ \A x \in Envs \ {e} : priority'[x] = priority[x]
        /\ waited' \in [Envs -> 0..(Threshold + 1)]
    <3>1. prio \in Int /\ 0 \in 0..(Threshold + 1)
      BY <2>1, SchedAssumption DEF Level
    <3> QED BY <2>1, <3>1 DEF TypeOK
  <2>3. \A i \in Level :
          /\ Drop(readyQ[i], e) \in Seq(Envs) /\ Distinct(Drop(readyQ[i], e))
          /\ \A x : Occurs(Drop(readyQ[i], e), x) <=> Occurs(readyQ[i], x) /\ x # e
    BY OccursDrop DEF TypeOK, DistinctInv
  <2>4. /\ Append(Drop(readyQ[prio], e), e) \in Seq(Envs)
        /\ Distinct(Append(Drop(readyQ[prio], e), e))
        /\ \A x : Occurs(Append(Drop(readyQ[prio], e), e), x)
                    <=> Occurs(readyQ[prio], x) \/ x = e
    <3> DEFINE d == Drop(readyQ[prio], e)
    <3>1. /\ d \in Seq(Envs) /\ Distinct(d)
          /\ \A x : Occurs(d, x) <=> Occurs(readyQ[prio], x) /\ x # e
      BY <2>1, <2>3
    <3> HIDE DEF d
    <3>2. /\ Append(d, e) \in Seq(Envs) /\ Distinct(Append(d, e))
          /\ \A x : Occurs(Append(d, e), x) <=> Occurs(readyQ[prio], x) \/ x = e
      BY <3>1, OccursAppend
    <3> QED BY <3>2 DEF d
  <2>5. /\ readyQ' \in [Level -> Seq(Envs)] /\ \A i \in Level : Distinct(readyQ'[i])
        /\ \A i \in Level : \A x : Occurs(readyQ'[i], x)
             <=> (Occurs(readyQ[i], x) /\ x # e) \/ (i = prio /\ x = e)
    BY <2>1, <2>3, <2>4
  <2>6. TypeOK'
    BY <1>1, <2>1, <2>2, <2>5 DEF TypeOK, Ops
  <2>7. DistinctInv' /\ MatchInv'
    <3>1. DistinctInv'
      BY <2>1, <2>5 DEF DistinctInv
    <3>2. MatchInv'
      BY <1>4, <2>1, <2>5 DEF MatchInv
    <3> QED BY <3>1, <3>2
  <2>8. CurInv'
    BY <2>1 DEF CurInv
  <2>9. PendingInv'
    <3>1. "setprio" \in Workload[scheduler_method]
      BY DEF PendingInv, SetPriorityLocked, sched_remove_ready
    <3>2. \A q \in Envs : op[q].kind # "free"
      BY <3>1 DEF PendingInv, Separate, TypeOK
    <3> QED BY <1>1, <1>4, <2>1, <3>2, PendingKept DEF ToEnqueue
  <2>10. RoundRobinInv'
    BY <1>1, <2>1, <2>2 DEF RoundRobinInv, prio
  <2>11. PlaceInv'
    <3>1. ASSUME NEW x \in Envs, Placed(x) PROVE Placed(x)'
      <4>1. Awaited(x) => Awaited(x)'
        <5>1. op[p].kind # "new" /\ \A q \in Envs \ {p} : op'[q] = op[q]
          BY OpDone DEF SetPriorityLocked, sched_remove_ready
        <5> QED BY <5>1 DEF Awaited
      <4> QED BY <1>1, <1>4, <2>1, <2>2, <2>5, <3>1, <4>1 DEF Placed, Unlinked
    <3>2. fault' = fault
      BY <1>2, <1>4 DEF SetPriorityLocked, sched_remove_ready
    <3> QED BY <2>1, <3>1, <3>2, PlaceKept
  <2> QED BY <2>6, <2>7, <2>8, <2>9, <2>10, <2>11
<1> QED BY <1>3, <1>4

----------------------------------------------------------------------------
(* The clock interrupt and the scheduler.                                  *)

(* Whom the walk of queue i moves to queue j.                              *)
LEMMA MovingQueue ==
  ASSUME TypeOK, DistinctInv, NEW i \in Level, NEW j \in Level
  PROVE  /\ Moving(i, j) \in Seq(Envs) /\ Distinct(Moving(i, j))
         /\ \A x \in Envs : Occurs(Moving(i, j), x)
              <=> Occurs(readyQ[i], x) /\ Starved(x) /\ priority[x] - 1 = j
<1> DEFINE S == {e \in Envs : Starved(e) /\ priority[e] - 1 = j}
           r == Reverse(readyQ[i])
<1>1. \A x \in Envs : x \in S <=> Starved(x) /\ priority[x] - 1 = j
  OBVIOUS
<1>2. Moving(i, j) = Filter(r, S)
  BY DEF Moving
<1>3. /\ r \in Seq(Envs) /\ Distinct(r)
      /\ \A x : Occurs(r, x) <=> Occurs(readyQ[i], x)
  BY OccursReverse DEF TypeOK, DistinctInv
<1> HIDE DEF S, r
<1>4. /\ Filter(r, S) \in Seq(Envs) /\ Distinct(Filter(r, S))
      /\ \A x \in Envs : Occurs(Filter(r, S), x) <=> Occurs(r, x) /\ x \in S
  BY <1>3, FilterType, FilterDistinct, FilterOccurs
<1> QED BY <1>1, <1>2, <1>3, <1>4

(* Whoever has waited too long leaves its queue, and joins the one above   *)
(* its priority.                                                           *)
LEMMA AgedQueue ==
  ASSUME TypeOK, DistinctInv, MatchInv, NEW j \in Level
  PROVE  /\ Aged(j) \in Seq(Envs) /\ Distinct(Aged(j))
         /\ \A x \in Envs : Occurs(Aged(j), x)
              <=> \/ Occurs(readyQ[j], x) /\ ~Starved(x)
                  \/ ~Unlinked(x) /\ Starved(x) /\ priority[x] - 1 = j
<1> DEFINE n == Levels
           V == Seq(Envs)
           s == [k \in 1..n |-> k - 1]
           moved(k, x) == Occurs(readyQ[k], x) /\ Starved(x) /\ priority[x] - 1 = j
           sofar(a, k) ==
             /\ Distinct(a)
             /\ \A x \in Envs : Occurs(a, x)
                  <=> \/ Occurs(readyQ[j], x) /\ ~Starved(x)
                      \/ \E l \in Level : l < k /\ moved(l, x)
           Q == [k \in 0..n |-> {a \in V : sofar(a, k)}]
           G == [k \in 1..n |-> [a \in V |-> a \o Moving(s[k], j)]]
           b == Staying(j)
           after == CHOOSE f : f = [k \in 0..n |-> IF k = 0 THEN b
                                                   ELSE f[k - 1] \o Moving(s[k], j)]
<1>1. n \in Nat \ {0} /\ Len(s) = n /\ \A k \in 1..n : s[k] = k - 1 /\ k - 1 \in Level
  BY SchedAssumption DEF Level
<1>2. Aged(j) = after[n]
  BY <1>1 DEF Aged, Each
<1>3. Q \in [0..n -> SUBSET V]
  OBVIOUS
<1>4. b \in Q[0]
  <2> DEFINE S == {e \in Envs : ~Starved(e)}
  <2>1. \A x \in Envs : x \in S <=> ~Starved(x)
    OBVIOUS
  <2>2. b = Filter(readyQ[j], S) /\ readyQ[j] \in Seq(Envs) /\ Distinct(readyQ[j])
    BY DEF Staying, TypeOK, DistinctInv
  <2> HIDE DEF S, b
  <2>3. /\ b \in V /\ Distinct(b)
        /\ \A x \in Envs : Occurs(b, x) <=> Occurs(readyQ[j], x) /\ x \in S
    BY <2>2, FilterType, FilterDistinct, FilterOccurs
  <2>4. \A l \in Level : ~(l < 0)
    BY <1>1 DEF Level
  <2>5. 0 \in 0..n
    BY <1>1
  <2> QED BY <2>1, <2>3, <2>4, <2>5
<1> HIDE DEF b
<1>5. ASSUME NEW k \in 1..n, NEW a \in Q[k - 1] PROVE G[k][a] \in Q[k]
  <2>1. /\ k - 1 \in 0..n /\ k \in 0..n /\ s[k] = k - 1 /\ k - 1 \in Level
        /\ \A l \in Level : l < k <=> l < k - 1 \/ l = k - 1
    BY <1>1 DEF Level
  <2>2. a \in V /\ sofar(a, k - 1)
    BY <2>1
  <2> DEFINE t == Moving(k - 1, j)
             c == a \o t
  <2>3. G[k][a] = c
    BY <2>1, <2>2
  <2> HIDE DEF G, Q, t
  <2>4. /\ t \in Seq(Envs) /\ Distinct(t)
        /\ \A x \in Envs : Occurs(t, x) <=> moved(k - 1, x)
    BY <2>1, MovingQueue DEF t
  <2>5. \A x \in Envs : ~(Occurs(a, x) /\ Occurs(t, x))
    BY <2>1, <2>2, <2>4 DEF MatchInv
  <2>6. /\ c \in V /\ Distinct(c)
        /\ \A x : Occurs(c, x) <=> Occurs(a, x) \/ Occurs(t, x)
    BY <2>2, <2>4, <2>5, OccursConcat
  <2> HIDE DEF c
  <2>7. sofar(c, k)
    BY <2>1, <2>2, <2>4, <2>6
  <2> HIDE DEF sofar
  <2>8. c \in Q[k]
    BY <2>1, <2>6, <2>7 DEF Q
  <2> QED BY <2>3, <2>8
<1>6. /\ \E f \in [0..n -> V] : f[0] = b /\ \A k \in 1..n : f[k] = G[k][f[k - 1]]
      /\ \A f : (/\ f[0] = b
                 /\ \A k \in 1..n : f[k - 1] \in V => f[k] = G[k][f[k - 1]])
                => f[n] \in Q[n]
  <2>1. n \in Nat /\ \A k \in 1..n : \A a \in Q[k - 1] : G[k][a] \in Q[k]
    BY <1>1, <1>5
  <2> HIDE DEF G, n, V, after, Q, s
  <2>2. Leads(n, V, Q, G, b)
    BY <1>3, <1>4, <2>1 DEF Leads
  <2> QED BY <2>2, Chain
<1> HIDE DEF Q
<1>7. after = [k \in 0..n |-> IF k = 0 THEN b ELSE after[k - 1] \o Moving(s[k], j)]
  <2>1. PICK f \in [0..n -> V] : f[0] = b /\ \A k \in 1..n : f[k] = G[k][f[k - 1]]
    BY <1>6
  <2>2. ASSUME NEW k \in 0..n
        PROVE  f[k] = IF k = 0 THEN b ELSE f[k - 1] \o Moving(s[k], j)
    <3>1. CASE k = 0
      BY <2>1, <3>1
    <3>2. CASE k # 0
      <4>1. k \in 1..n /\ k - 1 \in 0..n
        BY <1>1, <3>2
      <4>2. f[k] = G[k][f[k - 1]] /\ f[k - 1] \in V
        BY <2>1, <4>1
      <4> QED BY <3>2, <4>1, <4>2
    <3> QED BY <3>1, <3>2
  <2>3. f = [k \in 0..n |-> IF k = 0 THEN b ELSE f[k - 1] \o Moving(s[k], j)]
    BY <2>1, <2>2
  <2> QED BY <2>3
<1>8. after[n] \in Q[n]
  <2>0. \A k \in 0..n : after[k] = IF k = 0 THEN b ELSE after[k - 1] \o Moving(s[k], j)
    <3> HIDE DEF after, s
    <3> QED BY <1>7
  <2>1. after[0] = b
    <3>1. 0 \in 0..n
      BY <1>1
    <3> HIDE DEF after, b
    <3> QED BY <2>0, <3>1
  <2>2. ASSUME NEW k \in 1..n, after[k - 1] \in V PROVE after[k] = G[k][after[k - 1]]
    <3>1. k \in 0..n /\ k # 0
      BY <1>1
    <3>2. after[k] = after[k - 1] \o Moving(s[k], j)
      BY <2>0, <3>1
    <3> HIDE DEF after
    <3> QED BY <2>2, <3>2
  <2> HIDE DEF after, G, V
  <2> QED BY <1>6, <2>1, <2>2
<1>9. after[n] \in V /\ sofar(after[n], n)
  <2>1. n \in 0..n
    BY <1>1
  <2> HIDE DEF after
  <2> QED BY <1>8, <2>1 DEF Q
<1>10. \A x \in Envs : (\E l \in Level : l < n /\ moved(l, x))
                        <=> ~Unlinked(x) /\ Starved(x) /\ priority[x] - 1 = j
  <2>1. \A l \in Level : l < n
    BY <1>1 DEF Level
  <2> QED BY <2>1 DEF Unlinked
<1> HIDE DEF after
<1> QED BY <1>2, <1>9, <1>10

(* Ageing leaves everybody at one level or, from level 0, at none.         *)
LEMMA ClockStep ==
  ASSUME IInv, clock_interrupt_handler
  PROVE  IInv'
<1> USE DEF IInv
<1>1. /\ cur \in Envs /\ status[cur] = "RUNNING" /\ Unlinked(cur)
      /\ ~Occurs(newQ, cur) /\ ~Occurs(exitQ, cur) /\ ~Occurs(chanQ, cur)
  BY DEF CurInv, MatchInv, Unlinked, clock_interrupt_handler
<1>2. /\ UNCHANGED <<scheduler_method, newQ, exitQ, chanQ, cur, op>>
      /\ ctl' = "sched" /\ status' = [status EXCEPT ![cur] = "READY"]
  BY DEF clock_interrupt_handler
<1>3. readyQ' = [j \in Level |-> Aged(j)]
  BY DEF clock_interrupt_handler
<1>4. /\ readyQ' \in [Level -> Seq(Envs)] /\ \A j \in Level : Distinct(readyQ'[j])
      /\ \A j \in Level, x \in Envs : Occurs(readyQ'[j], x)
             <=> \/ Occurs(readyQ[j], x) /\ ~Starved(x)
                 \/ ~Unlinked(x) /\ Starved(x) /\ priority[x] - 1 = j
  BY <1>3, AgedQueue
<1>5. \A x \in Envs : ReadyIn(x) # {} <=> ~Unlinked(x)
  BY LinkedIn
<1>6. /\ priority' \in [Envs -> Int]
      /\ \A x \in Envs : priority'[x] = IF ~Unlinked(x) /\ Starved(x)
                                        THEN priority[x] - 1 ELSE priority[x]
  <2>1. priority' = [x \in Envs |-> IF scheduler_method = "PRIRR" /\ ReadyIn(x) # {} /\ Starved(x)
                                    THEN priority[x] - 1 ELSE priority[x]]
    BY DEF clock_interrupt_handler
  <2>2. \A x \in Envs : priority'[x] = IF ~Unlinked(x) /\ Starved(x)
                                        THEN priority[x] - 1 ELSE priority[x]
    BY <1>5, <2>1, Zenon DEF Starved
  <2>3. \A x \in Envs : priority[x] \in Int /\ priority[x] - 1 \in Int
    BY DEF TypeOK
  <2> QED BY <2>1, <2>2, <2>3
<1>7. waited' \in [Envs -> 0..(Threshold + 1)]
  <2>1. \A x \in Envs : /\ waited[x] \in 0..(Threshold + 1)
                        /\ 0 \in 0..(Threshold + 1) /\ 1 \in 0..(Threshold + 1)
                        /\ ~(waited[x] > Threshold) => waited[x] + 1 \in 0..(Threshold + 1)
    BY SchedAssumption DEF TypeOK
  <2> QED BY <2>1 DEF TypeOK, clock_interrupt_handler, Starved
<1>8. TypeOK'
  BY <1>1, <1>2, <1>4, <1>6, <1>7 DEF TypeOK
<1>9. DistinctInv'
  BY <1>2, <1>4 DEF DistinctInv
<1>10. MatchInv'
  <2>1. \A x \in Envs : x # cur => status'[x] = status[x]
    BY <1>1, <1>2 DEF TypeOK
  <2>2. status'[cur] = "READY"
    BY <1>1, <1>2 DEF TypeOK
  <2>3. ASSUME NEW i \in Level, NEW x \in Envs, Occurs(readyQ'[i], x)
        PROVE  x # cur /\ status[x] = "READY"
    BY <1>1, <1>4, <2>3 DEF MatchInv, Unlinked
  <2>4. ASSUME NEW i \in Level, NEW j \in Level, NEW x \in Envs,
               Occurs(readyQ'[i], x), Occurs(readyQ'[j], x)
        PROVE  i = j
    BY <1>4, <2>4 DEF MatchInv
  <2> QED BY <1>1, <1>2, <2>1, <2>2, <2>3, <2>4 DEF MatchInv
<1>11. CurInv'
  BY <1>1, <1>2, <1>4 DEF TypeOK, CurInv, Unlinked
<1>12. PendingInv'
  <2>1. \A e \in Envs : /\ ToEnqueue(e) => ToEnqueue(e)'
                        /\ ToFree(e) => ToFree(e)'
    BY <1>1, <1>2, <1>4 DEF TypeOK, ToEnqueue, ToFree, Unlinked
  <2> QED BY <1>2, <2>1, PendingKept
<1>13. RoundRobinInv'
  BY <1>2, <1>6 DEF RoundRobinInv, Starved
<1>14. PlaceInv'
  <2>1. fault \subseteq fault'
    BY DEF clock_interrupt_handler
  <2>2. SUFFICES ASSUME Calm' PROVE \A x \in Envs : Placed(x)'
    BY <1>2 DEF PlaceInv
  <2>3. \A x \in Envs : Placed(x)
    BY <1>2, <2>1, <2>2 DEF PlaceInv, Calm, NoStray
  <2>4. \A x \in Envs : ~Unlinked(x) /\ Starved(x) => priority[x] # 0
    BY <1>5, <2>2 DEF clock_interrupt_handler, Calm, NoStray, Starved
  <2>5. ASSUME NEW x \in Envs PROVE priority'[x] \in Level /\ (~Unlinked(x) => ~Unlinked(x)')
    <3>1. priority[x] \in Level
      BY <2>3 DEF Placed
    <3>2. CASE ~Unlinked(x) /\ Starved(x)
      <4>1. priority[x] - 1 \in Level
        BY <2>4, <3>1, <3>2, SchedAssumption DEF Level
      <4>2. Occurs(readyQ'[priority[x] - 1], x)
        BY <1>4, <3>2, <4>1
      <4> QED BY <1>6, <3>2, <4>1, <4>2 DEF Unlinked
    <3>3. CASE Unlinked(x) \/ ~Starved(x)
      BY <1>4, <1>6, <3>1, <3>3 DEF Unlinked
    <3> QED BY <3>2, <3>3
  <2>6. ASSUME NEW x \in Envs PROVE Placed(x)'
    <3>1. Awaited(x) => Awaited(x)'
      BY <1>2 DEF Awaited
    <3> QED BY <1>1, <1>2, <2>3, <2>5, <3>1 DEF TypeOK, Placed, clock_interrupt_handler
  <2> QED BY <2>6
<1> QED BY <1>8, <1>9, <1>10, <1>11, <1>12, <1>13, <1>14

(* Among some levels there is a highest one.                               *)
LEMMA HighestType ==
  ASSUME NEW S \in SUBSET Nat, S # {}
  PROVE  Highest(S) \in S /\ \A j \in S : Highest(S) <= j
<1> DEFINE R == OpToRel(<, Nat)
<1>1. IsWellFoundedOn(R, Nat)
  BY NatLessThanWellFounded
<1>2. PICK x \in S : \A y \in S : ~(<<y, x>> \in R)
  <2> HIDE DEF R
  <2> QED BY <1>1, WFMin
<1>3. \A y \in S : ~(y < x)
  BY <1>2 DEF OpToRel
<1>4. \A y \in S : x <= y
  BY <1>3
<1> QED BY <1>4 DEF Highest

(* The ready queues once the current environment is back in the one of its *)
(* priority: round robin's only level is that of everybody.                *)
LEMMA RequeuedQueues ==
  ASSUME IInv, ctl = "sched"
  PROVE  /\ ReadyQueues(Requeued)
         /\ \A i \in Level, x \in Envs :
              Occurs(Requeued[i], x) <=> \/ Occurs(readyQ[i], x)
                                         \/ x = cur /\ priority[x] = i
<1> USE DEF IInv
<1>1. ReadyQueues(readyQ)
  BY DEF TypeOK, DistinctInv, ReadyQueues
<1>2. CASE cur = NoEnv
  BY <1>1, <1>2, SchedAssumption DEF Requeued
<1>3. CASE cur # NoEnv
  <2>1. cur \in Envs /\ Unlinked(cur)
    BY <1>3 DEF TypeOK, CurInv
  <2>2. CASE scheduler_method = "RR"
    <3>1. Requeued = [readyQ EXCEPT ![0] = Append(@, cur)] /\ priority[cur] = 0
      BY <1>3, <2>1, <2>2 DEF Requeued, RoundRobinInv
    <3>2. /\ 0 \in Level
          /\ Append(readyQ[0], cur) \in Seq(Envs) /\ Distinct(Append(readyQ[0], cur))
          /\ \A x : Occurs(Append(readyQ[0], cur), x) <=> Occurs(readyQ[0], x) \/ x = cur
      BY <1>1, <2>1, AskedLevels, OccursAppend DEF ReadyQueues, Unlinked
    <3>3. ReadyQueues(Requeued)
      BY <1>1, <3>1, <3>2 DEF ReadyQueues
    <3>4. Requeued[0] = Append(readyQ[0], cur) /\ \A i \in Level \ {0} : Requeued[i] = readyQ[i]
      BY <1>1, <3>1, <3>2 DEF ReadyQueues
    <3> QED BY <2>1, <3>1, <3>2, <3>3, <3>4
  <2>3. CASE scheduler_method # "RR"
    <3> DEFINE s == <<cur>>
    <3>1. Requeued = sched_insert_ready(readyQ, s)
      BY <1>3, <2>3 DEF Requeued
    <3>2. s \in Seq(Envs) /\ Distinct(s) /\ \A x : Occurs(s, x) <=> x = cur
      BY <2>1, OccursOne
    <3> HIDE DEF s
    <3>3. \A x \in Envs, i \in Level : ~(Occurs(s, x) /\ Occurs(readyQ[i], x))
      BY <2>1, <3>2 DEF Unlinked
    <3>4. /\ ReadyQueues(sched_insert_ready(readyQ, s))
          /\ \A i \in Level, x \in Envs :
               Occurs(sched_insert_ready(readyQ, s)[i], x)
                 <=> Occurs(readyQ[i], x) \/ (Occurs(s, x) /\ priority[x] = i)
      BY <1>1, <3>2, <3>3, InsertReady
    <3> QED BY <3>1, <3>2, <3>4
  <2> QED BY <2>2, <2>3
<1> QED BY <1>2, <1>3

(* The scheduler takes the first environment of the best queue.            *)
LEMMA Chosen ==
  ASSUME IInv, SchedRun
  PROVE  LET i == Highest(NonEmpty)
             e == Head(Requeued[i])
         IN  /\ i \in Level /\ e \in Envs /\ cur' = e /\ ctl' = "env"
             /\ \A j \in Level : Requeued[j] # <<>> => i <= j
             /\ \/ Occurs(readyQ[i], e)
                \/ e = cur
             /\ e = cur => priority[e] = i
             /\ status[e] = "READY"
             /\ readyQ' \in [Level -> Seq(Envs)] /\ \A j \in Level : Distinct(readyQ'[j])
             /\ \A j \in Level, x \in Envs : Occurs(readyQ'[j], x)
                  <=> /\ x # e
                      /\ Occurs(readyQ[j], x) \/ (x = cur /\ priority[x] = j)
<1> USE DEF IInv
<1> DEFINE i == Highest(NonEmpty)
           e == Head(Requeued[i])
<1>1. /\ ReadyQueues(Requeued)
      /\ \A j \in Level, x \in Envs :
           Occurs(Requeued[j], x) <=> Occurs(readyQ[j], x) \/ (x = cur /\ priority[x] = j)
  BY RequeuedQueues DEF SchedRun
<1>2. /\ i \in Level /\ Requeued[i] # <<>>
      /\ \A j \in Level : Requeued[j] # <<>> => i <= j
  <2>1. NonEmpty \in SUBSET Nat /\ NonEmpty # {}
    BY SchedAssumption DEF NonEmpty, Level, SchedRun
  <2>2. i \in NonEmpty /\ \A j \in NonEmpty : i <= j
    BY <2>1, HighestType
  <2> QED BY <2>2 DEF NonEmpty
<1>3. /\ readyQ' = [Requeued EXCEPT ![i] = Tail(@)]
      /\ cur' = e /\ ctl' = "env" /\ ctl = "sched"
  BY DEF SchedRun
<1> HIDE DEF i
<1>4. /\ Tail(Requeued[i]) \in Seq(Envs) /\ e \in Envs /\ Occurs(Requeued[i], e)
      /\ Distinct(Tail(Requeued[i]))
      /\ \A x : Occurs(Tail(Requeued[i]), x) <=> Occurs(Requeued[i], x) /\ x # e
  BY <1>1, <1>2, OccursTail DEF ReadyQueues
<1> HIDE DEF e
<1>5. /\ Occurs(readyQ[i], e) \/ e = cur
      /\ e = cur => priority[e] = i /\ Unlinked(e)
      /\ status[e] = "READY"
  <2>1. Occurs(readyQ[i], e) \/ (e = cur /\ priority[e] = i)
    BY <1>1, <1>2, <1>4
  <2>2. e = cur => status[e] = "READY" /\ Unlinked(e)
    BY <1>3, <1>4, SchedAssumption DEF CurInv
  <2> QED BY <1>2, <1>4, <2>1, <2>2 DEF MatchInv, Unlinked
<1>6. /\ readyQ' \in [Level -> Seq(Envs)] /\ \A j \in Level : Distinct(readyQ'[j])
      /\ readyQ'[i] = Tail(Requeued[i]) /\ \A j \in Level \ {i} : readyQ'[j] = Requeued[j]
  BY <1>1, <1>2, <1>3, <1>4 DEF ReadyQueues
<1>7. \A j \in Level \ {i} : ~Occurs(Requeued[j], e)
  <2>1. CASE e = cur
    BY <1>1, <1>4, <1>5, <2>1 DEF Unlinked
  <2>2. CASE e # cur
    BY <1>1, <1>2, <1>4, <1>5, <2>2 DEF MatchInv
  <2> QED BY <2>1, <2>2
<1>8. \A j \in Level, x \in Envs : Occurs(readyQ'[j], x)
        <=> x # e /\ (Occurs(readyQ[j], x) \/ (x = cur /\ priority[x] = j))
  BY <1>1, <1>4, <1>6, <1>7
<1> QED BY <1>2, <1>3, <1>4, <1>5, <1>6, <1>8 DEF i, e

(* Whoever is chosen leaves its queue, and whoever ran is in its own.      *)
LEMMA SchedRunStep ==
  ASSUME IInv, SchedRun
  PROVE  IInv'
<1> USE DEF IInv
<1> DEFINE i == Highest(NonEmpty)
           e == Head(Requeued[i])
<1>1. /\ i \in Level /\ e \in Envs /\ cur' = e /\ ctl' = "env"
      /\ Occurs(readyQ[i], e) \/ e = cur
      /\ status[e] = "READY"
      /\ readyQ' \in [Level -> Seq(Envs)] /\ \A j \in Level : Distinct(readyQ'[j])
      /\ \A j \in Level, x \in Envs : Occurs(readyQ'[j], x)
           <=> x # e /\ (Occurs(readyQ[j], x) \/ (x = cur /\ priority[x] = j))
  BY Chosen
<1>2. /\ status' = [status EXCEPT ![e] = "RUNNING"]
      /\ waited' = Rested
      /\ UNCHANGED <<scheduler_method, priority, newQ, exitQ, chanQ, op>>
      /\ ctl = "sched"
  BY DEF SchedRun
<1> HIDE DEF i, e
<1>3. \A x \in Envs : x # e => status'[x] = status[x]
  BY <1>2 DEF TypeOK
<1>4. status'[e] = "RUNNING"
  BY <1>1, <1>2 DEF TypeOK
<1>5. cur \in Envs => status[cur] = "READY"
  BY <1>2, SchedAssumption DEF CurInv
<1>6. TypeOK'
  <2>1. waited' \in [Envs -> 0..(Threshold + 1)]
    <3>1. 0 \in 0..(Threshold + 1)
      BY SchedAssumption
    <3> QED BY <1>2, <3>1 DEF Rested, TypeOK
  <2> QED BY <1>1, <1>2, <2>1 DEF TypeOK
<1>7. DistinctInv'
  BY <1>1, <1>2 DEF DistinctInv
<1>8. MatchInv'
  <2>1. cur \in Envs => Unlinked(cur)
    BY <1>2, SchedAssumption DEF CurInv
  <2> QED BY <1>1, <1>2, <1>3, <1>4, <1>5, <2>1 DEF MatchInv, Unlinked
<1>9. CurInv'
  BY <1>1, <1>4 DEF CurInv
<1>10. PendingInv'
  <2>1. ~ToFree(e)
    BY <1>1 DEF ToFree, Unlinked
  <2>2. \A x \in Envs : /\ ToEnqueue(x) => ToEnqueue(x)'
                        /\ ToFree(x) => ToFree(x)'
    BY <1>1, <1>2, <1>3, <2>1 DEF ToEnqueue, ToFree, Unlinked
  <2> QED BY <1>2, <2>2, PendingKept
<1>11. RoundRobinInv'
  BY <1>2 DEF RoundRobinInv
<1>12. PlaceInv'
  <2>1. ASSUME NEW x \in Envs, Placed(x) PROVE Placed(x)'
    <3>1. Awaited(x) => Awaited(x)'
      BY <1>2 DEF Awaited
    <3> QED BY <1>1, <1>2, <1>3, <1>4, <2>1, <3>1 DEF Placed, Unlinked
  <2> QED BY <1>1, <1>2, <2>1, PlaceKept DEF SchedRun
<1> QED BY <1>6, <1>7, <1>8, <1>9, <1>10, <1>11, <1>12

(* Back to the prompt: nobody is current.                                  *)
LEMMA PromptStep ==
  ASSUME IInv, SchedToPrompt
  PROVE  IInv'
<1> USE DEF IInv
<1>1. TypeOK' /\ DistinctInv' /\ MatchInv' /\ CurInv' /\ RoundRobinInv'
  BY DEF TypeOK, DistinctInv, MatchInv, CurInv, RoundRobinInv, SchedToPrompt, attrs, queues
<1>2. PendingInv'
  <2>1. \A x \in Envs : /\ ToEnqueue(x) => ToEnqueue(x)'
                        /\ ToFree(x) => ToFree(x)'
    BY SchedAssumption DEF ToEnqueue, ToFree, Unlinked, SchedToPrompt, attrs, queues
  <2> QED BY <2>1, PendingKept DEF SchedToPrompt
<1>3. PlaceInv'
  <2>1. \A i \in Level : Requeued[i] = <<>>
    BY DEF SchedToPrompt, NonEmpty
  <2>2. \A x \in Envs, i \in Level : ~Occurs(readyQ[i], x) /\ ~(x = cur /\ priority[x] = i)
    BY <2>1, RequeuedQueues, OccursEmpty DEF SchedToPrompt
  <2>3. ASSUME NEW x \in Envs, Placed(x) PROVE Placed(x)'
    <3>1. Awaited(x) => Awaited(x)'
      BY DEF Awaited, SchedToPrompt
    <3> QED BY <2>2, <2>3, <3>1 DEF Placed, Unlinked, SchedToPrompt, attrs, queues
  <2> QED BY <2>2, <2>3, PlaceKept DEF Unlinked, SchedToPrompt, queues
<1> QED BY <1>1, <1>2, <1>3

----------------------------------------------------------------------------
(* The invariant holds.                                                    *)

(* Every step of a system call keeps the invariant.                        *)
LEMMA SyscallStep ==
  ASSUME IInv, NEW p \in Envs, Syscall(p)
  PROVE  IInv'
<1>1. ASSUME NEW e \in Envs, sys_create_env(p, e) PROVE IInv'
  BY <1>1, CreateStep
<1>2. ASSUME NEW e \in Envs, sys_run_env(p, e) PROVE IInv'
  BY <1>2, RunEnvStep
<1>3. ASSUME NEW e \in Envs, sys_destroy_env(p, e) PROVE IInv'
  <2> DEFINE o == [kind |-> "kill", env |-> e, prio |-> 0]
  <2>1. o \in Ops /\ o.kind = "kill" /\ o.env = e /\ o.prio = 0
    BY AskedLevels DEF Ops
  <2>2. /\ op' = [op EXCEPT ![p] = o] /\ "kill" \in Workload[scheduler_method]
        /\ UNCHANGED <<scheduler_method, attrs, queues, cur, ctl, fault>>
        /\ Idle(p)
    BY <1>3 DEF sys_destroy_env
  <2> HIDE DEF o
  <2> QED BY <2>1, <2>2, AsksStep
<1>4. ASSUME NEW e \in Envs, NEW prio \in Askable, env_set_priority(p, e, prio)
      PROVE  IInv'
  <2> DEFINE o == [kind |-> IF status[e] = "READY" THEN "setprio" ELSE "setprio_store",
                   env |-> e, prio |-> prio]
  <2>1. /\ o \in Ops /\ o.env = e /\ o.prio = prio
        /\ o.kind \in {"setprio", "setprio_store"}
    BY AskedLevels DEF Ops
  <2>2. /\ op' = [op EXCEPT ![p] = o] /\ "setprio" \in Workload[scheduler_method]
        /\ UNCHANGED <<scheduler_method, attrs, queues, cur, ctl, fault>>
        /\ Idle(p)
    BY <1>4 DEF env_set_priority, attrs
  <2>3. scheduler_method = "RR" => prio = 0
    BY AskedLevels
  <2> HIDE DEF o
  <2> QED BY <2>1, <2>2, <2>3, AsksStep
<1>5. ASSUME sys_exit_env(p) \/ \E e \in Envs : SetPriorityStale(p, e) PROVE IInv'
  <2>1. /\ Running(p) /\ LeaveCpu(p, "EXIT") /\ exitQ' = Append(exitQ, p) /\ op' = op
        /\ UNCHANGED <<scheduler_method, priority, waited, newQ, readyQ, chanQ>>
        /\ fault \subseteq fault' /\ op[p].kind = "none" /\ op[p].prio = 0
    <3>1. ASSUME sys_exit_env(p) PROVE <2>1!:
      BY <3>1 DEF sys_exit_env, Idle, NoOp
    <3>2. ASSUME NEW e \in Envs, SetPriorityStale(p, e) PROVE <2>1!:
      <4>1. fault \subseteq fault'
        BY <3>2 DEF SetPriorityStale
      <4>2. Running(p) /\ op[p].kind = "none" /\ op[p].prio = 0
        <5>1. Idle(p)
          BY <3>2 DEF SetPriorityStale
        <5> QED BY <5>1 DEF Idle, NoOp
      <4> QED BY <3>2, <4>1, <4>2 DEF SetPriorityStale
    <3> QED BY <1>5, <3>1, <3>2
  <2>2. op \in [Envs -> Ops]
    BY DEF IInv, TypeOK, Ops
  <2> QED BY <2>1, <2>2, ExitsStep
<1>6. ASSUME Block(p) PROVE IInv'
  BY <1>6, BlockStep
<1> QED BY <1>1, <1>2, <1>3, <1>4, <1>5, <1>6 DEF Syscall

(* Every step of the system keeps the invariant.                           *)
LEMMA IInvStep == Separate /\ IInv /\ [Next]_vars => IInv'
<1> SUFFICES ASSUME Separate, IInv, [Next]_vars PROVE IInv'
  OBVIOUS
<1>1. CASE Prompt
  BY <1>1, LoadStep, RunProgramStep, KillProgramStep, RunAllStep, KillAllStep DEF Prompt
<1>2. ASSUME NEW p \in Envs, Syscall(p) PROVE IInv'
  BY <1>2, SyscallStep
<1>3. ASSUME NEW p \in Envs, Finish(p) PROVE IInv'
  BY <1>3, NewEnvStep, LockedPriorityStep, StorePriorityStep, KillEnvStep, KillFreeStep,
     KillSelfStep DEF Finish
<1>4. CASE Wakeup
  BY <1>4, WakeupStep
<1>5. CASE clock_interrupt_handler
  BY <1>5, ClockStep
<1>6. CASE Scheduler
  BY <1>6, SchedRunStep, PromptStep DEF Scheduler
<1>7. CASE LeaveFreed
  BY <1>7, LeaveFreedStep
<1>8. CASE UNCHANGED vars
  <2>1. UNCHANGED <<scheduler_method, status, priority, waited, newQ, readyQ, exitQ, chanQ,
                    cur, ctl, op, fault>>
    BY <1>8 DEF vars, attrs, queues
  <2>2. TypeOK' /\ DistinctInv' /\ MatchInv' /\ CurInv' /\ PendingInv' /\ RoundRobinInv'
    BY <2>1 DEF IInv, TypeOK, DistinctInv, MatchInv, CurInv, PendingInv, ToEnqueue,
       ToFree, Unlinked, RoundRobinInv
  <2>3. \A x : /\ Awaited(x)' <=> Awaited(x)
               /\ Unlinked(x)' <=> Unlinked(x)
    BY <2>1 DEF Awaited, Unlinked
  <2>4. ASSUME NEW x \in Envs, Placed(x) PROVE Placed(x)'
    BY <2>1, <2>3, <2>4 DEF Placed
  <2>5. PlaceInv'
    BY <2>1, <2>3, <2>4, PlaceKept DEF IInv, PlaceInv
  <2> QED BY <2>2, <2>5 DEF IInv
<1> QED BY <1>1, <1>2, <1>3, <1>4, <1>5, <1>6, <1>7, <1>8 DEF Next

(* The invariant holds in every reachable state.                           *)
LEMMA Invariance == ASSUME Separate PROVE Spec => []IInv
<1>1. Init => IInv
  BY InitInv
<1>2. IInv /\ [Next]_vars => IInv'
  BY IInvStep
<1> QED BY <1>1, <1>2, PTL DEF Spec

(* The types of the variables are right: samawaiting_ticks passes the      *)
(* threshold by one at most.                                               *)
THEOREM TypeCorrect == Separate => (Spec => []TypeOK)
<1> SUFFICES ASSUME Separate PROVE Spec => []TypeOK
  OBVIOUS
<1>1. IInv => TypeOK
  BY DEF IInv
<1> QED BY <1>1, Invariance, PTL

\* The places of e in the ready queues.
ReadyPlaces(e) == {x \in UNION {{i} \X DOMAIN readyQ[i] : i \in Level} :
                     readyQ[x[1]][x[2]] = e}

Queued(e) == Occurs(newQ, e) \/ Occurs(exitQ, e) \/ Occurs(chanQ, e) \/ ~Unlinked(e)

(* One who is in a ready queue is in one, once.                            *)
LEMMA ReadyOnce ==
  ASSUME IInv, NEW e \in Envs
  PROVE  Cardinality(ReadyPlaces(e)) = IF Unlinked(e) THEN 0 ELSE 1
<1> USE DEF IInv
<1>1. ASSUME NEW x \in ReadyPlaces(e)
      PROVE  /\ x[1] \in Level /\ x[2] \in DOMAIN readyQ[x[1]] /\ x = <<x[1], x[2]>>
             /\ readyQ[x[1]][x[2]] = e
  <2>1. PICK i \in Level : x \in {i} \X DOMAIN readyQ[i]
    BY DEF ReadyPlaces
  <2>2. readyQ[x[1]][x[2]] = e
    BY DEF ReadyPlaces
  <2>3. x[1] = i /\ x[2] \in DOMAIN readyQ[i] /\ x = <<x[1], x[2]>>
    BY <2>1
  <2> QED BY <2>2, <2>3
<1>2. CASE Unlinked(e)
  <2>1. ReadyPlaces(e) = {}
    BY <1>1, <1>2 DEF Unlinked, Occurs
  <2> QED BY <1>2, <2>1, FS_EmptySet
<1>3. CASE ~Unlinked(e)
  <2>1. PICK i \in Level : \E j \in DOMAIN readyQ[i] : readyQ[i][j] = e
    BY <1>3 DEF Unlinked, Occurs
  <2>2. PICK j \in DOMAIN readyQ[i] : readyQ[i][j] = e
    BY <2>1
  <2>3. <<i, j>> \in ReadyPlaces(e)
    <3>1. <<i, j>> \in {i} \X DOMAIN readyQ[i]
      OBVIOUS
    <3>2. <<i, j>> \in UNION {{k} \X DOMAIN readyQ[k] : k \in Level}
      BY <3>1
    <3>3. <<i, j>>[1] = i /\ <<i, j>>[2] = j
      OBVIOUS
    <3> QED BY <2>2, <3>2, <3>3 DEF ReadyPlaces
  <2>4. ASSUME NEW x \in ReadyPlaces(e) PROVE x = <<i, j>>
    <3>1. /\ x[1] \in Level /\ x[2] \in DOMAIN readyQ[x[1]] /\ x = <<x[1], x[2]>>
          /\ readyQ[x[1]][x[2]] = e
      BY <1>1
    <3>2. x[1] = i
      BY <2>2, <3>1 DEF MatchInv, Occurs
    <3>3. x[2] = j
      BY <2>2, <3>1, <3>2 DEF DistinctInv, Distinct
    <3> QED BY <3>1, <3>2, <3>3
  <2>5. ReadyPlaces(e) = {<<i, j>>}
    BY <2>3, <2>4
  <2> QED BY <1>3, <2>5, FS_Singleton
<1> QED BY <1>2, <1>3

(* One who is queued is queued once.                                       *)
LEMMA QueuedOnce ==
  ASSUME IInv, NEW e \in Envs
  PROVE  Occurrences(e) = IF Queued(e) THEN 1 ELSE 0
<1> USE DEF IInv
<1> DEFINE One(b) == IF b THEN 1 ELSE 0
<1>1. /\ Cardinality(Places(newQ, e)) = One(Occurs(newQ, e))
      /\ Cardinality(Places(exitQ, e)) = One(Occurs(exitQ, e))
      /\ Cardinality(Places(chanQ, e)) = One(Occurs(chanQ, e))
  BY OnceInQueue DEF DistinctInv
<1>2. Cardinality(ReadyPlaces(e)) = One(~Unlinked(e))
  BY ReadyOnce
<1>3. Occurrences(e) = Cardinality(Places(newQ, e)) + Cardinality(Places(exitQ, e))
                         + Cardinality(Places(chanQ, e)) + Cardinality(ReadyPlaces(e))
  BY DEF Occurrences, Places, ReadyPlaces
<1>4. /\ Occurs(newQ, e) => status[e] = "NEW"
      /\ Occurs(exitQ, e) => status[e] = "EXIT"
      /\ Occurs(chanQ, e) => status[e] = "BLOCKED"
      /\ ~Unlinked(e) => status[e] = "READY"
  BY DEF MatchInv, Unlinked
<1> QED BY <1>1, <1>2, <1>3, <1>4 DEF Queued

(* Every queued environment is in the one queue that its status names,     *)
(* once, for any number of environments and levels, and whatever preempts  *)
(* the system calls between their steps, unless the same programs destroy  *)
(* environments and set priorities.                                        *)
THEOREM QueuesMatch == Separate => (Spec => []QueuesMatchStatus)
<1> SUFFICES ASSUME Separate PROVE Spec => []QueuesMatchStatus
  OBVIOUS
<1>1. IInv => QueuesMatchStatus
  <2> SUFFICES ASSUME IInv, NEW e \in Envs
               PROVE  /\ Occurrences(e) <= 1
                      /\ Contains(newQ, e) => status[e] = "NEW"
                      /\ Contains(exitQ, e) => status[e] = "EXIT"
                      /\ Contains(chanQ, e) <=> status[e] = "BLOCKED"
                      /\ ReadyIn(e) # {} => status[e] = "READY"
                      /\ cur = e => Occurrences(e) = 0
    BY DEF QueuesMatchStatus
  <2> USE DEF IInv
  <2>1. Occurrences(e) <= 1
    BY QueuedOnce
  <2>2. /\ Contains(newQ, e) <=> Occurs(newQ, e)
        /\ Contains(exitQ, e) <=> Occurs(exitQ, e)
        /\ Contains(chanQ, e) <=> Occurs(chanQ, e)
        /\ \A i \in Level : Contains(readyQ[i], e) <=> Occurs(readyQ[i], e)
    BY ContainsOccurs DEF TypeOK
  <2>3. cur = e => ~Queued(e)
    <3>1. cur = e => \/ status[e] \in {"RUNNING", "FREE"}
                     \/ status[e] = "READY" /\ Unlinked(e)
      BY SchedAssumption DEF TypeOK, CurInv
    <3> QED BY <3>1 DEF MatchInv, Queued, Unlinked
  <2> QED BY <2>1, <2>2, <2>3, QueuedOnce DEF MatchInv, ReadyIn
<1> QED BY <1>1, Invariance, PTL

----------------------------------------------------------------------------
(* Nobody is lost, and the best one runs.                                  *)

(* No environment is lost where programs do not destroy each other, before *)
(* ageing leaves the array of ready queues: a caller that is destroyed     *)
(* leaves behind whom it was about to enqueue.                             *)
THEOREM NobodyLost ==
  (\A m \in DOMAIN Workload : "kill" \notin Workload[m])
    => (Spec => []NoOrphan)
<1> SUFFICES ASSUME \A m \in DOMAIN Workload : "kill" \notin Workload[m]
             PROVE  Spec => []NoOrphan
  OBVIOUS
<1>1. Separate
  BY DEF Separate
<1>2. IInv => NoOrphan
  <2> SUFFICES ASSUME IInv, NoStray, NEW e \in Envs, status[e] # "FREE", cur # e,
                      ~\E p \in Envs : op[p].kind \in {"new", "free"} /\ op[p].env = e
               PROVE  Occurrences(e) = 1
    BY DEF NoOrphan
  <2>1. Placed(e)
    BY DEF IInv, TypeOK, PlaceInv, Calm
  <2>2. ~Awaited(e)
    BY DEF Awaited
  <2>3. status[e] \in Statuses
    BY DEF IInv, TypeOK, Statuses
  <2>4. status[e] = "BLOCKED" => Occurs(chanQ, e)
    BY DEF IInv, MatchInv
  <2>5. Queued(e)
    BY <2>1, <2>2, <2>3, <2>4 DEF Placed, Queued, Statuses
  <2> QED BY <2>5, QueuedOnce
<1> QED BY <1>1, <1>2, Invariance, PTL

(* Only the scheduler takes the CPU from itself to an environment.         *)
LEMMA OnlySchedRuns ==
  ASSUME [Next]_vars, ctl = "sched", ctl' = "env"
  PROVE  SchedRun
<1>1. ~Prompt
  BY DEF Prompt, command_load_env, command_run_program, command_kill_program, sched_run_all,
     sched_kill_all, AtPrompt
<1>2. ASSUME NEW p \in Envs PROVE ~Syscall(p)
  BY DEF Syscall, sys_create_env, sys_run_env, sys_destroy_env, env_set_priority,
     SetPriorityStale, sys_exit_env, Block, Idle, Running
<1>3. ASSUME NEW p \in Envs PROVE ~Finish(p)
  BY DEF Finish, sched_new_env, SetPriorityLocked, SetPriorityStore, sched_kill_env, KillFree,
     KillSelf, Running
<1>4. ~Wakeup /\ ~LeaveFreed /\ ~clock_interrupt_handler /\ ~SchedToPrompt
  BY DEF Wakeup, LeaveFreed, clock_interrupt_handler, SchedToPrompt
<1>5. ~UNCHANGED vars
  BY DEF vars
<1> QED BY <1>1, <1>2, <1>3, <1>4, <1>5 DEF Next, Scheduler

(* The environment that the scheduler runs has the best priority of those  *)
(* that wait where their priority says, for any number of environments and *)
(* levels: the search of the queues goes by the level, and the current     *)
(* environment is put back at the level of its priority first.             *)
THEOREM BestRuns == Separate => (Spec => RunsTheBest)
<1> SUFFICES ASSUME Separate PROVE Spec => RunsTheBest
  OBVIOUS
<1> DEFINE Best == ctl = "sched" /\ ctl' = "env" /\ ~Misplaced(cur') =>
       \A e \in Envs : (ReadyIn(e) # {} /\ ~Misplaced(e))' => priority[cur'] <= priority[e]
<1>1. IInv /\ IInv' /\ [Next]_vars => Best
  <2> SUFFICES ASSUME IInv, IInv', [Next]_vars, ctl = "sched", ctl' = "env", ~Misplaced(cur'),
                      NEW x \in Envs, (ReadyIn(x) # {} /\ ~Misplaced(x))'
               PROVE  priority[cur'] <= priority[x]
    OBVIOUS
  <2>1. SchedRun
    BY OnlySchedRuns
  <2> DEFINE i == Highest(NonEmpty)
             e == Head(Requeued[i])
  <2>2. /\ i \in Level /\ e \in Envs /\ cur' = e
        /\ \A j \in Level : Requeued[j] # <<>> => i <= j
        /\ Occurs(readyQ[i], e) \/ e = cur
        /\ e = cur => priority[e] = i
        /\ \A j \in Level, y \in Envs : Occurs(readyQ'[j], y)
             <=> y # e /\ (Occurs(readyQ[j], y) \/ (y = cur /\ priority[y] = j))
    BY <2>1, Chosen
  <2> HIDE DEF i, e
  <2>3. priority[e] = i
    <3>1. Occurs(readyQ[i], e) => i \in ReadyIn(e)
      BY <2>2, LinkedIn DEF IInv
    <3> QED BY <2>2, <3>1 DEF Misplaced
  <2>4. PICK k \in Level : Occurs(readyQ'[k], x) /\ priority'[x] = k
    <3>1. \A k \in Level : k \in ReadyIn(x)' <=> Occurs(readyQ'[k], x)
      <4>1. readyQ' \in [Level -> Seq(Envs)]
        BY DEF IInv, TypeOK
      <4>2. \A k \in Level : Contains(readyQ'[k], x) <=> Occurs(readyQ'[k], x)
        BY <4>1, ContainsOccurs
      <4> QED BY <4>2 DEF ReadyIn
    <3>2. ReadyIn(x)' \subseteq Level
      BY DEF ReadyIn
    <3> QED BY <3>1, <3>2 DEF Misplaced
  <2>5. priority' = priority
    BY <2>1 DEF SchedRun
  <2>6. Occurs(Requeued[k], x)
    BY <2>2, <2>4, RequeuedQueues
  <2>7. Requeued[k] # <<>>
    BY <2>6, OccursEmpty
  <2> QED BY <2>2, <2>3, <2>4, <2>5, <2>7
<1> HIDE DEF Best
<1>2. IInv /\ IInv' /\ [Next]_vars => [Best]_vars
  BY <1>1
<1>3. Spec => [][Best]_vars
  BY <1>2, Invariance, PTL DEF Spec
<1> QED BY <1>3 DEF RunsTheBest, Best

----------------------------------------------------------------------------
(* Who waits at another level than that of its priority.                   *)

\* In a step, e comes to level i only as its priority says, or was there and
\* keeps its priority.
KeepsLevel(e) ==
  \A i \in Level : Occurs(readyQ'[i], e) =>
     priority'[e] = i \/ (Occurs(readyQ[i], e) /\ priority'[e] = priority[e])

(* The steps that enqueue nobody and change the priority of nobody who is  *)
(* queued.                                                                 *)
LEMMA QuietSteps ==
  ASSUME IInv, NEW e \in Envs,
         \/ \E x \in Envs : \E prio \in Askable : command_load_env(x, prio)
         \/ \E x \in Envs : command_kill_program(x)
         \/ sched_kill_all
         \/ \E p \in Envs : \/ \E x \in Envs : \/ sys_create_env(p, x)
                                               \/ sys_destroy_env(p, x)
                                               \/ SetPriorityStale(p, x)
                                               \/ \E prio \in Askable :
                                                    env_set_priority(p, x, prio)
                            \/ sys_exit_env(p) \/ Block(p)
                            \/ sched_new_env(p) \/ sched_kill_env(p)
                            \/ KillFree(p) \/ KillSelf(p)
         \/ LeaveFreed \/ SchedToPrompt \/ UNCHANGED vars
  PROVE  KeepsLevel(e)
<1> USE DEF IInv
<1> DEFINE Same == readyQ' = readyQ /\ (~Unlinked(e) => priority'[e] = priority[e])
<1>0. Same => KeepsLevel(e)
  BY DEF KeepsLevel, Unlinked
<1> HIDE DEF Same
<1>1. ASSUME NEW x \in Envs, NEW prio \in Askable, command_load_env(x, prio) PROVE Same
  <2>1. Unlinked(x)
    BY <1>1 DEF MatchInv, Unlinked, command_load_env, Created
  <2> QED BY <1>1, <2>1 DEF Same, TypeOK, command_load_env
<1>2. ASSUME NEW x \in Envs, command_kill_program(x) PROVE Same
  <2>1. Occurs(newQ, x) \/ Occurs(exitQ, x)
    BY <1>2, ContainsOccurs DEF TypeOK, command_kill_program
  <2>2. Unlinked(x)
    BY <2>1 DEF MatchInv, Unlinked
  <2>3. readyQ' = readyQ /\ env_free({x})
    BY <1>2 DEF command_kill_program
  <2> QED BY <2>2, <2>3, FreeEffect DEF Same
<1>3. ASSUME sched_kill_all PROVE KeepsLevel(e)
  BY <1>3, OccursEmpty DEF KeepsLevel, sched_kill_all
<1>4. ASSUME NEW p \in Envs, NEW x \in Envs,
             \/ sys_create_env(p, x) \/ sys_destroy_env(p, x) \/ SetPriorityStale(p, x)
             \/ \E prio \in Askable : env_set_priority(p, x, prio)
      PROVE  Same
  BY <1>4 DEF Same, sys_create_env, sys_destroy_env, SetPriorityStale, env_set_priority,
     attrs, queues
<1>5. ASSUME NEW p \in Envs, sys_exit_env(p) \/ Block(p) \/ sched_new_env(p) PROVE Same
  BY <1>5 DEF Same, sys_exit_env, Block, sched_new_env
<1>6. ASSUME NEW p \in Envs, sched_kill_env(p) PROVE KeepsLevel(e)
  BY <1>6, OccursDrop DEF TypeOK, KeepsLevel, sched_kill_env
<1>7. ASSUME NEW p \in Envs, KillFree(p) PROVE Same
  <2>1. op[p].env \in Envs /\ Unlinked(op[p].env) /\ readyQ' = readyQ
        /\ env_free({op[p].env})
    BY <1>7 DEF PendingInv, ToFree, KillFree, queues
  <2> QED BY <2>1, FreeEffect DEF Same
<1>8. ASSUME NEW p \in Envs, KillSelf(p) PROVE Same
  <2>1. Unlinked(p) /\ readyQ' = readyQ /\ env_free({p})
    BY <1>8, RunningIsNowhere DEF KillSelf, queues
  <2> QED BY <2>1, FreeEffect DEF Same
<1>9. ASSUME LeaveFreed \/ SchedToPrompt \/ UNCHANGED vars PROVE Same
  BY <1>9 DEF Same, LeaveFreed, SchedToPrompt, vars, attrs, queues
<1> QED BY <1>0, <1>1, <1>2, <1>3, <1>4, <1>5, <1>6, <1>7, <1>8, <1>9

(* Whoever joins the ready queues joins the one of its priority.           *)
LEMMA JoinsLevel ==
  ASSUME IInv, NEW e \in Envs, NEW s \in Seq(Envs),
         readyQ' = sched_insert_ready(readyQ, s), priority' = priority
  PROVE  KeepsLevel(e)
<1> USE DEF IInv
<1> DEFINE S(i) == {x \in Envs : priority[x] = i}
<1>1. \A i \in Level : /\ readyQ'[i] = readyQ[i] \o Filter(s, S(i))
                       /\ readyQ[i] \in Seq(Envs)
                       /\ e \in S(i) => priority[e] = i
  BY DEF TypeOK, sched_insert_ready
<1> HIDE DEF S
<1>2. ASSUME NEW i \in Level, Occurs(readyQ'[i], e)
      PROVE  Occurs(readyQ[i], e) \/ priority[e] = i
  <2>1. Filter(s, S(i)) \in Seq(Envs) /\ (Occurs(Filter(s, S(i)), e) => e \in S(i))
    BY FilterType, FilterOccurs
  <2>2. Occurs(readyQ[i] \o Filter(s, S(i)), e)
    BY <1>1, <1>2
  <2>3. Occurs(readyQ[i], e) \/ Occurs(Filter(s, S(i)), e)
    BY <1>1, <2>1, <2>2, OccursConcat
  <2> QED BY <1>1, <2>1, <2>3
<1> QED BY <1>2 DEF KeepsLevel

(* Nobody's level and priority part but by a store that the lock does not  *)
(* protect.                                                                *)
LEMMA LevelStep ==
  ASSUME IInv, [Next]_vars, NEW e \in Envs,
         ~\E p \in Envs : op[p].kind = "setprio_store" /\ op[p].env = e
  PROVE  KeepsLevel(e)
<1> USE DEF IInv
<1>1. ASSUME NEW x \in Envs, NEW prio \in Askable, command_run_program(x, prio)
      PROVE  KeepsLevel(e)
  <2>1. prio \in Level /\ Unlinked(x)
    BY <1>1, AskedLevels DEF MatchInv, Unlinked, command_run_program, Created
  <2>2. readyQ' = [readyQ EXCEPT ![prio] = Append(@, x)]
        /\ priority' = [priority EXCEPT ![x] = prio]
    BY <1>1 DEF command_run_program
  <2>3. \A i \in Level : Occurs(readyQ'[i], e)
                          <=> Occurs(readyQ[i], e) \/ (i = prio /\ e = x)
    BY <2>1, <2>2, OccursAppend DEF TypeOK
  <2> QED BY <2>1, <2>2, <2>3 DEF TypeOK, KeepsLevel, Unlinked
<1>2. ASSUME sched_run_all PROVE KeepsLevel(e)
  BY <1>2, JoinsLevel DEF TypeOK, sched_run_all
<1>3. ASSUME NEW p \in Envs, NEW x \in Envs, sys_run_env(p, x) PROVE KeepsLevel(e)
  BY <1>3, JoinsLevel, OccursOne DEF sys_run_env
<1>4. ASSUME Wakeup PROVE KeepsLevel(e)
  <2>1. Head(chanQ) \in Envs
    BY <1>4, OccursTail DEF TypeOK, Wakeup
  <2> QED BY <1>4, <2>1, JoinsLevel, OccursOne DEF Wakeup
<1>5. ASSUME NEW p \in Envs, SetPriorityStore(p) PROVE KeepsLevel(e)
  BY <1>5 DEF TypeOK, KeepsLevel, SetPriorityStore, queues
<1>6. ASSUME NEW p \in Envs, SetPriorityLocked(p) PROVE KeepsLevel(e)
  <2> DEFINE x == op[p].env
             prio == op[p].prio
             r(i) == Drop(readyQ[i], x)
  <2>1. CASE status[x] # "READY"
    BY <1>6, <2>1 DEF KeepsLevel, SetPriorityLocked, sched_remove_ready
  <2>2. CASE status[x] = "READY"
    <3>1. /\ readyQ' = [[i \in Level |-> r(i)] EXCEPT ![prio] = Append(@, x)]
          /\ priority' = [priority EXCEPT ![x] = prio]
          /\ x \in Envs /\ prio \in Level
      BY <1>6, <2>2 DEF TypeOK, PendingInv, SetPriorityLocked, sched_remove_ready
    <3>2. \A i \in Level : r(i) \in Seq(Envs)
                           /\ (Occurs(r(i), e) <=> Occurs(readyQ[i], e) /\ e # x)
      BY OccursDrop DEF TypeOK
    <3> HIDE DEF r, x, prio
    <3>3. Occurs(Append(r(prio), x), e) <=> Occurs(r(prio), e) \/ e = x
      BY <3>1, <3>2, OccursAppend
    <3>4. \A i \in Level : readyQ'[i] = IF i = prio THEN Append(r(prio), x) ELSE r(i)
      BY <3>1
    <3>5. priority'[x] = prio /\ (e # x => priority'[e] = priority[e])
      BY <3>1 DEF TypeOK
    <3> QED BY <3>2, <3>3, <3>4, <3>5 DEF KeepsLevel
  <2> QED BY <2>1, <2>2
<1>7. ASSUME clock_interrupt_handler PROVE KeepsLevel(e)
  <2>1. \A j \in Level : readyQ'[j] = Aged(j)
    BY <1>7 DEF clock_interrupt_handler
  <2>2. priority'[e] = IF scheduler_method = "PRIRR" /\ ReadyIn(e) # {} /\ Starved(e)
                       THEN priority[e] - 1 ELSE priority[e]
    BY <1>7 DEF clock_interrupt_handler
  <2>3. \A j \in Level : Occurs(readyQ'[j], e)
             <=> \/ Occurs(readyQ[j], e) /\ ~Starved(e)
                 \/ ~Unlinked(e) /\ Starved(e) /\ priority[e] - 1 = j
    BY <2>1, AgedQueue
  <2> QED BY <2>2, <2>3, LinkedIn DEF KeepsLevel, Starved
<1>8. ASSUME SchedRun PROVE KeepsLevel(e)
  <2>1. \A j \in Level : Occurs(readyQ'[j], e) => Occurs(readyQ[j], e) \/ priority[e] = j
    BY <1>8, Chosen
  <2> QED BY <1>8, <2>1 DEF KeepsLevel, SchedRun
<1>9. CASE Prompt
  BY <1>1, <1>2, <1>9, QuietSteps DEF Prompt
<1>10. ASSUME NEW p \in Envs, Syscall(p) PROVE KeepsLevel(e)
  BY <1>3, <1>10, QuietSteps DEF Syscall
<1>11. ASSUME NEW p \in Envs, Finish(p) PROVE KeepsLevel(e)
  BY <1>5, <1>6, <1>11, QuietSteps DEF Finish
<1>12. CASE Scheduler \/ LeaveFreed \/ UNCHANGED vars
  BY <1>8, <1>12, QuietSteps DEF Scheduler
<1> QED BY <1>4, <1>7, <1>9, <1>10, <1>11, <1>12 DEF Next

(* An environment comes to wait at another level than that of its priority *)
(* only while a store to its priority is pending that env_set_priority     *)
(* makes without the lock, for any number of environments and levels:      *)
(* ageing, the locked section and the scheduler keep the two together.     *)
THEOREM LateStoresMisplace == Separate => (Spec => OnlyLateStoresMisplace)
<1> SUFFICES ASSUME Separate PROVE Spec => OnlyLateStoresMisplace
  OBVIOUS
<1> DEFINE Only == \A e \in Envs : ~Misplaced(e) /\ Misplaced(e)' =>
                     \E p \in Envs : op[p].kind = "setprio_store" /\ op[p].env = e
<1>1. IInv /\ IInv' /\ [Next]_vars => Only
  <2> SUFFICES ASSUME IInv, IInv', [Next]_vars, NEW e \in Envs, ~Misplaced(e), Misplaced(e)',
                      ~\E p \in Envs : op[p].kind = "setprio_store" /\ op[p].env = e
               PROVE  FALSE
    OBVIOUS
  <2>1. KeepsLevel(e)
    BY LevelStep
  <2>2. PICK i \in Level : Occurs(readyQ'[i], e) /\ priority'[e] # i
    <3>1. readyQ' \in [Level -> Seq(Envs)]
      BY DEF IInv, TypeOK
    <3>2. \A k \in Level : Contains(readyQ'[k], e) <=> Occurs(readyQ'[k], e)
      BY <3>1, ContainsOccurs
    <3> QED BY <3>2 DEF Misplaced, ReadyIn
  <2>3. Occurs(readyQ[i], e) /\ priority'[e] = priority[e]
    BY <2>1, <2>2 DEF KeepsLevel
  <2>4. i \in ReadyIn(e) /\ priority[e] # i
    BY <2>2, <2>3, LinkedIn DEF IInv
  <2> QED BY <2>4 DEF Misplaced
<1> HIDE DEF Only
<1>2. IInv /\ IInv' /\ [Next]_vars => [Only]_vars
  BY <1>1
<1>3. Spec => [][Only]_vars
  BY <1>2, Invariance, PTL DEF Spec
<1> QED BY <1>3 DEF OnlyLateStoresMisplace, Only

----------------------------------------------------------------------------
(* The ring of keys (Console), for any number of programs and any size.    *)

(* What is left of a number, and of the numbers close to it.               *)
LEMMA Remainder ==
  ASSUME NEW S \in Nat \ {0}, NEW a \in Nat
  PROVE  (a % S) \in 0..(S - 1) /\ \E q \in Nat : a = S * q + (a % S)
<1>1. (a % S) \in Int /\ 0 <= (a % S) /\ (a % S) < S
  OBVIOUS
<1>2. a \div S \in Int
  OBVIOUS
<1>3. a = S * (a \div S) + (a % S)
  OBVIOUS
<1> DEFINE q == a \div S
           r == (a % S)
<1>4. q \in Int /\ r \in Int /\ a = S * q + r /\ 0 <= r /\ r < S
  BY <1>1, <1>2, <1>3
<1> HIDE DEF q, r
<1>5. q >= 0
  <2> SUFFICES ASSUME q <= -1 PROVE FALSE
    BY <1>4
  <2>1. PICK d \in Nat : q = -1 - d
    <3>1. -1 - q \in Nat /\ q = -1 - (-1 - q)
      BY <1>4
    <3> QED BY <3>1
  <2>2. S * q = -S - S * d /\ S * d \in Nat
    BY <2>1
  <2> QED BY <1>4, <2>1, <2>2
<1>6. r \in 0..(S - 1) /\ \E k \in Nat : a = S * k + r
  BY <1>4, <1>5
<1> QED BY <1>6 DEF r

LEMMA RemainderIs ==
  ASSUME NEW S \in Nat \ {0}, NEW q \in Nat, NEW r \in 0..(S - 1)
  PROVE  S * q + r \in Nat /\ (S * q + r) % S = r
<1>1. S * q \in Nat /\ S * q + r \in Nat
  OBVIOUS
<1> DEFINE a == S * q + r
           t == (a % S)
<1>2. t \in 0..(S - 1) /\ \E d \in Nat : a = S * d + t
  <2> HIDE DEF a
  <2> QED BY <1>1, Remainder DEF a
<1> HIDE DEF t
<1>3. PICK d \in Nat : S * q + r = S * d + t
  BY <1>2
<1>4. CASE d < q
  <2>1. PICK e \in Nat : q = d + 1 + e
    <3>1. q - d - 1 \in Nat /\ q = d + 1 + (q - d - 1)
      BY <1>4
    <3> QED BY <3>1
  <2>2. S * q = S * d + S + S * e /\ S * e \in Nat /\ S * d \in Nat
    BY <2>1
  <2> QED BY <1>2, <1>3, <2>2
<1>5. CASE q < d
  <2>1. PICK e \in Nat : d = q + 1 + e
    <3>1. d - q - 1 \in Nat /\ d = q + 1 + (d - q - 1)
      BY <1>5
    <3> QED BY <3>1
  <2>2. S * d = S * q + S + S * e /\ S * e \in Nat /\ S * q \in Nat
    BY <2>1
  <2> QED BY <1>2, <1>3, <2>2
<1>6. CASE d = q
  BY <1>1, <1>2, <1>3, <1>6 DEF t
<1> QED BY <1>4, <1>5, <1>6

LEMMA NextRemainder ==
  ASSUME NEW S \in Nat \ {0}, NEW a \in Nat
  PROVE  (a + 1) % S = IF (a % S) + 1 = S THEN 0 ELSE (a % S) + 1
<1> DEFINE r == a % S
<1>1. r \in 0..(S - 1) /\ \E q \in Nat : a = S * q + r
  BY Remainder
<1> HIDE DEF r
<1>2. PICK q \in Nat : a = S * q + r
  BY <1>1
<1>3. CASE r + 1 = S
  <2>1. q + 1 \in Nat /\ S * (q + 1) = S * q + S /\ S * q \in Nat
    OBVIOUS
  <2>2. a + 1 = S * (q + 1) + 0 /\ 0 \in 0..(S - 1)
    BY <1>1, <1>2, <1>3, <2>1
  <2>3. (S * (q + 1) + 0) % S = 0
    BY <2>1, <2>2, RemainderIs
  <2> QED BY <1>3, <2>2, <2>3 DEF r
<1>4. CASE r + 1 # S
  <2>1. r + 1 \in 0..(S - 1) /\ a + 1 = S * q + (r + 1)
    BY <1>1, <1>2, <1>4
  <2>2. (S * q + (r + 1)) % S = r + 1
    BY <2>1, RemainderIs
  <2> QED BY <1>4, <2>1, <2>2 DEF r
<1> QED BY <1>3, <1>4

LEMMA RemainderPlus ==
  ASSUME NEW S \in Nat \ {0}, NEW a \in Nat, NEW b \in Nat
  PROVE  ((a % S) + b) % S = (a + b) % S
<1> DEFINE m == a % S
           c == m + b
           r == c % S
<1>1. m \in 0..(S - 1)
  BY Remainder
<1>2. PICK q \in Nat : a = S * q + m
  BY Remainder
<1> HIDE DEF m
<1>3. c \in Nat
  BY <1>1
<1> HIDE DEF c
<1>4. r \in 0..(S - 1)
  BY <1>3, Remainder
<1>5. PICK d \in Nat : c = S * d + r
  BY <1>3, Remainder
<1> HIDE DEF r
<1>6. q + d \in Nat /\ S * (q + d) = S * q + S * d /\ S * q \in Nat /\ S * d \in Nat
  OBVIOUS
<1>7. a + b = S * q + c
  BY <1>1, <1>2, <1>6 DEF c
<1>8. a + b = S * (q + d) + r
  BY <1>4, <1>5, <1>6, <1>7
<1>9. (S * (q + d) + r) % S = r
  BY <1>4, <1>6, RemainderIs
<1> QED BY <1>8, <1>9 DEF r, c, m

LEMMA RemaindersApart ==
  ASSUME NEW S \in Nat \ {0}, NEW a \in Nat, NEW b \in Nat, a < b, b - a < S
  PROVE  (a % S) # (b % S)
<1> SUFFICES ASSUME (a % S) = (b % S) PROVE FALSE
  OBVIOUS
<1> DEFINE r == a % S
<1>1. r \in 0..(S - 1)
  BY Remainder
<1>2. PICK q \in Nat : a = S * q + r
  BY Remainder
<1>3. PICK d \in Nat : b = S * d + r
  BY Remainder
<1> HIDE DEF r
<1>4. S * q \in Nat /\ S * d \in Nat /\ S * q < S * d /\ S * d < S * q + S
  BY <1>1, <1>2, <1>3
<1>5. CASE d <= q
  <2>1. PICK e \in Nat : q = d + e
    <3>1. q - d \in Nat /\ q = d + (q - d)
      BY <1>5
    <3> QED BY <3>1
  <2>2. S * q = S * d + S * e /\ S * e \in Nat
    BY <2>1
  <2> QED BY <1>4, <2>2
<1>6. CASE q < d
  <2>1. PICK e \in Nat : d = q + 1 + e
    <3>1. d - q - 1 \in Nat /\ d = q + 1 + (d - q - 1)
      BY <1>6
    <3> QED BY <3>1
  <2>2. S * d = S * q + S + S * e /\ S * e \in Nat
    BY <2>1
  <2> QED BY <1>4, <2>2
<1> QED BY <1>5, <1>6

----------------------------------------------------------------------------
(* The inductive invariant of the ring of keys.                            *)

\* Only one program at a time is between the test for an empty ring and the
\* end of cons_getc: all lock the console, or one reads alone.
OneReader ==
  \A s \in Scenes : s.locking = s.who \/ \E p \in Procs : s.who = {p}

RingTypeOK ==
  /\ scene \in Scenes
  /\ pressed \in Nat /\ stored \in Nat
  /\ cons \in [buf : [0..(CONSBUFSIZE - 1) -> Nat], rpos : Nat, wpos : Nat]
  /\ chan \in Seq(Procs) /\ masked \in Procs \cup {C!NoProc}
  /\ pc \in [Procs -> {"out", "check", "sleep", "asleep", "wait", "fetch", "wrap"}]
  /\ char \in [Procs -> Nat] /\ got \in Seq(Nat)

\* A program that locks the console reads with interrupts off; who sleeps on
\* the channel is there once.
TurnInv ==
  /\ masked # C!NoProc => masked \in scene.locking
  /\ \A p \in Procs : pc[p] # "out" =>
       /\ p \in scene.who
       /\ p \in scene.locking => masked = p /\ pc[p] = "check"
  /\ Distinct(chan) /\ \A p \in Procs : Occurs(chan, p) => pc[p] = "asleep"

\* The ring holds the keys that are stored and nobody has got.
StoredInv ==
  /\ Len(got) <= stored /\ stored <= pressed /\ pressed < Len(got) + CONSBUFSIZE
  /\ cons.wpos = stored % CONSBUFSIZE
  /\ \A k \in Len(got)..(stored - 1) : cons.buf[k % CONSBUFSIZE] = k + 1
  /\ \A k \in DOMAIN got : got[k] = k

\* The reader is at the next of them, or one further with that one in hand.
NextInv ==
  /\ (\A p \in Procs : pc[p] # "wrap") => cons.rpos = Len(got) % CONSBUFSIZE
  /\ \A p \in Procs : pc[p] \in {"fetch", "wrap"} => Len(got) < stored
  /\ \A p \in Procs : pc[p] = "wrap" => /\ cons.rpos = (Len(got) % CONSBUFSIZE) + 1
                                        /\ char[p] = Len(got) + 1

ConsInv == overran \/ (RingTypeOK /\ TurnInv /\ StoredInv /\ NextInv)

(* cons_intr (console.c): what the keyboard has goes into the ring behind  *)
(* what is there, and nothing that is there is lost.                       *)
LEMMA InterruptStores ==
  ASSUME CONSBUFSIZE \in Nat \ {0}, RingTypeOK, StoredInv
  PROVE  LET r == C!cons_intr(cons)
         IN  /\ r \in [buf : [0..(CONSBUFSIZE - 1) -> Nat], rpos : Nat, wpos : Nat]
             /\ r.rpos = cons.rpos /\ r.wpos = pressed % CONSBUFSIZE
             /\ \A k \in Len(got)..(pressed - 1) : r.buf[k % CONSBUFSIZE] = k + 1
<1> DEFINE S == CONSBUFSIZE
           new == pressed - stored
           Hits(i) == {k \in 1..new : (cons.wpos + k - 1) % S = i}
           Put(i) == IF Hits(i) = {} THEN cons.buf[i]
                     ELSE stored + CHOOSE k \in Hits(i) : \A h \in Hits(i) : h <= k
           r == C!cons_intr(cons)
<1>1. /\ new \in Nat /\ stored \in Nat /\ pressed \in Nat /\ S \in Nat \ {0} /\ Len(got) \in Nat
      /\ new < S /\ pressed = stored + new /\ Len(got) <= stored /\ pressed < Len(got) + S
      /\ cons.wpos = stored % S /\ cons.wpos \in 0..(S - 1)
  <2>1. stored \in Nat /\ pressed \in Nat /\ Len(got) \in Nat
    BY DEF RingTypeOK
  <2>2. /\ Len(got) <= stored /\ stored <= pressed /\ pressed < Len(got) + S
        /\ cons.wpos = stored % S
    BY DEF StoredInv
  <2>3. stored % S \in 0..(S - 1)
    BY <2>1, Remainder
  <2> QED BY <2>1, <2>2, <2>3
<1>2. /\ cons.buf \in [0..(S - 1) -> Nat] /\ cons.rpos \in Nat
      /\ cons = [buf |-> cons.buf, rpos |-> cons.rpos, wpos |-> cons.wpos]
  BY DEF RingTypeOK
<1>3. r = [buf |-> [i \in 0..(S - 1) |-> Put(i)], rpos |-> cons.rpos,
           wpos |-> (cons.wpos + new) % S]
  <2> DEFINE c == [buf |-> cons.buf, rpos |-> cons.rpos, wpos |-> cons.wpos]
  <2>1. C!cons_intr(c) = [c EXCEPT !.buf = [i \in DOMAIN c.buf |-> Put(i)],
                                   !.wpos = (@ + new) % S]
    BY DEF C!cons_intr
  <2>2. DOMAIN cons.buf = 0..(S - 1)
    BY <1>2
  <2> HIDE DEF Put, new
  <2>3. C!cons_intr(c) = [buf |-> [i \in 0..(S - 1) |-> Put(i)], rpos |-> cons.rpos,
                          wpos |-> (cons.wpos + new) % S]
    BY <2>1, <2>2
  <2> QED BY <1>2, <2>3
<1> HIDE DEF Put, new
<1>4. /\ new \in Nat /\ stored \in Nat /\ pressed = stored + new
      /\ Len(got) \in Nat /\ Len(got) <= stored
  BY <1>1
<1>5. ASSUME NEW k \in 1..new
      PROVE  (cons.wpos + k - 1) % S = (stored + k - 1) % S
  <2>1. k - 1 \in Nat /\ cons.wpos + k - 1 = (stored % S) + (k - 1)
                      /\ stored + k - 1 = stored + (k - 1)
    BY <1>1
  <2>2. ((stored % S) + (k - 1)) % S = (stored + (k - 1)) % S
    <3>1. k - 1 \in Nat
      BY <2>1
    <3> QED BY <1>4, <3>1, RemainderPlus
  <2> QED BY <2>1, <2>2
<1>6. ASSUME NEW k \in Nat, Len(got) <= k, k < pressed, NEW h \in Hits(k % S)
      PROVE  h \in 1..new /\ stored + h - 1 = k
  <2>1. h \in 1..new /\ (stored + h - 1) % S = k % S
    BY <1>5
  <2> DEFINE j == stored + h - 1
  <2>2. j \in Nat /\ j < pressed /\ Len(got) <= j
    <3>1. h \in 1..new
      BY <2>1
    <3> QED BY <1>4, <3>1
  <2>3. j % S = k % S
    BY <2>1
  <2> HIDE DEF j
  <2>4. j - k < S /\ k - j < S
    BY <1>1, <1>6, <2>2
  <2>5. ~(j < k) /\ ~(k < j)
    BY <1>1, <2>2, <2>3, <2>4, RemaindersApart
  <2>6. j = k
    BY <2>2, <2>5
  <2> QED BY <2>1, <2>6 DEF j
<1>7. ASSUME NEW k \in Len(got)..(pressed - 1)
      PROVE  k % S \in 0..(S - 1) /\ Put(k % S) = k + 1
  <2>1. k \in Nat /\ Len(got) <= k /\ k < pressed
    BY <1>1
  <2>2. k % S \in 0..(S - 1)
    BY <1>1, <2>1, Remainder
  <2>3. CASE k < stored
    <3>1. Hits(k % S) = {}
      <4> SUFFICES ASSUME NEW h \in Hits(k % S) PROVE FALSE
        OBVIOUS
      <4>1. h \in 1..new /\ stored + h - 1 = k
        BY <1>6, <2>1
      <4> QED BY <1>4, <2>3, <4>1
    <3>2. cons.buf[k % S] = k + 1
      BY <1>1, <2>1, <2>3 DEF StoredInv
    <3> QED BY <2>2, <3>1, <3>2 DEF Put
  <2>4. CASE k >= stored
    <3> DEFINE h == k - stored + 1
    <3>1. h \in 1..new /\ stored + h - 1 = k
      BY <1>1, <2>1, <2>4
    <3>2. h \in Hits(k % S)
      BY <1>5, <3>1
    <3>3. \A g \in Hits(k % S) : g = h
      BY <1>1, <1>6, <2>1, <3>1
    <3>4. Hits(k % S) = {h}
      BY <3>2, <3>3
    <3> HIDE DEF h
    <3>5. (CHOOSE g \in Hits(k % S) : \A f \in Hits(k % S) : f <= g) = h
      BY <3>1, <3>4
    <3>6. Put(k % S) = stored + h
      BY <3>2, <3>5 DEF Put
    <3>7. stored + h = k + 1
      BY <1>1, <2>1, <3>1
    <3> QED BY <2>2, <3>6, <3>7
  <2> QED BY <1>1, <2>1, <2>2, <2>3, <2>4
<1>8. ASSUME NEW i \in 0..(S - 1) PROVE Put(i) \in Nat
  <2>1. CASE Hits(i) = {}
    BY <1>2, <2>1 DEF Put
  <2>2. CASE Hits(i) # {}
    <3>1. PICK h \in Hits(i) : TRUE
      BY <2>2
    <3> DEFINE k == stored + h - 1
    <3>2. h \in 1..new /\ k % S = i
      BY <1>5, <3>1
    <3>3. k \in Len(got)..(pressed - 1)
      <4>1. h \in 1..new
        BY <3>2
      <4> QED BY <1>4, <4>1
    <3> HIDE DEF k
    <3>4. Put(k % S) = k + 1 /\ k \in Nat
      BY <1>4, <1>7, <3>3
    <3> QED BY <3>2, <3>4
  <2> QED BY <2>1, <2>2
<1> HIDE DEF r
<1>9. (cons.wpos + new) % S = pressed % S
  <2>1. ((stored % S) + new) % S = (stored + new) % S
    BY <1>4, RemainderPlus
  <2> QED BY <1>1, <1>4, <2>1
<1>10. \A k \in Len(got)..(pressed - 1) : r.buf[k % S] = k + 1
  BY <1>3, <1>7
<1>11. r \in [buf : [0..(S - 1) -> Nat], rpos : Nat, wpos : Nat]
  <2>1. pressed % S \in Nat
    BY <1>1, Remainder
  <2> QED BY <1>2, <1>3, <1>8, <1>9, <2>1
<1> QED BY <1>3, <1>9, <1>10, <1>11 DEF r

(* Who reads with interrupts on reads alone.                               *)
LEMMA ReadsAlone ==
  ASSUME OneReader, RingTypeOK, TurnInv, NEW p \in Procs, pc[p] # "out", masked # p
  PROVE  masked = C!NoProc /\ \A q \in Procs : q # p => pc[q] = "out"
<1>1. p \in scene.who /\ p \notin scene.locking
  BY DEF TurnInv
<1>2. scene.who = {p}
  BY <1>1 DEF OneReader, RingTypeOK
<1>3. scene.locking \subseteq {p}
  BY <1>2, RingAssumption DEF C!ConsoleAssumption, RingTypeOK
<1> QED BY <1>1, <1>2, <1>3 DEF TurnInv

(* The keyboard and its interrupt keep the keys in order.                  *)
LEMMA KeyboardSteps ==
  ASSUME OneReader, RingTypeOK, TurnInv, StoredInv, NextInv, ~overran',
         C!Press \/ C!keyboard_interrupt_handler
  PROVE  (RingTypeOK /\ TurnInv /\ StoredInv /\ NextInv)'
<1>1. CONSBUFSIZE \in Nat \ {0} /\ C!NoProc \notin Procs
  BY RingAssumption DEF C!ConsoleAssumption
<1>2. CASE C!Press
  <2>1. pressed' = pressed + 1 /\ pressed' < Len(got) + CONSBUFSIZE
    <3>1. pressed' = pressed + 1 /\ ~(pressed + 1 - Len(got) >= CONSBUFSIZE)
      BY <1>2, Zenon DEF C!Press
    <3> QED BY <1>1, <3>1 DEF RingTypeOK
  <2>2. UNCHANGED <<scene, method, cons, stored, KBDsem, chan, masked, pc, char, got>>
    BY <1>2 DEF C!Press
  <2>3. RingTypeOK' /\ TurnInv' /\ NextInv'
    BY <2>1, <2>2 DEF RingTypeOK, TurnInv, NextInv
  <2>4. StoredInv'
    BY <2>1, <2>2 DEF RingTypeOK, StoredInv
  <2> QED BY <2>3, <2>4
<1>3. CASE C!keyboard_interrupt_handler
  <2>1. /\ cons' = C!cons_intr(cons) /\ stored' = pressed /\ C!Announce
        /\ UNCHANGED <<scene, method, pressed, masked, char, got, overran>>
    BY <1>3 DEF C!keyboard_interrupt_handler
  <2>2. /\ cons' \in [buf : [0..(CONSBUFSIZE - 1) -> Nat], rpos : Nat, wpos : Nat]
        /\ cons'.rpos = cons.rpos /\ cons'.wpos = pressed % CONSBUFSIZE
        /\ \A k \in Len(got)..(pressed - 1) : cons'.buf[k % CONSBUFSIZE] = k + 1
    BY <1>1, <2>1, InterruptStores
  <2>3. \/ UNCHANGED <<chan, pc>>
        \/ /\ chan # <<>> /\ chan' = Tail(chan)
           /\ pc' = [pc EXCEPT ![Head(chan)] = "check"]
    BY <2>1 DEF C!Announce
  <2>4. /\ StoredInv' /\ stored <= stored'
    BY <2>1, <2>2 DEF RingTypeOK, StoredInv
  <2>5. CASE UNCHANGED <<chan, pc>>
    <3>1. RingTypeOK' /\ TurnInv'
      BY <2>1, <2>2, <2>5 DEF RingTypeOK, TurnInv
    <3>2. NextInv'
      BY <2>1, <2>2, <2>4, <2>5 DEF RingTypeOK, NextInv
    <3> QED BY <2>4, <3>1, <3>2
  <2>6. CASE /\ chan # <<>> /\ chan' = Tail(chan)
             /\ pc' = [pc EXCEPT ![Head(chan)] = "check"]
    <3> DEFINE h == Head(chan)
    <3>1. /\ chan' \in Seq(Procs) /\ h \in Procs /\ Occurs(chan, h) /\ Distinct(chan')
          /\ \A e : Occurs(chan', e) <=> Occurs(chan, e) /\ e # h
      BY <2>6, OccursTail DEF RingTypeOK, TurnInv
    <3> HIDE DEF h
    <3>2. pc[h] = "asleep" /\ pc' = [pc EXCEPT ![h] = "check"]
      BY <2>6, <3>1 DEF TurnInv, h
    <3>3. RingTypeOK'
      BY <2>1, <2>2, <3>1, <3>2 DEF RingTypeOK
    <3>4. TurnInv'
      BY <2>1, <3>1, <3>2 DEF RingTypeOK, TurnInv
    <3>5. NextInv'
      BY <2>1, <2>2, <2>4, <3>1, <3>2 DEF RingTypeOK, NextInv
    <3> QED BY <2>4, <3>3, <3>4, <3>5
  <2> QED BY <2>3, <2>5, <2>6
<1> QED BY <1>2, <1>3

(* One key more.                                                           *)
LEMMA NextKey ==
  ASSUME NEW s \in Seq(Nat), \A k \in DOMAIN s : s[k] = k
  PROVE  LET t == Append(s, Len(s) + 1)
         IN  t \in Seq(Nat) /\ Len(t) = Len(s) + 1 /\ \A k \in DOMAIN t : t[k] = k
<1> DEFINE t == Append(s, Len(s) + 1)
<1>1. /\ t \in Seq(Nat) /\ Len(s) \in Nat /\ Len(t) = Len(s) + 1
      /\ DOMAIN t = 1..(Len(s) + 1) /\ DOMAIN s = 1..Len(s)
  OBVIOUS
<1>2. \A k \in 1..(Len(s) + 1) : t[k] = k
  BY <1>1
<1> QED BY <1>1, <1>2

(* What a program does in sys_cgetc, and the console lock around it.       *)
LEMMA ReaderSteps ==
  ASSUME OneReader, RingTypeOK, TurnInv, StoredInv, NextInv, NEW p \in Procs,
         C!cons_lock(p) \/ C!cons_unlock(p) \/ C!Call(p) \/ C!sys_cgetc(p)
  PROVE  (RingTypeOK /\ TurnInv /\ StoredInv /\ NextInv)'
<1> DEFINE S == CONSBUFSIZE
           n == Len(got)
<1>2. /\ S \in Nat \ {0} /\ C!NoProc \notin Procs
      /\ scene.locking \subseteq scene.who /\ scene.who \subseteq Procs
  BY RingAssumption DEF C!ConsoleAssumption, RingTypeOK
<1>3. /\ n \in Nat /\ stored \in Nat /\ pressed \in Nat
      /\ n % S \in 0..(S - 1) /\ stored % S \in 0..(S - 1)
  <2>1. n \in Nat /\ stored \in Nat /\ pressed \in Nat
    BY DEF RingTypeOK
  <2> QED BY <1>2, <2>1, Remainder
<1>4. CASE C!cons_lock(p) \/ C!cons_unlock(p)
  <2>1. /\ UNCHANGED <<scene, method, pressed, cons, stored, KBDsem, chan, pc, char, got>>
        /\ pc[p] = "out"
    BY <1>4 DEF C!cons_lock, C!cons_unlock
  <2>2. /\ masked' \in {p, C!NoProc} /\ (masked' = p => p \in scene.locking)
        /\ masked \in {p, C!NoProc}
    BY <1>2, <1>4 DEF C!cons_lock, C!cons_unlock
  <2>3. RingTypeOK' /\ StoredInv' /\ NextInv'
    BY <2>1, <2>2 DEF RingTypeOK, StoredInv, NextInv
  <2>4. TurnInv'
    BY <1>2, <2>1, <2>2 DEF TurnInv
  <2> QED BY <2>3, <2>4
<1>5. CASE C!Call(p)
  <2>1. /\ UNCHANGED <<scene, method, pressed, cons, stored, KBDsem, chan, masked, char, got>>
        /\ pc[p] = "out" /\ pc' = [pc EXCEPT ![p] = "check"]
        /\ p \in scene.who /\ (p \in scene.locking => masked = p)
    BY <1>5 DEF C!Call, C!Goes, C!Free
  <2>2. RingTypeOK' /\ StoredInv'
    BY <2>1 DEF RingTypeOK, StoredInv
  <2>3. TurnInv'
    BY <2>1 DEF RingTypeOK, TurnInv
  <2>4. NextInv'
    BY <2>1 DEF RingTypeOK, NextInv
  <2> QED BY <2>2, <2>3, <2>4
<1>6. CASE C!Poll(p)
  <2> DEFINE r == C!cons_intr(cons)
  <2>1. /\ masked = p /\ pc[p] = "check" /\ stored' = pressed
        /\ UNCHANGED <<scene, method, pressed, KBDsem, chan, masked, char, overran>>
        /\ \/ /\ r.rpos # r.wpos /\ cons' = [r EXCEPT !.rpos = (@ + 1) % S]
              /\ got' = Append(got, r.buf[r.rpos]) /\ pc' = [pc EXCEPT ![p] = "out"]
           \/ r.rpos = r.wpos /\ cons' = r /\ UNCHANGED <<got, pc>>
    BY <1>6 DEF C!Poll, C!Goes, C!Pending, C!Fetched
  <2>2. /\ r \in [buf : [0..(S - 1) -> Nat], rpos : Nat, wpos : Nat]
        /\ r.rpos = cons.rpos /\ r.wpos = pressed % S
        /\ \A k \in n..(pressed - 1) : r.buf[k % S] = k + 1
    BY <1>2, InterruptStores
  <2> HIDE DEF r
  <2>3. \A q \in Procs : pc[q] \in {"out", "check"}
    BY <1>2, <2>1, ReadsAlone DEF TurnInv
  <2>4. r.rpos = n % S
    BY <2>2, <2>3 DEF NextInv
  <2>5. CASE r.rpos = r.wpos /\ cons' = r /\ UNCHANGED <<got, pc>>
    <3>1. RingTypeOK' /\ TurnInv'
      BY <2>1, <2>2, <2>5 DEF RingTypeOK, TurnInv
    <3>2. StoredInv'
      BY <1>3, <2>1, <2>2, <2>5 DEF StoredInv
    <3>3. NextInv'
      BY <2>1, <2>2, <2>3, <2>4, <2>5 DEF NextInv
    <3> QED BY <3>1, <3>2, <3>3
  <2>6. CASE /\ r.rpos # r.wpos /\ cons' = [r EXCEPT !.rpos = (@ + 1) % S]
             /\ got' = Append(got, r.buf[r.rpos]) /\ pc' = [pc EXCEPT ![p] = "out"]
    <3>1. n < pressed /\ pressed < n + S
      BY <1>3, <2>2, <2>4, <2>6 DEF StoredInv
    <3>2. r.buf[r.rpos] = n + 1
      BY <1>3, <2>2, <2>4, <3>1
    <3>3. /\ got' \in Seq(Nat) /\ Len(got') = n + 1
          /\ \A k \in DOMAIN got' : got'[k] = k
      <4>1. got' = Append(got, n + 1) /\ got \in Seq(Nat) /\ \A k \in DOMAIN got : got[k] = k
        BY <2>6, <3>2 DEF RingTypeOK, StoredInv
      <4> QED BY <4>1, NextKey
    <3>4. ((n % S) + 1) % S = (n + 1) % S /\ (n + 1) % S \in Nat
      <4>1. n + 1 \in Nat /\ 1 \in Nat
        BY <1>3
      <4>2. (n + 1) % S \in 0..(S - 1)
        BY <1>2, <4>1, Remainder
      <4>3. ((n % S) + 1) % S = (n + 1) % S
        BY <1>2, <1>3, RemainderPlus
      <4> QED BY <1>2, <4>2, <4>3
    <3>5. /\ cons' \in [buf : [0..(S - 1) -> Nat], rpos : Nat, wpos : Nat]
          /\ cons'.buf = r.buf /\ cons'.wpos = r.wpos /\ cons'.rpos = (n + 1) % S
      BY <2>2, <2>4, <2>6, <3>4
    <3>6. RingTypeOK'
      BY <2>1, <2>6, <3>3, <3>5 DEF RingTypeOK
    <3>7. TurnInv'
      BY <2>1, <2>6 DEF RingTypeOK, TurnInv
    <3>8. StoredInv'
      <4>1. \A k \in (n + 1)..(pressed - 1) : cons'.buf[k % S] = k + 1
        <5>1. \A k \in (n + 1)..(pressed - 1) : k \in n..(pressed - 1)
          BY <1>3
        <5> QED BY <2>2, <3>5, <5>1
      <4>2. stored' = pressed /\ pressed' = pressed /\ cons'.wpos = pressed % S
        BY <2>1, <2>2, <3>5
      <4>3. n + 1 <= pressed /\ pressed < n + 1 + S
        BY <1>2, <1>3, <3>1
      <4> HIDE DEF n
      <4> QED BY <1>3, <3>3, <4>1, <4>2, <4>3 DEF StoredInv
    <3>9. NextInv'
      <4>1. \A q \in Procs : pc'[q] \in {"out", "check"}
        BY <2>3, <2>6 DEF RingTypeOK
      <4> QED BY <3>3, <3>5, <4>1 DEF NextInv
    <3> QED BY <3>6, <3>7, <3>8, <3>9
  <2> QED BY <2>1, <2>5, <2>6
<1>7. CASE \/ C!Check(p) \/ C!SleepOnChannel(p) \/ C!WaitSemaphore(p)
           \/ C!Fetch(p) \/ C!Wrap(p)
  <2>1. /\ masked = C!NoProc /\ pc[p] # "out"
        /\ UNCHANGED <<scene, method, pressed, stored, masked, overran>>
    BY <1>7 DEF C!Check, C!SleepOnChannel, C!WaitSemaphore, C!Fetch, C!Wrap
  <2>2. /\ p \in scene.who /\ p \notin scene.locking
        /\ \A q \in Procs : q # p => pc[q] = "out"
    BY <1>2, <2>1, ReadsAlone DEF TurnInv
  <2>3. CASE C!Check(p)
    <3>1. /\ UNCHANGED <<cons, chan, char, got>> /\ pc[p] = "check"
          /\ \E l \in {"fetch", "sleep", "wait", "check"} :
                /\ pc' = [pc EXCEPT ![p] = l]
                /\ l = "fetch" => cons.rpos # cons.wpos
      BY <2>3 DEF C!Check, C!Goes, C!Pending
    <3>2. PICK l \in {"fetch", "sleep", "wait", "check"} :
                /\ pc' = [pc EXCEPT ![p] = l]
                /\ l = "fetch" => cons.rpos # cons.wpos
      BY <3>1
    <3>3. RingTypeOK' /\ StoredInv'
      BY <2>1, <3>1, <3>2 DEF RingTypeOK, StoredInv
    <3>4. TurnInv'
      BY <2>1, <2>2, <3>1, <3>2 DEF RingTypeOK, TurnInv
    <3>5. cons.rpos = n % S
      BY <2>2, <3>1 DEF NextInv
    <3>6. l = "fetch" => n < stored
      BY <1>3, <3>2, <3>5 DEF StoredInv
    <3>7. NextInv'
      BY <2>1, <2>2, <3>1, <3>2, <3>5, <3>6 DEF RingTypeOK, NextInv
    <3> QED BY <3>3, <3>4, <3>7
  <2>4. CASE C!SleepOnChannel(p)
    <3>1. /\ UNCHANGED <<cons, char, got>> /\ pc[p] = "sleep"
          /\ chan' = Append(chan, p) /\ pc' = [pc EXCEPT ![p] = "asleep"]
      BY <2>4 DEF C!SleepOnChannel, C!Goes
    <3>2. ~Occurs(chan, p)
      BY <3>1 DEF TurnInv
    <3>3. /\ chan' \in Seq(Procs) /\ Distinct(chan')
          /\ \A e : Occurs(chan', e) <=> Occurs(chan, e) \/ e = p
      BY <3>1, <3>2, OccursAppend DEF RingTypeOK, TurnInv
    <3>4. RingTypeOK' /\ StoredInv'
      BY <2>1, <3>1, <3>3 DEF RingTypeOK, StoredInv
    <3>5. TurnInv'
      BY <2>1, <2>2, <3>1, <3>3 DEF RingTypeOK, TurnInv
    <3>6. NextInv'
      BY <2>1, <2>2, <3>1 DEF RingTypeOK, NextInv
    <3> QED BY <3>4, <3>5, <3>6
  <2>5. CASE C!WaitSemaphore(p)
    <3>1. /\ UNCHANGED <<cons, chan, char, got>> /\ pc[p] = "wait"
          /\ pc' = [pc EXCEPT ![p] = "check"]
      BY <2>5 DEF C!WaitSemaphore, C!Goes
    <3>2. RingTypeOK' /\ StoredInv'
      BY <2>1, <3>1 DEF RingTypeOK, StoredInv
    <3>3. TurnInv'
      BY <2>1, <2>2, <3>1 DEF RingTypeOK, TurnInv
    <3>4. NextInv'
      BY <2>1, <2>2, <3>1 DEF RingTypeOK, NextInv
    <3> QED BY <3>2, <3>3, <3>4
  <2>6. CASE C!Fetch(p)
    <3>1. /\ UNCHANGED <<chan, got>> /\ pc[p] = "fetch"
          /\ char' = [char EXCEPT ![p] = cons.buf[cons.rpos]]
          /\ cons' = [cons EXCEPT !.rpos = @ + 1]
          /\ pc' = [pc EXCEPT ![p] = "wrap"]
      BY <2>6 DEF C!Fetch, C!Goes
    <3>2. n < stored /\ cons.rpos = n % S
      BY <2>2, <3>1 DEF NextInv
    <3>3. cons.buf[cons.rpos] = n + 1
      BY <1>3, <3>2 DEF StoredInv
    <3>4. /\ cons' \in [buf : [0..(S - 1) -> Nat], rpos : Nat, wpos : Nat]
          /\ cons'.buf = cons.buf /\ cons'.wpos = cons.wpos
          /\ cons'.rpos = (n % S) + 1
      <4>1. (n % S) + 1 \in Nat
        BY <1>3
      <4> QED BY <3>1, <3>2, <4>1 DEF RingTypeOK
    <3>5. RingTypeOK'
      <4>1. char' = [char EXCEPT ![p] = n + 1] /\ n + 1 \in Nat
        BY <1>3, <3>1, <3>3
      <4> HIDE DEF n
      <4>2. char' \in [Procs -> Nat]
        BY <4>1 DEF RingTypeOK
      <4> QED BY <2>1, <3>1, <3>4, <4>2 DEF RingTypeOK
    <3>6. TurnInv'
      BY <2>1, <2>2, <3>1 DEF RingTypeOK, TurnInv
    <3>7. StoredInv'
      BY <2>1, <3>1, <3>4 DEF StoredInv
    <3>8. NextInv'
      BY <2>1, <2>2, <3>1, <3>2, <3>3, <3>4 DEF RingTypeOK, NextInv
    <3> QED BY <3>5, <3>6, <3>7, <3>8
  <2>7. CASE C!Wrap(p)
    <3>1. /\ UNCHANGED <<chan, char>> /\ pc[p] = "wrap"
          /\ cons' = IF cons.rpos = S THEN [cons EXCEPT !.rpos = 0] ELSE cons
          /\ got' = Append(got, char[p]) /\ pc' = [pc EXCEPT ![p] = "out"]
      BY <2>7 DEF C!Wrap, C!Goes
    <3>2. n < stored /\ cons.rpos = (n % S) + 1 /\ char[p] = n + 1
      BY <3>1 DEF NextInv
    <3>3. /\ got' \in Seq(Nat) /\ Len(got') = n + 1
          /\ \A k \in DOMAIN got' : got'[k] = k
      <4>1. got' = Append(got, n + 1) /\ got \in Seq(Nat) /\ \A k \in DOMAIN got : got[k] = k
        BY <3>1, <3>2 DEF RingTypeOK, StoredInv
      <4> QED BY <4>1, NextKey
    <3>4. (n + 1) % S = IF (n % S) + 1 = S THEN 0 ELSE (n % S) + 1
      BY <1>2, <1>3, NextRemainder
    <3>5. /\ cons' \in [buf : [0..(S - 1) -> Nat], rpos : Nat, wpos : Nat]
          /\ cons'.buf = cons.buf /\ cons'.wpos = cons.wpos
          /\ cons'.rpos = (n + 1) % S
      BY <3>1, <3>2, <3>4 DEF RingTypeOK
    <3>6. RingTypeOK'
      BY <2>1, <3>1, <3>3, <3>5 DEF RingTypeOK
    <3>7. TurnInv'
      BY <2>1, <2>2, <3>1 DEF RingTypeOK, TurnInv
    <3>8. StoredInv'
      <4>1. \A k \in (n + 1)..(stored - 1) : cons'.buf[k % S] = k + 1
        <5>1. \A k \in (n + 1)..(stored - 1) : k \in n..(stored - 1)
          BY <1>3
        <5> QED BY <3>5, <5>1 DEF StoredInv
      <4>2. stored' = stored /\ pressed' = pressed /\ cons'.wpos = stored % S
        BY <2>1, <3>5 DEF StoredInv
      <4>3. n + 1 <= stored /\ stored <= pressed /\ pressed < n + 1 + S
        BY <1>2, <1>3, <3>2 DEF StoredInv
      <4> HIDE DEF n
      <4> QED BY <1>3, <3>3, <4>1, <4>2, <4>3 DEF StoredInv
    <3>9. NextInv'
      <4>1. \A q \in Procs : pc'[q] = "out"
        BY <2>2, <3>1 DEF RingTypeOK
      <4> QED BY <3>3, <3>5, <4>1 DEF NextInv
    <3> QED BY <3>6, <3>7, <3>8, <3>9
  <2> QED BY <1>7, <2>3, <2>4, <2>5, <2>6, <2>7
<1> QED BY <1>4, <1>5, <1>6, <1>7 DEF C!sys_cgetc

LEMMA ConsInitially == ASSUME C!Init PROVE ConsInv
<1>1. CONSBUFSIZE \in Nat \ {0} /\ C!NoProc \notin Procs
  BY RingAssumption DEF C!ConsoleAssumption
<1>2. /\ pressed = 0 /\ stored = 0 /\ got = <<>> /\ chan = <<>> /\ masked = C!NoProc
      /\ cons = [buf |-> [i \in 0..(CONSBUFSIZE - 1) |-> 0], rpos |-> 0, wpos |-> 0]
      /\ pc = [p \in Procs |-> "out"] /\ char = [p \in Procs |-> 0] /\ scene \in Scenes
  BY DEF C!Init
<1>3. Len(got) = 0 /\ DOMAIN got = {} /\ got \in Seq(Nat)
  BY <1>2
<1>4. 0 % CONSBUFSIZE = 0
  BY <1>1, Remainder
<1>5. RingTypeOK
  BY <1>1, <1>2, <1>3, OccursEmpty DEF RingTypeOK
<1>6. TurnInv
  BY <1>2, OccursEmpty DEF TurnInv
<1>7. StoredInv
  BY <1>1, <1>2, <1>3, <1>4 DEF StoredInv
<1>8. NextInv
  BY <1>2, <1>3, <1>4 DEF NextInv
<1> QED BY <1>5, <1>6, <1>7, <1>8 DEF ConsInv

LEMMA ConsStep == ASSUME OneReader, ConsInv, [C!Next]_C!vars PROVE ConsInv'
<1>1. CASE overran
  <2>1. overran'
    BY <1>1 DEF C!Next, C!vars, C!Press, C!keyboard_interrupt_handler, C!cons_lock,
      C!cons_unlock, C!Call, C!sys_cgetc, C!Poll, C!Check, C!SleepOnChannel,
      C!WaitSemaphore, C!Fetch, C!Wrap
  <2> QED BY <2>1 DEF ConsInv
<1>2. CASE ~overran
  <2>1. RingTypeOK /\ TurnInv /\ StoredInv /\ NextInv
    BY <1>2 DEF ConsInv
  <2>2. SUFFICES ASSUME ~overran' PROVE (RingTypeOK /\ TurnInv /\ StoredInv /\ NextInv)'
    BY DEF ConsInv
  <2>3. CASE C!Press \/ C!keyboard_interrupt_handler
    BY <2>1, <2>2, <2>3, KeyboardSteps
  <2>4. ASSUME NEW p \in Procs,
               C!cons_lock(p) \/ C!cons_unlock(p) \/ C!Call(p) \/ C!sys_cgetc(p)
        PROVE  (RingTypeOK /\ TurnInv /\ StoredInv /\ NextInv)'
    BY <2>1, <2>4, ReaderSteps
  <2>5. CASE UNCHANGED C!vars
    BY <2>1, <2>5 DEF C!vars, RingTypeOK, TurnInv, StoredInv, NextInv
  <2> QED BY <2>3, <2>4, <2>5 DEF C!Next
<1> QED BY <1>1, <1>2

(* Keys reach the programs once each and in the order in which they were   *)
(* pressed (console.c, cons_getc: "return the next input character from    *)
(* the console buffer"), wherever the keyboard interrupt falls in          *)
(* cons_getc2, whatever the size of the ring and the way to wait for a key:*)
(* provided that the programs that read all lock the console, or one reads *)
(* alone, and until somebody types a whole ring ahead.                     *)
THEOREM ReadersGetKeysInOrder == OneReader => (C!Spec => []KeysInOrder)
<1>1. C!Init => ConsInv
  BY ConsInitially
<1>2. OneReader /\ ConsInv /\ [C!Next]_C!vars => ConsInv'
  BY ConsStep
<1>3. ConsInv => KeysInOrder
  BY DEF ConsInv, StoredInv, KeysInOrder, C!KeysInOrder
<1> QED
  <2> SUFFICES ASSUME OneReader PROVE C!Spec => []KeysInOrder
    OBVIOUS
  <2>1. ConsInv /\ [C!Next]_C!vars => ConsInv'
    BY <1>2
  <2> QED BY <1>1, <1>3, <2>1, PTL DEF C!Spec

----------------------------------------------------------------------------
(* The history of the prompt (Readline), of any size.                      *)

HistoryInv ==
  /\ editor \in {"prompt", "program"} /\ (editor = "program" => last_command_idx = -1)
  /\ last_command_idx \in -1..HISTORY_MAX
  /\ command_history = [k \in 0..HISTORY_MAX |-> command_history[k]]
  /\ last_command_idx >= 0 => command_history[last_command_idx] = ran.line

LEMMA HistoryStep == ASSUME HistoryInv, [L!Next]_L!vars PROVE HistoryInv'
<1>1. HISTORY_MAX \in Nat
  BY LineAssumption DEF L!ReadlineAssumption
<1>2. CASE L!Enter
  <2> DEFINE s == L!Str(L!Ended(buf))
  <2>1. ran'.line = s /\ UNCHANGED editor
    BY <1>2 DEF L!Enter
  <2>2. IF editor = "prompt" THEN L!Remember(s)
        ELSE UNCHANGED <<last_command_idx, command_history>>
    BY <1>2 DEF L!Enter
  <2> HIDE DEF s
  <2>3. CASE UNCHANGED <<last_command_idx, command_history>> /\ last_command_idx = -1
    BY <1>1, <2>1, <2>3 DEF HistoryInv
  <2>4. CASE L!Remember(s) /\ editor # "program"
    <3>1. CASE /\ last_command_idx = HISTORY_MAX
               /\ command_history' = [k \in DOMAIN command_history |->
                                        IF k = HISTORY_MAX THEN s
                                        ELSE command_history[k + 1]]
               /\ UNCHANGED last_command_idx
      BY <1>1, <2>1, <2>4, <3>1 DEF HistoryInv
    <3>2. CASE /\ last_command_idx < HISTORY_MAX
               /\ last_command_idx' = last_command_idx + 1
               /\ command_history' = [command_history EXCEPT ![last_command_idx + 1] = s]
      <4>1. DOMAIN command_history = 0..HISTORY_MAX /\ last_command_idx + 1 \in 0..HISTORY_MAX
        BY <1>1, <3>2 DEF HistoryInv
      <4>2. /\ command_history' = [k \in 0..HISTORY_MAX |->
                                     IF k = last_command_idx + 1 THEN s ELSE command_history[k]]
            /\ command_history'[last_command_idx'] = s
        BY <3>2, <4>1
      <4> QED BY <1>1, <2>1, <2>4, <3>2, <4>1, <4>2 DEF HistoryInv
    <3>3. CASE /\ last_command_idx >= 0 => command_history[last_command_idx] = s
               /\ UNCHANGED <<last_command_idx, command_history>>
      BY <1>1, <2>1, <2>4, <3>3 DEF HistoryInv
    <3> QED BY <2>4, <3>1, <3>2, <3>3 DEF L!Remember
  <2> QED BY <2>2, <2>3, <2>4 DEF HistoryInv
<1>3. CASE L!Next /\ ~L!Enter
  <2>1. UNCHANGED <<editor, last_command_idx, command_history, ran>>
    BY <1>3 DEF L!Next, L!Type, L!Backspace, L!LeftArrow, L!RightArrow, L!KEY_DEL,
      L!UpArrow, L!DownArrow, L!Recall, L!FirstTab, L!NextTab, L!ArrowAsCharacter, L!history
  <2> QED BY <2>1 DEF HistoryInv
<1>4. CASE UNCHANGED L!vars
  BY <1>4 DEF L!vars, L!history, HistoryInv
<1> QED BY <1>2, <1>3, <1>4

(* The newest entry of the history is the line entered last, also after    *)
(* the history has filled up and moved (command_readline.c, the end of     *)
(* readline), whatever its size.                                           *)
THEOREM HistoryRecallsTheLatest == L!Spec => []RecallsTheLatest
<1>1. L!Init => HistoryInv
  BY LineAssumption DEF L!Init, HistoryInv, L!ReadlineAssumption
<1>2. HistoryInv /\ [L!Next]_L!vars => HistoryInv'
  BY HistoryStep
<1>3. HistoryInv => RecallsTheLatest
  BY DEF HistoryInv, RecallsTheLatest, L!RecallsTheLatest
<1> QED BY <1>1, <1>2, <1>3, PTL DEF L!Spec
=============================================================================
