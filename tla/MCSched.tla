------------------------------ MODULE MCSched ------------------------------
(* Sched for TLC: environments are interchangeable.  For each question, the *)
(* schedulers and system calls that take part in it.                        *)
EXTENDS Sched, TLC

Symmetry == Permutations(Envs)

MCSafety == [m \in {"PRIRR"} |-> {"create", "setprio"}]
MCFair == [m \in {"RR", "PRIRR"} |->
             IF m = "RR" THEN {"create", "kill", "block"} ELSE {"create", "setprio_stale"}]
MCAssert == [m \in {"PRIRR"} |-> {"setprio"}]
============================================================================
