----------------------------- MODULE Exclusion -----------------------------
(***************************************************************************)
(* What the kernel's blocking primitives promise their callers: at most K  *)
(* environments are inside at a time, whoever asks waits, and as long as   *)
(* somebody waits and there is room somebody is let in.  A sleep lock      *)
(* promises this with K = 1, a semaphore initialised to K with that K.     *)
(***************************************************************************)
EXTENDS Naturals, FiniteSets

CONSTANTS Envs,  \* the callers
          K      \* how many may be inside

VARIABLE phase   \* [Envs -> {"out", "waiting", "in"}]

Inside == {p \in Envs : phase[p] = "in"}

Init == phase = [p \in Envs |-> "out"]

Request(p) == /\ phase[p] = "out"
              /\ phase' = [phase EXCEPT ![p] = "waiting"]

Enter(p) == /\ phase[p] = "waiting"
            /\ Cardinality(Inside) < K
            /\ phase' = [phase EXCEPT ![p] = "in"]

Leave(p) == /\ phase[p] = "in"
            /\ phase' = [phase EXCEPT ![p] = "out"]

Next == \E p \in Envs : Request(p) \/ Enter(p) \/ Leave(p)

Spec == Init /\ [][Next]_phase

\* Somebody is let in: the promise of a lock that can be overtaken.
FairSpec == /\ Spec
            /\ WF_phase(\E p \in Envs : Enter(p))
            /\ \A p \in Envs : WF_phase(Leave(p))

\* Everybody is let in: the promise of a lock that is handed over.
StarvationFreeSpec == /\ Spec
                      /\ \A p \in Envs : SF_phase(Enter(p)) /\ WF_phase(Leave(p))
============================================================================
