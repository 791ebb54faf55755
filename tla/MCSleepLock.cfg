SPECIFICATION FairSpec
CONSTANTS
  Envs = {e1, e2, e3}
  NoEnv = NoEnv
INVARIANTS NoPanic MutualExclusion NoLostWakeup QueuesMatchStatus InterruptsOffUnderSpinlock
PROPERTIES BlockedIsWoken ImplementsExclusion
