SPECIFICATION Spec
CONSTANTS
  Envs = {e1, e2, e3}
  NoEnv = NoEnv
  Levels = 2
  Threshold = 1
  Priorities = {0, 1}
  Workload <- MCSafety
INVARIANTS QueuesMatchStatus NoOrphan
PROPERTIES OnlyLateStoresMisplace
SYMMETRY Symmetry
