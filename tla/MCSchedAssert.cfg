SPECIFICATION Spec
CONSTANTS
  Envs = {e1, e2, e3}
  NoEnv = NoEnv
  Levels = 2
  Threshold = 3
  Priorities = {0, 1}
  Workload <- MCAssert
INVARIANTS RemovedIsReady
CHECK_DEADLOCK FALSE
