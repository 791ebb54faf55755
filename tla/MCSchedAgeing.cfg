SPECIFICATION FairSpec
CONSTANTS
  Envs = {e1, e2, e3}
  NoEnv = NoEnv
  Levels = 3
  Threshold = 1
  Priorities = {0, 1, 2}
  Workload <- MCFair
INVARIANTS NoStray
PROPERTIES ReadyRuns RunsTheBest
CHECK_DEADLOCK FALSE
