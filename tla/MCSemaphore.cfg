SPECIFICATION FairSpec
CONSTANTS
  Envs = {e1, e2, e3, e4}
  NoEnv = NoEnv
  InitValue = 2
INVARIANTS CountMatchesChannel
PROPERTIES ImplementsExclusion
