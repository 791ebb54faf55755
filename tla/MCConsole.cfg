SPECIFICATION MCSpec
CONSTANTS
  Procs = {"p", "q"}
  CONSBUFSIZE = 3
  MaxPresses = 6
  Scenes <- MCScenes
  Methods <- MCMethods
  Letters = {"r", "x"}
  BUFLEN = 6
  HISTORY_MAX = 1
  Commands <- MCCommands
  TakesNames <- MCTakesNames
  Names <- MCNames
  MaxKeys = 7
INVARIANTS KeysInOrder RunsWhatIsShown RecallsTheLatest
PROPERTY ReaderServed
CHECK_DEADLOCK FALSE
