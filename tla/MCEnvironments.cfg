SPECIFICATION MCSpec
CONSTANTS
  Envs = {e1, e2}
  LastPage = 4
  Table <- MCTable
  HeapPages = {3}
  StackPage = 4
  Programs <- MCPrograms
  NFrames = 17
  NDisk = 5
  KStackPages = 1
  MaxLives = 2
  Frames = {f1, f2, f3}
  NoFrame = NoFrame
  HeapTop = 2
  Names = {a, b, l}
  Short = b
  Long = l
  Ids = {i1, i2}
  Sizes = {1, 2}
  MaxRefs = 2
INVARIANTS FramesAccountedFor ReadsItsOwn NothingLeftBehind SharesIntact NoAccessAfterDelete
SYMMETRY Symmetry
CHECK_DEADLOCK FALSE
