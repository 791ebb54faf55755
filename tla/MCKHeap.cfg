SPECIFICATION Spec
CONSTANTS
  Frames = {f1, f2, f3, f4, f5, f6}
  NoFrame = NoFrame
  Gap = 2
  HeapMax = 11
  Requests = {1, 2, 3}
  UserPages = {12}
INVARIANTS HeapMatchesCallers FramesConserved
PROPERTIES CustomFit
SYMMETRY Symmetry
CHECK_DEADLOCK FALSE
