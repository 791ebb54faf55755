SPECIFICATION Spec
CONSTANTS
  HeapTop = 6
  Sizes = {1, 2}
  Objects = 4
CHECK_DEADLOCK FALSE
INVARIANTS NoOverlap
