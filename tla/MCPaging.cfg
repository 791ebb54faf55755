SPECIFICATION MCSpec
CONSTANTS
  c1 = c1
  s1 = s1
  h1 = h1
  h2 = h2
  p1 = p1
  p2 = p2
  p3 = p3
  p4 = p4
  p5 = p5
  MaxRefs = 7
  Code <- MCCode
  Stack <- MCStack
  Heap <- MCHeap
  Stray = {x1}
  Forbidden = {k1}
  Loaded <- MCLoaded
  WSMax <- MCWSMax
  Writes <- MCWrites
  PFSize = 3
  Values = {0, 1}
  NoPage = NoPage
  Zero = 0
  Image = 1
  Msb = 2
  Algorithms = {"CLOCK", "LRU", "MODIFIEDCLOCK"}
SYMMETRY Symmetry
CHECK_DEADLOCK FALSE
INVARIANTS NothingLost WorkingSetIsResident CountsTheFewest
PROPERTIES SecondChance
