SPECIFICATION ControlSpec
CONSTANTS
  Frames = {f1, f2, f3}
  NoFrame = null
  Locs = {x}
  Values = {0, 1}
  Ints = {}
  Beside <- NothingBeside
  MaxSaves = 8
  MaxRegions = 3
  Careful = FALSE
  t1 = t1
  t2 = t2
  t3 = t3
  Threads = {t1, t2, t3}
  Hash <- ThreadHash
  TableSize = 2
  Pointers = {null, p1, p2}
  NullPointer = null
  Free = free
  StackFrames = {f, g}
  Nobody = nobody
  MaxMarks = 2
  MaxStack = 3
  MaxNesting = 3
SYMMETRY Symmetry
CHECK_DEADLOCK FALSE
INVARIANTS CurrentIsTop
