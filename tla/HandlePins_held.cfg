SPECIFICATION Spec
CONSTANTS
  Objects = {o1, o2}
  Handles = {h1, h2, h3}
  Goroutines = {g1, g2}
  Proto = proto
  Clones = {clone}
  NoInstance = none
  MaxUses = 1
  HeldDuringCall = TRUE
SYMMETRY Symmetry
INVARIANTS TypeOK PinsMatchHandles HeldObjectsAlive CallsFindTheirObjects
