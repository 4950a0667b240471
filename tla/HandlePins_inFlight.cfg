SPECIFICATION Spec
CONSTANTS
  Objects = {o1}
  Handles = {h1, h2}
  Goroutines = {g1}
  Proto = proto
  Clones = {clone}
  NoInstance = none
  MaxUses = 1
  HeldDuringCall = FALSE
INVARIANT CallsFindTheirObjects
