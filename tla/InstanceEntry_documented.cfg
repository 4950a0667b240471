SPECIFICATION FairSpec
CONSTANTS
  Goroutines = {g1, g2, g3}
  Callers = {g1}
  Binders = {g1, g2}
  NoOne = NoOne
  MaxDepth = 2
  MaxPending = 1
  QuietClose = TRUE
  BindAfterClose = FALSE
INVARIANTS TypeOK MutualExclusion StackDiscipline NoStragglers
PROPERTIES ImplementsNested EntryNotBlockedByCallbacks
