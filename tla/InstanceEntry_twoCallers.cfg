SPECIFICATION Spec
CONSTANTS
  Goroutines = {g1, g2}
  Callers = {g1, g2}
  Binders = {}
  NoOne = NoOne
  MaxDepth = 2
  MaxPending = 0
  QuietClose = TRUE
  BindAfterClose = FALSE
INVARIANT StackDiscipline
