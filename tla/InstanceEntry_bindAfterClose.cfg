SPECIFICATION Spec
CONSTANTS
  Goroutines = {g1, g2}
  Callers = {g1}
  Binders = {g2}
  NoOne = NoOne
  MaxDepth = 2
  MaxPending = 1
  QuietClose = TRUE
  BindAfterClose = TRUE
INVARIANT NoStragglers
