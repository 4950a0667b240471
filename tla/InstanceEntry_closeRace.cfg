SPECIFICATION Spec
CONSTANTS
  Goroutines = {g1, g2}
  Callers = {}
  Binders = {}
  NoOne = NoOne
  MaxDepth = 1
  MaxPending = 1
  QuietClose = FALSE
  BindAfterClose = FALSE
INVARIANT NoStragglers
