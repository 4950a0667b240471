SPECIFICATION FairSpec
CONSTANTS
  outer = outer
  inner = inner
  other = other
  TopLevel = TopLevel
  Calls = {outer, inner, other}
  Parent <- MCParent
  Cancellable = {outer, other}
  Endless = {outer}
  Trapping = {other}
INVARIANTS TypeOK FlagHasOwner NoStrayInterrupt
PROPERTY CancelStopsAlone
