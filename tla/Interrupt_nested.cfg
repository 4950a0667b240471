SPECIFICATION FairSpec
CONSTANTS
  outer = outer
  inner = inner
  other = other
  TopLevel = TopLevel
  Calls = {outer, inner}
  Parent <- MCParent
  Cancellable = {outer}
  Endless = {outer}
  Trapping = {}
PROPERTY CancelStops
