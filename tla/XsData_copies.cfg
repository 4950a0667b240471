SPECIFICATION DataSpec
CONSTANTS
  Counters = {s1}
  Strings = {s1, s2}
  Arrays = {a1}
  Vars = {v1}
  Hooks = {h1}
  Hints = {w1}
  Contexts = {z1}
  Vals = {0, 1}
  MaxLen = 1
  MaxMirrors = 1
  MaxActs = 2
  NoCell = nocell
  Addresses = {o1, o2}
  Blocks = {1, 2}
  MaxShadows = 3
  Nil = nil
  Scratch = scratch
  Recycled = FALSE
  Plugins = {p, q}
  Decline = decline
  Unset = unset
  Texts = {x1, x2, x3}
  MaxPos = 2
  MaxParsers = 2
  MaxHooks = 2
  Confined = TRUE
  l1 = l1
  l2 = l2
  ta = ta
  tb = tb
  Ltoks = {l1, l2}
  BufAt <- BufferAt
  BufLen = 2
  HostBase = 10
  Tabs = {ta, tb}
  Custom <- CustomSlots
  TextLen = 3
  MaxLayers = 2
  NoLayer = nolayer
CHECK_DEADLOCK FALSE
INVARIANTS DataTypeOK    HookFindsShadow    ChainIsComplete TextArrives ShadowPerLayer
