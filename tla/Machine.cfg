SPECIFICATION Spec
CONSTANTS
  Modules = {m1, m2}
  MaxDepth = 6
INVARIANT ChainIsLive ContextIsOwn LastResort
PROPERTY HostIsIsolated
CHECK_DEADLOCK FALSE
