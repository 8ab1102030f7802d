SPECIFICATION Spec
CONSTANTS
  Wrap = 4
  Requests = {1, 3}
  Hooks = {h1}
  None = none
  MaxDepth = 2
  MaxLag = 5
  MaxClock = 6
INVARIANT ElapsedIsTrue
PROPERTY SleepsLongEnough
CHECK_DEADLOCK FALSE
