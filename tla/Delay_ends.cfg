SPECIFICATION FairSpec
CONSTANTS
  Wrap = 8
  Requests = {1, 2, 3}
  Hooks = {h1}
  None = none
  MaxDepth = 1
  MaxLag = 1
  MaxClock = 19
PROPERTY OversleepBounded SleepEnds
CHECK_DEADLOCK FALSE
