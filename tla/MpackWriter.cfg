SPECIFICATION WriterSpec
CONSTANTS
  Capacity = 4
  MinBuffer = 3
  MaxSize = 63
  MaxAsked = 18
  NULL = null
INVARIANT NoOverrun OneOwner
PROPERTY LogSpec
CHECK_DEADLOCK FALSE
