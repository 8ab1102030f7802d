SPECIFICATION FairSpec
CONSTANTS
  Base = 8
  Streams <- AllStreams
  Setups = {"buffer", "pool", "stream"}
  BufferSize = 2
  MaxSize = 16
  PoolCount = 7
  PageNodes = 8
  Depth = 2
  SizeMax = 4095
  Garbage = {0, 3}
INVARIANT ParsedUnlessMoved NodesWithinBytes StorageIsOwn
PROPERTY ParsedInTheEnd
CHECK_DEADLOCK FALSE
