SPECIFICATION ExpectSpec
CONSTANTS
  Base = 8
  Ulps <- MCUlps
  MaxNano = 5
  MinSize = 4
  ReadFraction = 4
  SkipFraction = 2
  Expected <- MCExpected
  Maxima = {0, 2, 11}
  Streams <- MCStreams
  Setups <- MCSetups
  Names <- MCNames
  Heads <- MCHeads
INVARIANT ExpectedOrFlagged InOrder ErrorToldOnce
PROPERTY FlaggedForCause
CHECK_DEADLOCK FALSE
