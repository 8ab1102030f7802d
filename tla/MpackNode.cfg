SPECIFICATION Spec
CONSTANTS
  Base = 8
  MaxNano = 999
  Ulps <- MCUlps
  Sizes = {0, 1, 2}
  Nodes <- MCNodes
  Trees <- MCTrees
  Keys <- MCKeys
  Names <- MCNames
INVARIANT AnswersAreTrue
PROPERTY ErrorsHaveCause
