SPECIFICATION ImportSpec
CONSTANTS
  BufSize = 2
  MaxLength = 4
  Objects = {o1, o2}
  Files = {f1, f2}
  Descriptors = {d1, d2}
  None = None
  MaxPos = 4
SYMMETRY Symmetry
INVARIANT InOrder WholeUnlessCut OwnPlace OwnDescriptor OnlyCollectionLoses
PROPERTY EndIsFinal PromiseKept
