SPECIFICATION ValueSpec
CONSTANTS
  Handles = {h1, h2}
  Objects = {o1, o2, o3}
  None = none
  MaxReplies = 2
VIEW View
SYMMETRY Symmetry
INVARIANT NothingDangles NoStaleValue NothingForgotten
