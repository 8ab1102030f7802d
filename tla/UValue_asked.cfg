SPECIFICATION ValueSpec
CONSTANTS
  Handles = {h1, h2, h3}
  Objects = {o1, o2, o3}
  None = none
  MaxReplies = 2
SYMMETRY Symmetry
INVARIANT AskedIsSent
