CONSTANTS
  Size = 32
  Align = 2
  Hdr = 3
  Guard = 2
  Requests = {1, 3, 7}
  Thread = {a, b}
  ResetBound = 12
SPECIFICATION Spec
SYMMETRY MCThreads
INVARIANTS BlocksApart CopyExact 
