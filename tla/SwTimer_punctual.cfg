CONSTANTS
  Cell = {x1, x2}
  NULL = NULL
  Client = {c1}
  Ops <- MCBasic
  Intervals = {2}
  Times <- MCForever
  Word = 16
  Slow = FALSE
  Preempt = FALSE
  MaxLate = 2
  MaxCalls = 1
SPECIFICATION FairSpec
INVARIANT Punctual
PROPERTIES PeriodicFires ExitEnds
