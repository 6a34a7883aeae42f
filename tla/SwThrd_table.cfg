CONSTANTS
  Info = {i1, i2}
  MaxThrd = 1
  MaxPosts = 2
  Lookups = {i1}
SPECIFICATION FairSpec
INVARIANTS TableConsistent NoLostResume FreedThreadDoomed
PROPERTY ClosedThreadEnds
CHECK_DEADLOCK FALSE
