CONSTANTS
  w1 = w1
  w2 = w2
  r1 = r1
  r2 = r2
  LevelNum = 2
  QSize <- MCSize2
  FullCover <- MCMixed
  Writers = {w1, w2}
  Readers = {r1}
  Clearers = {w1}
  MaxPosts = 3
SPECIFICATION FairSpec
INVARIANT NoLostWakeup
PROPERTIES ReadsInOrder ImplementsPriorityQueue WaitingReaderServed
