SPECIFICATION FairSpec
CONSTANTS
  FileSize = 2
  ReadSizes = {1, 3}
  SeekTo = {1, 3}
  Sections <- MCSections
  HonoursRange = TRUE
  Framing = {"length", "range", "chunked", "close"}
  RrsCnt = 2
  BadSize = 2
  RediLimit = 4
  RediOther = 2
  RediSame = 1
  MaxCalls = 4
INVARIANTS ReadsFile EofIsEnd 
PROPERTY CallReturns
CHECK_DEADLOCK FALSE
