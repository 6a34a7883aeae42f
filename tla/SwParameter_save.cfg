SPECIFICATION FairSpec
CONSTANTS
  MaxPara = 3
  NumNames = 3
  Inputs = {" b"}
  Defaults = {"a"}
  Stripped <- MCStripped
  NULL = NULL
  BootOrder <- MCBootOrder
  DType <- MCDType
  AutoSave = {"file"}
  NumClients = 2
  OldFile <- MCOldFile
  MaxCalls = 2
  MaxCrashes = 1
  MaxOpenFails = 1
INVARIANTS TableSorted  NoLostSave CleanMeansSaved
 
CHECK_DEADLOCK FALSE
