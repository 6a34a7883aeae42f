CONSTANTS
  Key <- MCKey
  Value = {1, 2}
  Hash <- MCHash
  TableSize = 2
  MaxSize = 5
  Failures = 1
  Removes = TRUE
  Overwrites = FALSE
  None = None
SPECIFICATION Spec
INVARIANT LookupExact
PROPERTY PutReturns
