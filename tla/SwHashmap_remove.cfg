CONSTANTS
  Key <- MCKey
  Value = {1}
  Hash <- MCHash
  TableSize = 4
  MaxSize = 5
  Failures = 0
  Removes = TRUE
  Overwrites = FALSE
  None = None
SPECIFICATION Spec
INVARIANT RemoveFinds
