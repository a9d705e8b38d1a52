SPECIFICATION Spec
CONSTANTS
  Instance = {i1, i2}
  NoInstance = NoInstance
  firstInstance = i1
  i1 = i1
  i2 = i2
  MaxEvents = 2
  MaxFailures = 0
CHECK_DEADLOCK FALSE
INVARIANT TrunkNeverMissing
