SPECIFICATION FairSpec
CONSTANTS
  Instance = {i1, i2}
  NoInstance = NoInstance
  firstInstance = i1
  i1 = i1
  i2 = i2
  MaxEvents = 2
  MaxFailures = 1
CHECK_DEADLOCK FALSE
INVARIANT TypeOK
INVARIANT ReadyHasResources
INVARIANT NothingLeftBehind
PROPERTY NodeSettles
PROPERTY TornDown
PROPERTY ViewSpec
