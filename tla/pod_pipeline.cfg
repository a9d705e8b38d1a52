SPECIFICATION FairSpec
CONSTANTS
  MaxUID = 2
  MaxENI = 5
  BranchInterfaceLimit = 1
  maxRetriesOnErr = 1
  MaxFailures = 1
  MaxPending = 2
CHECK_DEADLOCK FALSE
INVARIANT TypeOK
INVARIANT AnnotatedInterfaceOwned
PROPERTY Reclaimed
PROPERTY Annotated
