SPECIFICATION FairSpec
CONSTANTS
  MaxENI = 2
  MaxJobs = 2
  MaxIndex = 1
  MaxEvents = 2
  MaxFailures = 1
CHECK_DEADLOCK FALSE
INVARIANT TypeOK
INVARIANT OneTrunk
PROPERTY CreatorKeepsInterface
PROPERTY LeaksCollected
PROPERTY CNINodeRestored
