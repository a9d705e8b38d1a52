SPECIFICATION FairSpec
CONSTANTS
  Workers = 2
  EniCount = 2
  MaxEvents = 2
  MaxFailures = 1
CHECK_DEADLOCK FALSE
INVARIANT TypeOK
INVARIANT NoPanic
INVARIANT TrunkIndexValid
PROPERTY VlanForCapacity
INVARIANT LimitRespected
INVARIANT SubnetConsistent
PROPERTY CapacitySettles
