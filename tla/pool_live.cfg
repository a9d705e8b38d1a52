SPECIFICATION FairSpec
CONSTANTS
  Pod = {p1, p2}
  Group = {g1}
  NoResource = NoResource
  isPDPool = FALSE
  NumIPv4AddrPerPrefix = 16
  capacity = 1
  WarmIPTarget = 1
  MinIPTarget = 1
  WarmPrefixTarget = 0
  MaxDeviation = 0
  CoolDownPeriod = 1
  Job = {j1}
  MaxCrashes = 0
  Faults = {"SetConfig", "PodCompletes"}
PROPERTY StoppedPodReleased
