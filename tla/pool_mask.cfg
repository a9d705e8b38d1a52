SPECIFICATION Spec
CONSTANTS
  Pod = {p1, p2}
  Group = {g1, g2}
  NoResource = NoResource
  isPDPool = FALSE
  NumIPv4AddrPerPrefix = 16
  capacity = 2
  WarmIPTarget = 1
  MinIPTarget = 1
  WarmPrefixTarget = 0
  MaxDeviation = 0
  CoolDownPeriod = 1
  Job = {j1, j2}
  MaxCrashes = 0
  Faults = {"UnassignFails"}
SYMMETRY PoolSymmetry
INVARIANT AddressExclusive
