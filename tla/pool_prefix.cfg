SPECIFICATION Spec
CONSTANTS
  Pod = {p1, p2}
  Group = {g1, g2}
  NoResource = NoResource
  isPDPool = TRUE
  NumIPv4AddrPerPrefix = 2
  capacity = 4
  WarmIPTarget = 1
  MinIPTarget = 1
  WarmPrefixTarget = 0
  MaxDeviation = 0
  CoolDownPeriod = 1
  Job = {j1}
  MaxCrashes = 0
  Faults = {"UnassignFails", "SetConfig"}
SYMMETRY PoolSymmetry
INVARIANT AddressExclusive
INVARIANT NoEarlyReuse
INVARIANT AnnouncedExists
INVARIANT PendingAccounted
CONSTRAINT ReSyncsCurrent
