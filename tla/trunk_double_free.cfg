SPECIFICATION Spec
CONSTANTS
  Pod = {p1, p2}
  ENI = {e1, e2}
  NoENI = NoENI
  Subnet = {s1}
  MaxAllocatableVlanIds = 3
  BranchInterfaceLimit = 2
  EniCount = 1
  MaxDeleteRetries = 2
  CoolDownPeriod = 0
  MaxCrashes = 0
  Faults = {"StopDuringCreate"}
SYMMETRY PodAndENISymmetry
VIEW ReachableState
INVARIANT VlanExclusive
