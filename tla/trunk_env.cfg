SPECIFICATION FairSpec
CONSTANTS
  Pod = {p1}
  ENI = {e1, e2}
  NoENI = NoENI
  Subnet = {s1, s2}
  MaxAllocatableVlanIds = 2
  BranchInterfaceLimit = 2
  EniCount = 1
  MaxDeleteRetries = 1
  CoolDownPeriod = 0
  MaxCrashes = 1
  Faults = {"StopDuringCreate", "LostCreate", "SubnetChange"}
INVARIANT NoUnaccountedENI
INVARIANT NoEarlyDeletion
PROPERTY UnusedENIReclaimed
