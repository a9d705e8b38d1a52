----------------------------- MODULE MCTrunkENI -----------------------------
(* TrunkENI for TLC. *)
EXTENDS TrunkENI

\* Pods and interfaces are interchangeable.
PodAndENISymmetry == Permutations(Pod) \cup Permutations(ENI)

\* What the controller or EC2 can still read: the details of an interface that
\* neither of them holds any more do not tell two states apart.
Reachable(e) ==
  e \in Live \/ InMemory(e) \/ e \in Range(deleteQueue) \/ e = workerENI

ReachableState ==
  <<trunk, usedVlanIds, uidToBranchENIMap, deleteQueue, jobPc, newENIs, vlanID, workerPc, workerENI,
    listPc, podList, initPods, deletedJobs, podPhase, annotation, niStatus, subnet, stoppedFor, leaked, crashes,
    [e \in {f \in ENI : Reachable(f)} |->
       <<deletionTimeStamp[e], deleteRetryCount[e], niVlan[e], niSubnet[e]>>]>>
=============================================================================
