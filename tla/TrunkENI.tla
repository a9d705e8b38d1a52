------------------------------ MODULE TrunkENI ------------------------------
(***************************************************************************)
(* The trunk network interface of one node: the branch ENIs created for    *)
(* its pods, their VLAN ids, the cool-down queue through which they are    *)
(* deleted, and what the controller rebuilds after a restart.              *)
(*                                                                         *)
(* Source: pkg/provider/branch/trunk/trunk.go and the jobs of              *)
(* pkg/provider/branch/provider.go that call it.  Each action is one       *)
(* critical section of trunkENI.lock or one call to EC2 or the API server, *)
(* so that every interleaving of the worker pool's goroutines is a         *)
(* behaviour of the specification.                                         *)
(***************************************************************************)
EXTENDS Integers, FiniteSets, SequencesExt

CONSTANTS
  Pod,                    \* UIDs of the pods scheduled to the node
  ENI,                    \* branch interface ids EC2 hands out, each at most once
  NoENI,                  \* the delete worker holds no interface
  Subnet,                 \* subnets the node's ENIConfig can name
  MaxAllocatableVlanIds,  \* 121 in the code; id 0 is reserved
  BranchInterfaceLimit,   \* vpc.Limits[type].BranchInterface
  EniCount,               \* interfaces a pod requests
  MaxDeleteRetries,       \* 3 in the code
  CoolDownPeriod,         \* in ticks
  MaxCrashes,             \* bound on controller restarts
  Faults                  \* what the environment may do, a subset of AllFaults

AllFaults == {"StopDuringCreate", "ArriveDuringList", "LostCreate", "LostAnnotate", "SubnetChange"}

ASSUME TrunkAssumption ==
  /\ IsFiniteSet(Pod) /\ IsFiniteSet(ENI) /\ NoENI \notin ENI
  /\ MaxAllocatableVlanIds \in Nat \ {0}
  /\ BranchInterfaceLimit \in Nat
  /\ EniCount \in Nat \ {0}
  /\ MaxDeleteRetries \in Nat \ {0}
  /\ CoolDownPeriod \in Nat
  /\ MaxCrashes \in Nat
  /\ Faults \subseteq AllFaults

VARIABLES
  \* The controller's memory: the fields of trunkENI and ENIDetails.
  trunk,               \* "down", "listed" (InitTrunk under way) or "up" (in trunkENICache)
  usedVlanIds,         \* the indices of usedVlanIds that are true
  uidToBranchENIMap,   \* pod -> its cached interfaces, {} when the pod has no entry
  deleteQueue,         \* sequence of interfaces
  deletionTimeStamp,   \* interface -> ticks since it was stamped, NoTime when zero
  deleteRetryCount,
  \* Local variables of the jobs under way.
  jobPc, newENIs, vlanID,       \* CreateAndAnnotateResources, per pod
  workerPc, workerENI,          \* DeleteCooledDownENIs
  listPc, podList,              \* ReconcileNode
  initPods,                     \* InitResource
  deletedJobs,                  \* pods with a Deleted job in the work queue
  \* The API server and EC2.
  podPhase, annotation,         \* pod -> phase, pod -> interfaces in its annotation
  niStatus, niVlan, niSubnet,   \* interface -> existence, VLAN tag, subnet
  subnet,                       \* instance.SubnetID()
  \* History.
  stoppedFor,  \* pod -> ticks since it completed or was deleted
  leaked,      \* live interfaces the controller gave up on or never learnt of
  crashes

trunkVars == <<trunk, usedVlanIds, uidToBranchENIMap, deleteQueue, deletionTimeStamp, deleteRetryCount>>
createVars == <<jobPc, newENIs, vlanID>>
workerVars == <<workerPc, workerENI>>
listVars == <<listPc, podList>>
podVars == <<podPhase, annotation, stoppedFor>>
ec2Vars == <<niStatus, niVlan, niSubnet, subnet>>
vars == <<trunkVars, createVars, workerVars, listVars, initPods, deletedJobs, podVars, ec2Vars, leaked, crashes>>

NoTime == -1
Vlan == 0 .. MaxAllocatableVlanIds - 1
Age == NoTime .. CoolDownPeriod + 1
CreatePc == {"none", "queued", "fetched", "assign", "create", "associate", "cache", "failed",
             "annotate", "annotateFailed"}

TypeOK ==
  /\ trunk \in {"down", "listed", "up"}
  /\ usedVlanIds \in SUBSET Vlan
  /\ uidToBranchENIMap \in [Pod -> SUBSET ENI]
  /\ deleteQueue \in Seq(ENI)
  /\ deletionTimeStamp \in [ENI -> Age]
  /\ deleteRetryCount \in [ENI -> Nat]
  /\ jobPc \in [Pod -> CreatePc]
  /\ newENIs \in [Pod -> SUBSET ENI]
  /\ vlanID \in [Pod -> Vlan]
  /\ workerPc \in {"idle", "popped", "deleted"}
  /\ workerENI \in ENI \cup {NoENI}
  /\ workerPc # "idle" => workerENI \in ENI
  /\ listPc \in {"idle", "listed"}
  /\ podList \in SUBSET Pod
  /\ initPods \in SUBSET Pod
  /\ deletedJobs \in SUBSET Pod
  /\ podPhase \in [Pod -> {"absent", "running", "completed", "gone"}]
  /\ annotation \in [Pod -> SUBSET ENI]
  /\ niStatus \in [ENI -> {"none", "live", "gone"}]
  /\ niVlan \in [ENI -> Vlan]
  /\ niSubnet \in [ENI -> Subnet]
  /\ subnet \in Subnet
  /\ stoppedFor \in [Pod -> Age]
  /\ leaked \in SUBSET ENI
  /\ crashes \in 0 .. MaxCrashes

Init ==
  /\ trunk = "down"
  /\ usedVlanIds = {0}
  /\ uidToBranchENIMap = [p \in Pod |-> {}]
  /\ deleteQueue = <<>>
  /\ deletionTimeStamp = [e \in ENI |-> NoTime]
  /\ deleteRetryCount = [e \in ENI |-> 0]
  /\ jobPc = [p \in Pod |-> "none"]
  /\ newENIs = [p \in Pod |-> {}]
  /\ vlanID = [p \in Pod |-> 0]
  /\ workerPc = "idle" /\ workerENI = NoENI
  /\ listPc = "idle" /\ podList = {}
  /\ initPods = {}
  /\ deletedJobs = {}
  /\ podPhase = [p \in Pod |-> "absent"]
  /\ annotation = [p \in Pod |-> {}]
  /\ niStatus = [e \in ENI |-> "none"]
  /\ niVlan = [e \in ENI |-> 0]
  /\ subnet \in Subnet
  /\ niSubnet = [e \in ENI |-> subnet]
  /\ stoppedFor = [p \in Pod |-> NoTime]
  /\ leaked = {}
  /\ crashes = 0

-----------------------------------------------------------------------------
(***************************************************************************)
(* Helpers: the small methods of trunkENI.                                 *)
(***************************************************************************)
Live == {e \in ENI : niStatus[e] = "live"}

InMemory(e) == \E p \in Pod : e \in newENIs[p] \cup uidToBranchENIMap[p]

\* Mutant: the scan runs one past the end of usedVlanIds.
FreeVlansPastEnd == (0 .. MaxAllocatableVlanIds) \ usedVlanIds

\* The VLAN ids not in use, from which assignVlanId takes the lowest.
FreeVlans == Vlan \ usedVlanIds

\* canCreateMore: cached and queued interfaces against the instance limit.
canCreateMore ==
  Cardinality({pe \in Pod \X ENI : pe[2] \in uidToBranchENIMap[pe[1]]}) + Len(deleteQueue)
    < BranchInterfaceLimit

freeVlanId(v) == usedVlanIds' = usedVlanIds \ {v}

\* PushENIsToFrontOfDeleteQueue; the order within one pod's list is immaterial.
pushToFront(enis) == \E s \in SetToSeqs(enis) : deleteQueue' = s \o deleteQueue

\* Stamping with time.Now() and appending, as PushBranchENIsToCoolDownQueue and
\* Reconcile do under one lock.
pushToCoolDown(enis) ==
  /\ \E s \in SetToSeqs(enis) : deleteQueue' = deleteQueue \o s
  /\ deletionTimeStamp' = [e \in ENI |-> IF e \in enis THEN 0 ELSE deletionTimeStamp[e]]

\* Mutant: an interface counts as cooled down one tick early.
cooledDownEarly(e) == deletionTimeStamp[e] = NoTime \/ deletionTimeStamp[e] >= CoolDownPeriod

\* The test of DeleteCooledDownENIs: never stamped, or stamped long enough ago.
cooledDown(e) == deletionTimeStamp[e] = NoTime \/ deletionTimeStamp[e] > CoolDownPeriod

-----------------------------------------------------------------------------
(***************************************************************************)
(* The cluster: pods come, complete and go.  Completion and deletion each  *)
(* submit a Deleted job (pod_controller.go, on_demand.go).                 *)
(***************************************************************************)
PodScheduled(p) ==
  /\ podPhase[p] = "absent"
  /\ listPc = "listed" => "ArriveDuringList" \in Faults
  /\ podPhase' = [podPhase EXCEPT ![p] = "running"]
  /\ jobPc' = [jobPc EXCEPT ![p] = "queued"]
  /\ UNCHANGED <<trunkVars, newENIs, vlanID, workerVars, listVars, initPods, deletedJobs,
                 annotation, stoppedFor, ec2Vars, leaked, crashes>>

\* Every later event of the pod submits the create job again.
PodUpdated(p) ==
  /\ podPhase[p] = "running" /\ jobPc[p] = "none"
  /\ jobPc' = [jobPc EXCEPT ![p] = "queued"]
  /\ UNCHANGED <<trunkVars, newENIs, vlanID, workerVars, listVars, initPods, deletedJobs, podVars, ec2Vars,
                 leaked, crashes>>

PodStops(p, phase) ==
  /\ podPhase[p] = "running" \/ (podPhase[p] = "completed" /\ phase = "gone")
  /\ jobPc[p] # "none" => "StopDuringCreate" \in Faults
  /\ podPhase' = [podPhase EXCEPT ![p] = phase]
  /\ stoppedFor' = [stoppedFor EXCEPT ![p] = IF @ = NoTime THEN 0 ELSE @]
  /\ deletedJobs' = deletedJobs \cup {p}
  /\ UNCHANGED <<trunkVars, createVars, workerVars, listVars, initPods, annotation, ec2Vars, leaked, crashes>>

\* Custom networking moves the node to another subnet (node UpdateResources).
SubnetChange ==
  /\ "SubnetChange" \in Faults
  /\ subnet' \in Subnet \ {subnet}
  /\ UNCHANGED <<trunkVars, createVars, workerVars, listVars, initPods, deletedJobs, podVars,
                 niStatus, niVlan, niSubnet, leaked, crashes>>

older(age) == IF age = NoTime \/ age > CoolDownPeriod THEN age ELSE age + 1

Tick ==
  /\ deletionTimeStamp' = [e \in ENI |-> older(deletionTimeStamp[e])]
  /\ stoppedFor' = [p \in Pod |-> older(stoppedFor[p])]
  /\ <<deletionTimeStamp, stoppedFor>>' # <<deletionTimeStamp, stoppedFor>>
  /\ UNCHANGED <<trunk, usedVlanIds, uidToBranchENIMap, deleteQueue, deleteRetryCount, createVars,
                 workerVars, listVars, initPods, deletedJobs, podPhase, annotation, ec2Vars, leaked, crashes>>

-----------------------------------------------------------------------------
(***************************************************************************)
(* CreateAndAnnotateResources, one job per pod at a time (the work queue   *)
(* does not run two jobs with the same key).                               *)
(***************************************************************************)

\* processNextItem after an error: the job is queued again, or dropped when it
\* has run out of retries or the pod was not found.
jobFails(p) == \E pc \in {"queued", "none"} : jobPc' = [jobPc EXCEPT ![p] = pc]

\* GetPod, GetPodFromAPIServer and getTrunkFromCache.  Neither the phase of the
\* pod nor a pending Deleted job is looked at.
CreateFetch(p) ==
  /\ trunk = "up" /\ jobPc[p] = "queued"
  /\ jobPc' = [jobPc EXCEPT ![p] =
                 IF podPhase[p] \in {"running", "completed"} /\ annotation[p] = {}
                 THEN "fetched" ELSE "none"]
  /\ UNCHANGED <<trunkVars, newENIs, vlanID, workerVars, listVars, initPods, deletedJobs, podVars,
                 ec2Vars, leaked, crashes>>

\* getBranchFromCache and canCreateMore (only this job adds to the pod's cache
\* entry, so that the two lock sections act as one).
CreateAdmit(p) ==
  /\ jobPc[p] = "fetched"
  /\ \/ uidToBranchENIMap[p] # {} /\ jobFails(p)
     \/ /\ uidToBranchENIMap[p] = {}
        /\ jobPc' = [jobPc EXCEPT ![p] = IF canCreateMore THEN "assign" ELSE "queued"]
  /\ UNCHANGED <<trunkVars, newENIs, vlanID, workerVars, listVars, initPods, deletedJobs, podVars,
                 ec2Vars, leaked, crashes>>

\* assignVlanId: the lowest free id, or the job fails.
AssignVlanId(p) ==
  /\ jobPc[p] = "assign"
  /\ \/ /\ FreeVlans = {}
        /\ jobPc' = [jobPc EXCEPT ![p] = "failed"]
        /\ UNCHANGED <<usedVlanIds, vlanID>>
     \/ \E v \in FreeVlans :
          /\ \A w \in FreeVlans : v <= w
          /\ usedVlanIds' = usedVlanIds \cup {v}
          /\ vlanID' = [vlanID EXCEPT ![p] = v]
          /\ jobPc' = [jobPc EXCEPT ![p] = "create"]
  /\ UNCHANGED <<trunk, uidToBranchENIMap, deleteQueue, deletionTimeStamp, deleteRetryCount, newENIs,
                 workerVars, listVars, initPods, deletedJobs, podVars, ec2Vars, leaked, crashes>>

\* EC2 makes interface e, tagged with the VLAN id, in the current subnet.
ec2Creates(e, v) ==
  /\ niStatus[e] = "none"
  /\ niStatus' = [niStatus EXCEPT ![e] = "live"]
  /\ niVlan' = [niVlan EXCEPT ![e] = v]
  /\ niSubnet' = [niSubnet EXCEPT ![e] = subnet]

CreateNetworkInterface(p) ==
  /\ jobPc[p] = "create"
  /\ \E e \in ENI :
       /\ ec2Creates(e, vlanID[p])
       /\ newENIs' = [newENIs EXCEPT ![p] = @ \cup {e}]
  /\ vlanID' = [vlanID EXCEPT ![p] = 0]
  /\ jobPc' = [jobPc EXCEPT ![p] = "associate"]
  /\ UNCHANGED <<trunkVars, workerVars, listVars, initPods, deletedJobs, podVars, subnet, leaked, crashes>>

\* The call fails, or its answer is lost after EC2 made the interface: either
\* way the VLAN id is freed.
CreateNetworkInterfaceFails(p) ==
  /\ jobPc[p] = "create"
  /\ freeVlanId(vlanID[p])
  /\ \/ UNCHANGED <<niStatus, niVlan, niSubnet, leaked>>
     \/ /\ "LostCreate" \in Faults
        /\ \E e \in ENI : ec2Creates(e, vlanID[p]) /\ leaked' = leaked \cup {e}
  /\ vlanID' = [vlanID EXCEPT ![p] = 0]
  /\ jobPc' = [jobPc EXCEPT ![p] = "failed"]
  /\ UNCHANGED <<trunk, uidToBranchENIMap, deleteQueue, deletionTimeStamp, deleteRetryCount, newENIs,
                 workerVars, listVars, initPods, deletedJobs, podVars, subnet, crashes>>

\* AssociateBranchToTrunk: on to the next interface, to the cache, or failure.
AssociateBranchToTrunk(p) ==
  /\ jobPc[p] = "associate"
  /\ \E pc \in {"failed", IF Cardinality(newENIs[p]) < EniCount THEN "assign" ELSE "cache"} :
       jobPc' = [jobPc EXCEPT ![p] = pc]
  /\ UNCHANGED <<trunkVars, newENIs, vlanID, workerVars, listVars, initPods, deletedJobs, podVars, ec2Vars, leaked, crashes>>

\* Mutant: the interfaces made before the failure are dropped.
CreateFailsDropping(p) ==
  /\ jobPc[p] = "failed"
  /\ newENIs' = [newENIs EXCEPT ![p] = {}]
  /\ jobPc' = [jobPc EXCEPT ![p] = "queued"]
  /\ UNCHANGED <<trunkVars, vlanID, workerVars, listVars, initPods, deletedJobs, podVars, ec2Vars, leaked, crashes>>

\* The error path of CreateAndAssociateBranchENIs.
CreateFails(p) ==
  /\ jobPc[p] = "failed"
  /\ pushToFront(newENIs[p])
  /\ newENIs' = [newENIs EXCEPT ![p] = {}]
  /\ jobFails(p)
  /\ UNCHANGED <<trunk, usedVlanIds, uidToBranchENIMap, deletionTimeStamp, deleteRetryCount, vlanID,
                 workerVars, listVars, initPods, deletedJobs, podVars, ec2Vars, leaked, crashes>>

\* addBranchToCache, before the pod is annotated.
AddBranchToCache(p) ==
  /\ jobPc[p] = "cache"
  /\ uidToBranchENIMap' = [uidToBranchENIMap EXCEPT ![p] = IF @ = {} THEN newENIs[p] ELSE @]
  /\ jobPc' = [jobPc EXCEPT ![p] = "annotate"]
  /\ UNCHANGED <<trunk, usedVlanIds, deleteQueue, deletionTimeStamp, deleteRetryCount, newENIs, vlanID,
                 workerVars, listVars, initPods, deletedJobs, podVars, ec2Vars, leaked, crashes>>

AnnotatePod(p) ==
  /\ jobPc[p] = "annotate"
  /\ podPhase[p] \in {"running", "completed"}
  /\ annotation' = [annotation EXCEPT ![p] = newENIs[p]]
  /\ newENIs' = [newENIs EXCEPT ![p] = {}]
  /\ jobPc' = [jobPc EXCEPT ![p] = "none"]
  /\ UNCHANGED <<trunkVars, vlanID, workerVars, listVars, initPods, deletedJobs, podPhase, stoppedFor, ec2Vars, leaked, crashes>>

\* The patch is refused (always, once the pod is gone), or applied and its
\* answer lost.
AnnotatePodErrs(p) ==
  /\ jobPc[p] = "annotate"
  /\ \/ UNCHANGED annotation
     \/ /\ "LostAnnotate" \in Faults /\ podPhase[p] \in {"running", "completed"}
        /\ annotation' = [annotation EXCEPT ![p] = newENIs[p]]
  /\ jobPc' = [jobPc EXCEPT ![p] = "annotateFailed"]
  /\ UNCHANGED <<trunkVars, newENIs, vlanID, workerVars, listVars, initPods, deletedJobs, podPhase, stoppedFor,
                 ec2Vars, leaked, crashes>>

\* Mutant: the cache entry is removed but its interfaces are not queued.
AnnotateFailsDropping(p) ==
  /\ jobPc[p] = "annotateFailed"
  /\ uidToBranchENIMap' = [uidToBranchENIMap EXCEPT ![p] = {}]
  /\ newENIs' = [newENIs EXCEPT ![p] = {}]
  /\ jobPc' = [jobPc EXCEPT ![p] = "queued"]
  /\ UNCHANGED <<trunk, usedVlanIds, deleteQueue, deletionTimeStamp, deleteRetryCount, vlanID, workerVars,
                 listVars, initPods, deletedJobs, podVars, ec2Vars, leaked, crashes>>

\* PushENIsToFrontOfDeleteQueue(pod, branchENIs): whatever became of the pod's
\* cache entry meanwhile, its interfaces are queued.
AnnotateFails(p) ==
  /\ jobPc[p] = "annotateFailed"
  /\ uidToBranchENIMap' = [uidToBranchENIMap EXCEPT ![p] = {}]
  /\ pushToFront(newENIs[p])
  /\ newENIs' = [newENIs EXCEPT ![p] = {}]
  /\ jobFails(p)
  /\ UNCHANGED <<trunk, usedVlanIds, deletionTimeStamp, deleteRetryCount, vlanID, workerVars, listVars,
                 initPods, deletedJobs, podVars, ec2Vars, leaked, crashes>>

-----------------------------------------------------------------------------
(***************************************************************************)
(* Deletion: the Deleted job, and the periodic ProcessDeleteQueue job.     *)
(***************************************************************************)

\* Without a trunk in the cache the job is dropped.
DeleteBranchUsedByPods(p) ==
  /\ p \in deletedJobs
  /\ deletedJobs' = deletedJobs \ {p}
  /\ \/ /\ trunk = "up"
        /\ pushToCoolDown(uidToBranchENIMap[p])
        /\ uidToBranchENIMap' = [uidToBranchENIMap EXCEPT ![p] = {}]
     \/ trunk # "up" /\ UNCHANGED <<uidToBranchENIMap, deleteQueue, deletionTimeStamp>>
  /\ UNCHANGED <<trunk, usedVlanIds, deleteRetryCount, createVars, workerVars, listVars, initPods, podVars,
                 ec2Vars, leaked, crashes>>

PopENIFromDeleteQueue ==
  /\ workerPc = "idle" /\ deleteQueue # <<>>
  /\ workerPc' = "popped" /\ workerENI' = Head(deleteQueue)
  /\ deleteQueue' = Tail(deleteQueue)
  /\ UNCHANGED <<trunk, usedVlanIds, uidToBranchENIMap, deletionTimeStamp, deleteRetryCount, createVars,
                 listVars, initPods, deletedJobs, podVars, ec2Vars, leaked, crashes>>

workerDone == workerPc' = "idle" /\ workerENI' = NoENI

\* Not cooled down: back to the front, and the pass ends.
StillCoolingDown ==
  /\ workerPc = "popped" /\ ~cooledDown(workerENI)
  /\ pushToFront({workerENI})
  /\ workerDone
  /\ UNCHANGED <<trunk, usedVlanIds, uidToBranchENIMap, deletionTimeStamp, deleteRetryCount, createVars,
                 listVars, initPods, deletedJobs, podVars, ec2Vars, leaked, crashes>>

\* deleteENI up to the EC2 answer.  Disassociation is attempted first and its
\* errors ignored; an interface EC2 no longer knows counts as deleted.
DeleteNetworkInterface ==
  /\ workerPc = "popped" /\ cooledDown(workerENI)
  /\ niStatus' = [niStatus EXCEPT ![workerENI] = "gone"]
  /\ leaked' = leaked \ {workerENI}
  /\ workerPc' = "deleted"
  /\ UNCHANGED <<trunkVars, createVars, workerENI, listVars, initPods, deletedJobs, podVars, niVlan, niSubnet, subnet, crashes>>

\* The call fails, or its answer is lost after EC2 deleted the interface: try
\* again, or forget the interface and keep its VLAN id once retries run out.
DeleteNetworkInterfaceFails ==
  /\ workerPc = "popped" /\ cooledDown(workerENI)
  /\ niStatus' \in {niStatus, [niStatus EXCEPT ![workerENI] = "gone"]}
  /\ deleteRetryCount' = [deleteRetryCount EXCEPT ![workerENI] = @ + 1]
  /\ \/ /\ deleteRetryCount[workerENI] + 1 >= MaxDeleteRetries
        /\ leaked' = (leaked \cup {workerENI}) \cap {e \in ENI : niStatus'[e] = "live"}
        /\ UNCHANGED deleteQueue
     \/ /\ deleteRetryCount[workerENI] + 1 < MaxDeleteRetries
        /\ pushToFront({workerENI})
        /\ UNCHANGED leaked
  /\ workerDone
  /\ UNCHANGED <<trunk, usedVlanIds, uidToBranchENIMap, deletionTimeStamp, createVars, listVars, initPods,
                 deletedJobs, podVars, niVlan, niSubnet, subnet, crashes>>

\* The end of deleteENI.
FreeVlanId ==
  /\ workerPc = "deleted"
  /\ IF niVlan[workerENI] # 0 THEN freeVlanId(niVlan[workerENI]) ELSE UNCHANGED usedVlanIds
  /\ workerDone
  /\ UNCHANGED <<trunk, uidToBranchENIMap, deleteQueue, deletionTimeStamp, deleteRetryCount, createVars,
                 listVars, initPods, deletedJobs, podVars, ec2Vars, leaked, crashes>>

-----------------------------------------------------------------------------
(***************************************************************************)
(* ReconcileNode: list the node's pods, then reclaim what no listed pod    *)
(* owns, under the lock.                                                   *)
(***************************************************************************)
ReconcileList ==
  /\ trunk = "up" /\ listPc = "idle"
  /\ listPc' = "listed"
  /\ podList' = {p \in Pod : podPhase[p] \in {"running", "completed"}}
  /\ UNCHANGED <<trunkVars, createVars, workerVars, initPods, deletedJobs, podVars, ec2Vars, leaked, crashes>>

\* Mutant: the listing is thrown away.
ReconcileNothing ==
  /\ listPc = "listed"
  /\ listPc' = "idle" /\ podList' = {}
  /\ UNCHANGED <<trunkVars, createVars, workerVars, initPods, deletedJobs, podVars, ec2Vars, leaked, crashes>>

Reconcile ==
  /\ listPc = "listed"
  /\ pushToCoolDown(UNION {uidToBranchENIMap[p] : p \in Pod \ podList})
  /\ uidToBranchENIMap' = [p \in Pod |-> IF p \in podList THEN uidToBranchENIMap[p] ELSE {}]
  /\ listPc' = "idle" /\ podList' = {}
  /\ UNCHANGED <<trunk, usedVlanIds, deleteRetryCount, createVars, workerVars, initPods, deletedJobs, podVars,
                 ec2Vars, leaked, crashes>>

-----------------------------------------------------------------------------
(***************************************************************************)
(* Start and restart of the controller.                                    *)
(***************************************************************************)

\* GetRunningPodsOnNode of InitResource; an initialization that fails later is
\* retried from here.
InitResource ==
  /\ trunk \in {"down", "listed"}
  /\ trunk' = "listed"
  /\ initPods' = {p \in Pod : podPhase[p] = "running"}
  /\ UNCHANGED <<usedVlanIds, uidToBranchENIMap, deleteQueue, deletionTimeStamp, deleteRetryCount, createVars,
                 workerVars, listVars, deletedJobs, podVars, ec2Vars, leaked, crashes>>

\* GetBranchNetworkInterface: the trunk's branches in the current subnet.
associatedBranchInterfaces == {e \in Live : niSubnet[e] = subnet}

\* Mutant: only the VLAN ids of interfaces that a pod owns are marked.
markedVlansOfOwned(found) ==
  {0} \cup {niVlan[e] : e \in found \cap UNION {annotation[p] : p \in initPods}}

\* markVlanAssigned, for owned and orphaned interfaces alike.
markedVlans(found) == {0} \cup {niVlan[e] : e \in found}

\* Interfaces named by a pod's annotation go to the cache, the others of the
\* trunk to the delete queue stamped now; the VLAN ids of both are marked.
InitTrunk ==
  /\ trunk = "listed"
  /\ LET found == associatedBranchInterfaces
         owned(p) == IF p \in initPods THEN annotation[p] \cap found ELSE {}
         orphans == found \ UNION {owned(p) : p \in Pod}
     IN  /\ uidToBranchENIMap' = [p \in Pod |-> owned(p)]
         /\ usedVlanIds' = markedVlans(found)
         /\ deleteQueue' \in SetToSeqs(orphans)
         /\ deletionTimeStamp' = [e \in ENI |-> IF e \in orphans THEN 0 ELSE NoTime]
         /\ leaked' = Live \ found
  /\ deleteRetryCount' = [e \in ENI |-> 0]
  /\ trunk' = "up"
  /\ initPods' = {}
  /\ UNCHANGED <<createVars, workerVars, listVars, deletedJobs, podVars, ec2Vars, crashes>>

\* The process dies with all its memory and jobs.  Its successor lists the pods:
\* those without an annotation get a create job, completed ones a Deleted job.
Crash ==
  /\ trunk = "up" /\ crashes < MaxCrashes
  /\ crashes' = crashes + 1
  /\ trunk' = "down"
  /\ usedVlanIds' = {0}
  /\ uidToBranchENIMap' = [p \in Pod |-> {}]
  /\ deleteQueue' = <<>>
  /\ deletionTimeStamp' = [e \in ENI |-> NoTime]
  /\ deleteRetryCount' = [e \in ENI |-> 0]
  /\ jobPc' = [p \in Pod |-> IF podPhase[p] = "running" /\ annotation[p] = {} THEN "queued" ELSE "none"]
  /\ newENIs' = [p \in Pod |-> {}]
  /\ vlanID' = [p \in Pod |-> 0]
  /\ workerDone
  /\ listPc' = "idle" /\ podList' = {}
  /\ deletedJobs' = {p \in Pod : podPhase[p] = "completed"}
  /\ UNCHANGED <<initPods, podVars, ec2Vars, leaked>>

-----------------------------------------------------------------------------
CreateStep(p) ==
  \/ CreateAdmit(p) \/ AssignVlanId(p)
  \/ CreateNetworkInterface(p) \/ CreateNetworkInterfaceFails(p)
  \/ AssociateBranchToTrunk(p) \/ CreateFails(p) \/ AddBranchToCache(p)
  \/ AnnotatePod(p) \/ AnnotatePodErrs(p) \/ AnnotateFails(p)

DeleteQueueStep ==
  \/ PopENIFromDeleteQueue \/ StillCoolingDown
  \/ DeleteNetworkInterface \/ DeleteNetworkInterfaceFails \/ FreeVlanId

Next ==
  \/ \E p \in Pod :
       \/ PodScheduled(p) \/ PodUpdated(p)
       \/ \E phase \in {"completed", "gone"} : PodStops(p, phase)
       \/ CreateFetch(p) \/ CreateStep(p) \/ DeleteBranchUsedByPods(p)
  \/ DeleteQueueStep
  \/ ReconcileList \/ Reconcile
  \/ InitResource \/ InitTrunk \/ Crash
  \/ SubnetChange \/ Tick

Spec == Init /\ [][Next]_vars

(***************************************************************************)
(* The worker pool keeps running the jobs it holds, the delete-queue job   *)
(* requeues itself every 30 seconds, nodes are reconciled periodically and *)
(* time passes.  No call of the environment is assumed to succeed.         *)
(***************************************************************************)
Fairness ==
  /\ \A p \in Pod : WF_vars(CreateStep(p)) /\ WF_vars(DeleteBranchUsedByPods(p))
  /\ WF_vars(DeleteQueueStep)
  /\ WF_vars(ReconcileList) /\ WF_vars(Reconcile)
  /\ WF_vars(InitResource) /\ WF_vars(InitTrunk)
  /\ WF_vars(Tick)

FairSpec == Spec /\ Fairness

-----------------------------------------------------------------------------
(***************************************************************************)
(* Properties.                                                             *)
(***************************************************************************)

\* No two existing interfaces of the trunk carry the same VLAN id, and no id
\* that one of them carries is free for assignVlanId to hand out again.
VlanExclusive ==
  /\ \A e, f \in Live : niVlan[e] = niVlan[f] => e = f
  /\ trunk = "up" => \A e \in Live : niVlan[e] \in usedVlanIds

\* Every existing interface is somewhere the controller will find it (a create
\* job's hands, the cache, the delete queue, the delete worker's hands) unless
\* it ran out of delete retries, was created by a call whose answer was lost or
\* is invisible in another subnet.
NoUnaccountedENI ==
  trunk = "up" =>
    \A e \in Live \ leaked :
      InMemory(e) \/ e \in Range(deleteQueue) \/ (workerPc = "popped" /\ workerENI = e)

\* An interface announced in a pod's annotation is deleted only after the pod
\* has been stopped for longer than the cool-down period.
NoEarlyDeletion ==
  \A p \in Pod : \A e \in annotation[p] : niStatus[e] = "gone" => stoppedFor[p] > CoolDownPeriod

InUse(e) == \E p \in Pod : e \in annotation[p] /\ podPhase[p] # "gone"

\* Whatever fails in between, an interface that no existing pod uses is in the
\* end deleted, put to use or given up on after MaxDeleteRetries attempts.
UnusedENIReclaimed ==
  \A e \in ENI : (e \in Live /\ ~InUse(e)) ~> (e \notin Live \/ e \in leaked \/ InUse(e))
=============================================================================
