# A TLA+ model of the Amazon VPC resource controller for Kubernetes

The controller gives pods their own VPC resources. For *security groups for
pods* it creates one **branch network interface** per pod, attached with a VLAN
id to the node's **trunk** interface. For *Windows nodes* it keeps a **warm pool**
of secondary IPv4 addresses or /28 prefixes per node and hands addresses to
pods. Both are bookkeeping problems over three parties that fail separately:
the controller's memory, the Kubernetes API server and EC2.

This directory holds TLA+ modules translated from the Go source, TLC
configurations for small instances, and TLAPS proofs for all instances.
`PROJECT.json` maps every definition to the source lines it stands for.

## Inventory

| Component | State it keeps | Operations | Hard because | Correct when |
|---|---|---|---|---|
| trunk ENI (`pkg/provider/branch/trunk`) | VLAN ids in use, pod to branch interfaces, delete queue with time stamps and retry counts | create and associate, push to cool down, delete cooled down, reconcile, rebuild from EC2 tags | one lock, but EC2 calls happen outside of it; several jobs hold the same interface | a VLAN id belongs to one interface; no interface is lost; none is deleted under a pod |
| branch provider (`pkg/provider/branch`) | trunk of each node | create and annotate, delete, process queue, reconcile node, delayed node deletion | jobs of one pod and of one node run concurrently | a pod's annotation names interfaces that exist |
| warm pool (`pkg/pool`) | used, warm, cooling addresses per group (interface or prefix), pending counters, re-sync flag | assign, free, process cool down, reconcile, update with a job's result, re-sync | jobs answer late, fail in part, and the pool changes meanwhile | an address is in one place; counters equal the jobs under way |
| IP and prefix providers, ENI manager (`pkg/provider/ip`, `pkg/provider/prefix`) | pool and ENI manager of each node, attached interfaces | init from EC2, create, delete, re-sync jobs | partial success, lost answers | the pool and EC2 agree once nothing is pending |
| warm and on-demand handlers (`pkg/handler`) | none | assign, annotate, free; submit jobs | annotation may fail after the assignment | no address is announced twice |
| worker (`pkg/worker`) | rate limited queue | submit, process, retry, give up | deduplication of equal jobs, bounded retries | a job never runs twice at once |
| node manager, node (`pkg/node`) | nodes by name, ready and managed flags | add, update, delete; asynchronous init, update, delete | the asynchronous part refers to a node by name or pointer | a node that exists is in the end ready or retried |
| pod and custom controller (`controllers/core`, `controllers/custom`) | pods in the data store | reconcile, requeue until the node is ready | events of a recreated pod with the same name | every pod gets its handler's create and delete |
| CNINode controller, leaked resource cleaner (`controllers/crds`, `pkg/aws/ec2/api/cleanup`) | interfaces seen available in the last cycle | two-cycle deletion, finalizer | an interface just created looks leaked | only leaked interfaces are deleted |
| ConfigMap, node, deployment controllers, conditions | feature flags | switch Windows IPAM, prefix delegation | flags change while nodes are managed | the node's pools follow the flags |
| EC2 instance, instance limits (`pkg/aws/ec2`, `pkg/aws/vpc`) | device indexes in use, current subnet and security groups; a table of 1423 instance types | load, choose an index, update the subnet | several network cards, updates that fail half way | the trunk's index is free, capacity and VLAN ids agree |
| webhooks | none | admit, mutate | | pure decisions |
| EC2 wrapper, Kubernetes wrapper, metrics, main | | I/O | | not modelled |

Components interact by calls into the provider (under no lock), by jobs in the
worker queues, by the pod's annotation in the API server, and by the tags of
network interfaces in EC2, which are all that survives a restart.

## Modules

| Module | Models | Used by |
|---|---|---|
| `TrunkENI` | trunk ENI, branch provider, several pods of one node | `MCTrunkENI`, `TrunkENIProofs`, `TrunkENILeakProofs` |
| `WarmPool` | warm pool, address and prefix providers, warm handler | `MCWarmPool`, `WarmPoolProofs`, `WarmPoolSafetyProofs` |
| `NodeView` | abstract: what pods see of a node | implemented by `NodeManager`, part of `PodPipeline` |
| `NodeManager` | node manager, node, node and ConfigMap controllers | `MCNodeManager`, `NodeManagerProofs` |
| `Limits`, `NodeCapacity` | instance limits, EC2 instance, capacity, subnet | `MCNodeCapacity`, `NodeCapacityProofs` |
| `PodPipeline` | custom and pod controller, worker queue, webhooks, annotation | `MCPodPipeline`, `PodPipelineProofs` |
| `ENICleanup` | EC2 helper, leaked resource cleaners, CNINode controller | `MCENICleanup`, `ENICleanupProofs` |

### `TrunkENI`: the trunk interface of one node

*State.* `usedVlanIds`, `uidToBranchENIMap`, `deleteQueue`, `deletionTimeStamp`
and `deleteRetryCount` are the fields of `trunkENI` and `ENIDetails`; `trunk`
says whether the trunk is in the provider's cache. `jobPc`, `newENIs`, `vlanID`
(per pod), `workerPc`, `workerENI`, `listPc`, `podList` and `initPods` are the
local variables of jobs under way. `podPhase`, `annotation` are the API server,
`niStatus`, `niVlan`, `niSubnet`, `subnet` EC2 and the instance. `stoppedFor` and
`leaked` are history.

*Actions.* Each is one critical section of `trunkENI.lock` or one call to EC2
or the API server, so that every interleaving of goroutines is a behaviour.

| Actions | Code |
|---|---|
| `PodScheduled`, `PodUpdated`, `PodStops` | pod events and the jobs they submit |
| `CreateFetch`, `CreateAdmit`, `AssignVlanId`, `CreateNetworkInterface[Fails]`, `AssociateBranchToTrunk`, `CreateFails`, `AddBranchToCache`, `AnnotatePod`, `AnnotatePodErrs`, `AnnotateFails` | `CreateAndAnnotateResources` and `CreateAndAssociateBranchENIs` |
| `DeleteBranchUsedByPods` | the Deleted job |
| `PopENIFromDeleteQueue`, `StillCoolingDown`, `DeleteNetworkInterface[Fails]`, `FreeVlanId` | `DeleteCooledDownENIs` and `deleteENI` |
| `ReconcileList`, `Reconcile` | `ReconcileNode` |
| `InitResource`, `InitTrunk`, `Crash` | start, and restart with loss of all memory |
| `SubnetChange`, `Tick` | custom networking, time |

*Abstractions.* Interfaces and pods are model values, EC2 never reuses an
interface id, and time is counted in ticks and saturates once a cool-down is
over. Disassociation is folded into `DeleteNetworkInterface`, since its errors
are ignored. Retries of a job are not counted: at any failure it is queued
again or dropped. The order in which the interfaces of one pod are queued is
left open.

*Faults.* EC2 and the API server may refuse any call. What else the environment
does is a constant, a subset of: `StopDuringCreate` (a pod completes or is
deleted during its create job), `ArriveDuringList` (a pod arrives between
`ReconcileNode`'s listing and its use), `LostCreate` and `LostAnnotate` (the call
takes effect but returns an error), `SubnetChange`. Deletions whose answer is
lost are always possible.

*Properties.*

- `VlanExclusive`: no two existing interfaces carry one VLAN id, and no id in
  use is free. The code's comment on `CreateAndAnnotateResources` makes it the
  caller's duty not to run two jobs of one pod concurrently; under that
  contract the property holds (`trunk_contract`, and a theorem). The callers
  do not keep the contract: see *Findings*.
- `NoUnaccountedENI`: every existing interface is where the controller will
  find it, apart from those in `leaked` (retries exhausted, create answer lost,
  invisible in another subnet).
- `NoEarlyDeletion`: an announced interface is deleted only when its pod has been
  stopped for more than the cool-down period.
- `UnusedENIReclaimed`: an interface no pod uses is in the end deleted.

### `WarmPool`: the warm pool of one Windows node

*State.* `usedResources`, `warmResources`, `coolDownQueue`, `pendingCreate`,
`pendingDelete`, `reSyncRequired` are the fields of `pool`; `draining` says that
`warmPoolConfig` is the empty one; `pool` whether the provider has the node.
`jobs` are the jobs in the work queue or under way, with their answers;
`handlerPc`, `resID`, `deleteEvents`, `initPods` the local variables of handlers and
of `InitResource`. `podPhase`, `annotation` are the API server, `upstream` EC2.
`stoppedFor`, `crashes` and `outdated` are history. A resource is a group (what EC2 assigns:
an address or a prefix), the spelling of its name (with or without the subnet
mask) and its index in the group; `isPDPool` selects one of the two providers.

| Actions | Code |
|---|---|
| `PodScheduled`, `PodStops`, `Tick`, `Crash` | the cluster, time, restarts |
| `HandleCreate`, `AssignResource[Fails]`, `AnnotatePod[Fails]` | `warmResourceHandler.HandleCreate`, `pool.AssignResource` |
| `HandleDelete` with `FreeResource` | `warmResourceHandler.HandleDelete`, `pool.FreeResource` |
| `ReconcilePool` (`RequestReSync`, `RequestCreate`, `RequestDelete`) | `pool.ReconcilePool` with both deviation formulas |
| `CreateIPV4Resource`, `DeleteIPV4Resource`, `UpdatePool`, `ReSyncFetch`, `ReSync` | the jobs of both providers, the ENI manager, the pool's part |
| `ProcessCoolDownQueue`, `SetConfig` | the delete-queue job, `SetToDraining`, `SetToActive` |
| `InitResource`, `PutPool` | the providers' `InitResource`, before and after the pod listing |

*Abstractions.* Each action is a critical section of `pool.lock`, the EC2 part of a
job (under `eniManager.lock`), or one API server call. `ReconcilePool` is a step of
its own, enabled whenever the pool exists: besides its callers in the code, every
event of the node calls it. The lists of a group are bags: which of its
resources is handed out first is left open. EC2 assigns any set of groups within
the limit and the manager may return fewer than were assigned, which covers the
distribution over interfaces and its early returns. `prefixAvailable` only
changes a retry interval and is left out, `InsufficientCidrBlocks` is a successful
job that creates nothing. The listing of pods at a restart is up to date.
Answers of the API server and of unassignments are not lost.

*Faults*: `UnassignFails` (EC2 refuses to unassign), `SetConfig`, `PodCompletes`
(a pod may complete before it is deleted, so that `HandleDelete` sees it twice).

*Re-syncs.* While a re-sync is required, every `ReconcilePool` returns one more job
(`RequestReSync`), so that several list EC2's resources side by side. The first to
be applied supersedes the others (`reSyncDone`), which the test at `pool.go:138`
makes end without effect: without it (the mutant `ReSyncAlways`) an old listing is
applied. The test is one of a flag, though. If a re-sync is required again in the
meantime, a superseded job is taken for the new one, and the listing it brings may
no longer hold (`listingHolds`); that history is `outdated`. The four safety properties are
promised until then, see *Findings*.

*Properties.*

- `AddressExclusive`: no address is twice among used, warm, cooling resources and
  the results of jobs, whatever it is called.
- `NoEarlyReuse`: an announced address goes to another pod only after its pod has
  been stopped for the cool-down period (after a restart: has been stopped).
- `AnnouncedExists`: what a running pod was told to use is assigned to its node.
- `PendingAccounted`: the pending counters are the sum of the jobs under way, and
  the pool never exceeds the interface's capacity, which it tests by equality.
- `StoppedPodReleased`: a deleted pod's address leaves the used resources and the
  cool-down queue.

### `NodeView` and `NodeManager`: the life of a node name

`NodeView` is what pods rely on: `GetNode` answers that a node is unknown,
unmanaged, initializing or ready, and the answer changes only along a few steps.
`NodeManager` implements it (`ViewSpec`, with `view` as the refinement mapping), and
`PodPipeline` uses `NodeView` in place of the node manager.

*State.* `registered`, `trunkEnabled`, `windowsIPAM`, `os`, `autoCompute`, `capacity` are the
cluster; `nodePc`, `configPc` the calls the two reconcilers are in; `dataStore`, `node` the
manager's map and its node objects; `jobs`, `running`, `removing` its asynchronous
jobs, waiting, holding their node's lock, and about to remove a failed node; `cache` and
`deleteNodeJobs` the providers' entries under the name and the branch provider's
delayed job. A node object is made anew each time the node is added or changes
between managed and unmanaged, so that jobs of several objects of one name run
at once: that is where the difficulties are.

| Actions | Code |
|---|---|
| `NodeRegisters`, `NodeRemoved`, `NodeUpdated`, `ConfigMapUpdated` | the cluster |
| `Reconcile`, `AddNode`, `UpdateNode`, `DeleteNode` | `NodeReconciler.Reconcile` and the manager's calls, each under its lock |
| `ConfigMapReconcile`, `UpdateNodesOnConfigMapChanges` | `ConfigMapReconciler.Reconcile` |
| `InitResources`, `InitResource[Fails]`, `InitRollsBack`, `InitFailed`, `RemoveNodeSafe`, `InitDone` | the Init job, one provider per step |
| `UpdateResources`; `DeleteResources`, `DeInitResource`, `DeleteDone` | the Update and Delete jobs |
| `NodeDeleteDelayElapses`, `DeleteNodeJob` | the branch provider's delayed job |

*Abstractions.* The trunk label and the CNINode feature are one flag. Heartbeats
and the resync let a registered node be reconciled at any time. The manager's
read and write of its data store are one step under its lock. Deletion from EC2
within `DeleteNodeJob` is in `PodPipeline`.

*Properties.*

- `ReadyHasResources`: a ready node has the entry of its own instance at every
  provider that supports it.
- `NothingLeftBehind`: when all jobs of the name are done and no node is managed, no
  provider has an entry left.
- `NodeSettles`: once the cluster stops changing, so does the data store, in
  agreement with it, whatever failed before.
- `TornDown`: a node that is gone or deselected in the end leaves no entries behind.
- `ViewSpec`: the refinement. A ready node is never initialized again in place.
- `TrunkNeverMissing`: what a comment says of a ready node; violated, see *Findings*.

`ReadyHasResources`, `NothingLeftBehind` and `TornDown` exclude two histories in which they fail: a
node that came back before its predecessor's teardown ended (`overlap`, the
finding) and a Delete job that took the node's lock before the Init job
(`overtaken`).

### `Limits` and `NodeCapacity`: what an instance can carry

`Limits` is the table of `pkg/aws/vpc/limits.go` as data: one definition per family,
the set of the limits its instance types have. It is by far the largest file of
the repository, and most of the mapped lines are its rows; the other modules
cover the program.

`NodeCapacity` takes its instance type from the whole table. *State*: the interfaces
attached on each network card, the instance object (`deviceIndexes`, `current` subnet
with its CIDR block and security groups, the stored `spec`), the trunk's branch
interfaces by number, the flags each address provider remembers (`prevPD`) with the
pool that is `active`, and the advertised `capacity`. Branch interfaces are in the cache
(`branches`), the delete queue (`deleting`), the hand of the delete worker (`popped`) or
held by the creations under way (`creating` many of them, `fresh` interfaces); `used`
counts the VLAN ids. `forgotten` (interfaces given up, whose ids nobody frees) and
`late` (IPAMD attached after the instance was loaded) are history.
*Actions*: `LoadDetails`, `InitTrunk`, `AttachTrunk`; `AdmitBranch` (the one check of the
limit), `AssignVlanId` for each interface of the loop, `CreationFails`, `AssociationFails`,
`CacheBranches`; `PodDeleted`, `popENIFromDeleteQueue`, `DeleteCooledDownENIs` (deleted,
pushed back, or forgotten); `InitPools`, `UpdateResources`, `UpdateResourceCapacity` per
provider, `UpdateCurrentSubnetAndCidrBlock`, and IPAMD, the ConfigMap, the ENIConfig and
the kubelet around them.

*Abstractions.* A creation ends at the cache: the annotation is `TrunkENI`'s, and so is
an interface that is queued twice (its finding), which counts once here. How often
a deletion is tried is left open. `Workers` are the workers of the branch provider (30,
`pkg/config/loader.go:29`), which creations and the delete queues' jobs share.

- `NoPanic`: loading never indexes the slice of device indexes out of bounds.
- `TrunkIndexValid`: the chosen index exists on the default card, and is taken only
  if somebody attached after the instance was loaded.
- `VlanForCapacity`: a creation runs out of VLAN ids only where the interfaces that
  hold one, those under way, in the worker's hand and forgotten included, are as
  many as the node's capacity, for every type (120 ids; the largest branch limit is
  120). An id is lost with a forgotten interface, and in no other way.
- `LimitRespected`: the branch limit is exceeded by at most `Workers * EniCount - 1`
  interfaces. It can be exceeded: one check covers all interfaces of a pod, no
  creation counts those of another, and an interface whose deletion is under way is
  not counted although it may come back to the queue.
- `SubnetConsistent`: subnet and CIDR block always agree, and the security groups
  with them unless the last update failed half way.
- `CapacitySettles`: after changes and failures stop, capacity, active pool and
  subnet are those configured.

### `PodPipeline`: from a pod's event to its interface

One pod name through its incarnations: the data store, the requests and the
create job are keyed by the name, the trunk's cache and the Deleted job by the UID.

*State.* `api` is the pod at the API server, `stream` the watch events not processed
yet, `store` the data store's copy, `byName` and `deleted` the requests of the custom
controller, `jobs`, `job`, `again`, `retries` the on-demand worker queue, `view` the node
(an instance of `NodeView`), `listed`, `trunk`, `uidToBranchENIMap`, `deleteQueue` the
provider, `live` EC2. `foreign` and `stolen` are history: the pod was patched by the job of
a namesake before it, or lost its interface to `ReconcileNode` before the data store
knew it.

| Actions | Code |
|---|---|
| `PodCreated`, `PodUpdated`, `PodDeleted` | users, scheduler and kubelet behind the webhooks |
| `WatchGap`, `Process`, `ProcessFails`, `Resync` | the custom controller's list, watch and delta queue |
| `Reconcile`, `ReconcileDeleted` | `PodReconciler.Reconcile` |
| `QueueAgain`, `RunCreateJob`, `GetPodFromAPIServer`, `CreateAndAssociateBranchENIs`, `addBranchToCache`, `AnnotatePod`, `Patch` | the worker and the create job |
| `DeleteBranchUsedByPods`, `DeleteCooledDownENIs`, `ReconcileNode` | taking interfaces back |
| `NodeSeen`, `AddNode`, `InitResource`, `InitTrunk`, `DeleteNode`, `DeleteAllBranchENIs`, `removeTrunkFromCache` | the node |

*Abstractions.* One interface per pod; VLAN ids and time are in `TrunkENI`. One
worker runs create jobs of the name, which the queue guarantees. Interface names
are reused once nobody remembers them; a guard on `ENI \ remembered` bounds them, and
five are more than the run ever remembers. A name may be used again before its
predecessor's deletion is seen and between the check and the patch of an annotate
call, and a job's EC2 calls may be faster than the watch; `MaxPending` bounds how
many events the controller is behind. `DeleteAllBranchENIs` walks the trunk's map
and queue without the lock, one EC2 call at a time, beside the jobs; what it failed
to delete or did not meet is dropped with the trunk (`removeTrunkFromCache`).

- `AnnotatedInterfaceOwned`: a running pod's annotation names the interface the
  trunk holds for that very UID; it exists and is not waiting for deletion. Exactly
  the pods in `foreign` and `stolen` are excepted, see *Findings*.
- `Reclaimed`: in the end the trunk has no interface but that of the pod the data
  store lists. It speaks of a trunk the provider has; what a removed node leaves
  behind is for `ENICleanup`.
- `Annotated`: a running pod that asked for an interface has its annotation in the
  end, although its job may be dropped and its events come before its node.

### `ENICleanup`: interfaces nobody uses, and the CNINode

*State.* `status`, `deviceIndex`, `onTermination`, `instance` are EC2. `call` has, for each Init
job of the node's name, the EC2 call it makes next, its interface, the device indexes
that were unused when it loaded the instance, and whether its Node object is gone: a
removed node's job goes on beside that of its successor. `trunkENIId` is the trunk in
use, `availableENIs`, `cycle`, `nodeCleaner` the two cleaners,
`node`, `adding`, `cniNode`, `reconcile` the Node, the CNINode and its reconciler with the
object it read and the one it writes, `lost` that the controller gave up on the
CNINode, and `displaced` history (below). *Actions*: `LoadDetails`, `InitTrunk` (which describes
the trunk), `CreateNetworkInterface` and one action for each further EC2 call of
`CreateAndAttachNetworkInterface` and its roll-back; `DescribeNetworkInterfaces`,
`DeleteLeakedResources`, `UpdateAvailableENIsIfNeeded` of a cycle; `NodeTerminationCleaner`;
`CreateCNINodeIfNotExisting` of the node manager; `Reconcile`, `Patch`, `RemoveFinalizer`,
`WaitTillCNINodeDeleted`, `CreateCNINodeFromObj`.

*Abstractions.* A helper's call with its retries is one step that succeeds or
fails; a create or attach call may also succeed and answer with an error. EC2 refuses
to attach at an occupied index. Only trunks occupy the last indexes: IPAMD takes the
first, the controller the highest unused (`instance.go:252`). A call of the helper ends
within two cycles of the cleaner, 30 minutes apart (`longInterval`). A CNINode of another controller is skipped by the code and not modelled.

- `OneTrunk`: an instance never has two trunks, whichever calls failed and however the
  jobs of a removed and a re-added node overlap. The exception is `displaced`: a job
  loaded the instance while the other's trunk was attached and described none, since
  roll-back had detached it; its free index is another one, and EC2 refuses neither.
- `CreatorKeepsInterface`: the cleaner does not take an interface from the helper
  that is creating it.
- `LeaksCollected`: what is not attached is deleted in the end.
- `CNINodeRestored`: a node that stays has a usable CNINode again and again, unless
  the controller gave up, which the code accepts.

### The proof modules

See *Proofs*.

## Runs

| Run | Bounds | Shows |
|---|---|---|
| `trunk_contract` | 2 pods, 3 interfaces, 2 VLAN ids, 2 delete attempts, 1 restart, lost annotate answers | `TypeOK`, `VlanExclusive`, `NoUnaccountedENI` |
| `trunk_env` | 1 pod, 2 interfaces, 1 VLAN id, 2 subnets, 1 restart, stops during creation, lost create answers, subnet changes, under `FairSpec` | `NoUnaccountedENI`, `NoEarlyDeletion`, `UnusedENIReclaimed` |
| `trunk_double_free` | 2 pods, 2 interfaces, stops at any time | violation of `VlanExclusive` |
| `pool_prefix` | 2 pods, 2 prefixes of 2 addresses, capacity 4, 1 job at a time, failing unassignments, draining, pods deleted without completing | the four safety properties |
| `pool_secondary` | 2 pods, 2 addresses, capacity 2, 2 jobs at a time (two re-syncs too), 1 restart, pods that complete | `TypeOK` and the four safety properties |
| `pool_live` | 2 pods, 1 address, 1 job, draining, under `FairSpec` | `StoppedPodReleased` |
| `pool_mask` | 2 pods, 2 addresses, failing unassignments | violation of `AddressExclusive` |
| `node_manager` | 2 instances, 2 changes of the cluster, 1 failure, both operating systems, under `FairSpec` | `TypeOK`, `ReadyHasResources`, `NothingLeftBehind`, `NodeSettles`, `TornDown`, `ViewSpec` |
| `node_readd` | the same without failures | violation of `TrunkNeverMissing` |
| `node_capacity` | every instance type, 2 workers, 2 interfaces per pod, 2 changes, 1 failure, under `FairSpec` | `TypeOK`, `NoPanic`, `TrunkIndexValid`, `VlanForCapacity`, `LimitRespected`, `SubnetConsistent`, `CapacitySettles` |
| `pod_pipeline` | 2 incarnations, branch limit 1, 1 retry, 1 failure, 2 events behind, under `FairSpec` | `TypeOK`, `AnnotatedInterfaceOwned`, `Reclaimed`, `Annotated` |
| `eni_cleanup` | 2 interfaces, 2 overlapping Init jobs, 2 changes, 1 failure, under `FairSpec` | `TypeOK`, `OneTrunk`, `CreatorKeepsInterface`, `LeaksCollected`, `CNINodeRestored` |

Two pods are enough for one pod's interface to take another's VLAN id, a third
interface (or a restart) for that id to be handed out while in use; with two
VLAN ids beside the reserved 0 the allocator wraps round. Two delete attempts
distinguish retrying from giving up. A pod gets one interface in the runs; that none
of several is lost is `NoInterfaceLost`, a theorem for every number. Pods and interfaces are symmetric in the
safety runs, and a view forgets details of interfaces that nobody can reach any
more. The runs of the trunk and the pool check deadlock; the other models come to
rest when their bounded changes are used up and nothing is left to do, which is
where the system waits for the next event.

In the pool, two pods compete for an address; two prefixes of two addresses let
one prefix be in use and the other be deleted, and make `assignable` choose the
fuller one. Two secondary addresses fill the interface, and are unassigned and
assigned again. There a second job slot lets a creation, a deletion and a re-sync
overlap, and two re-syncs. Pods, groups and job slots are symmetric in the safety
runs, and the constraint `ReSyncsCurrent` follows no behaviour beyond an outdated
re-sync, where the properties promise nothing. More jobs, addresses and combined
faults are in the proofs.

For a node, two changes give removal and return under the same name, or two
switches of a flag, and one failure may hit any call between; every change and
failure makes at most one node object, hence `MaxObjects`. An initial state may
already hold the node, so that neither change is spent on it. In `NodeCapacity` two
changes let two creations overlap at the limit and a flag flip back, two workers and
two interfaces per pod make the bound on the excess more than one; the initial
states hold none, all but one or all of the branches, so that the limits are
met. In `PodPipeline` the second incarnation meets what the first left behind, and
one failure is an interrupted watch, a refused call or a dropped job, with
`maxRetriesOnErr` 1 enough to give up on; five interface names are enough for those
remembered at once, and a controller two events behind misses a whole deletion and
recreation. Safety was also checked without that bound (15.7 million states). In
`ENICleanup` a removed node that registers again takes two changes, and its job meets
its predecessor's; a second interface is made when the first was rolled back or
leaked. Safety was also checked with a third change (4.5 million states).

*Fairness* (`FairSpec`): the worker pool keeps running the steps of a job it
has started, runs Deleted jobs, requeues the delete-queue job every 30 seconds,
reconciles nodes periodically, retries initialization, and time passes. No call
is assumed to succeed, no pod to stop, and fetching a create job is not fair.
For the pool: handlers that have started go on, deletion events are processed,
jobs run, the pool is reconciled, and the delete-queue job requeues itself after
every cool-down period. No pod's event is assumed to be handled successfully.
For the node and its capacity: reconcilers and workers run, a registered node is
requested again and again (kubelet heartbeats and the 30 minute resync of
`main.go`), delays elapse. For the pod: the watch delivers or is listed again, the
data store is resynced, both queues are served, the node manager finishes what it
began (`NodeManager` shows that it does), nodes are reconciled for leaked interfaces.
For the cleaners: the cluster's cycle repeats, the reconciler runs, the garbage
collector collects, a failed `InitTrunk` is retried. In all of them failures are
bounded: the properties are about what happens after the last one, and nothing
obliges the cluster to change.

## Findings

- **`trunk_double_free`**: a pod is deleted after its interfaces entered the
  cache and before the annotation is refused. The Deleted job queues the
  interfaces; the failed annotation queues them again. The first pass deletes an
  interface and frees its VLAN id, another pod gets the id, and the second pass
  frees it under that pod, although `trunk.go:724` says of `freeVlanId` that it "frees a
  vlan ID currently used by a network interface". The comment at `provider.go:311`
  requires callers to prevent it; the worker queue only keeps *equal* jobs apart, and
  a create and a Deleted job are not equal.
- **`pool_mask`**: `DeleteIPV4Resource` returns the addresses it failed to unassign
  without their mask. They become warm under that name, the re-sync adds the
  masked name, and two pods may get one address.
- **`node_readd`**: the branch provider waits a minute before it deletes a removed
  node's interfaces, by name. A node that comes back within the minute is
  initialized (the old trunk is kept, `addTrunkToCache`) and ready when the job runs
  and takes its trunk away; no later event initializes it again. A comment at the
  create job says that a ready node without a trunk never happens.

What else the models show, without a run of its own:

- *A deletion dropped during initialization.* After a restart, `InitResource` of the
  address providers lists the running pods; one of them is deleted, and its event
  is processed while the node has no pool: `HandleDelete` drops it. Then the pool
  appears with the pod's address in use, for ever, although
  `pod_controller.go:103` wants pod events processed after the node's initialization.
  `MaxCrashes = 1` in `pool_live.cfg` shows it.
- *A stale re-sync.* Of two re-sync jobs, the second has listed EC2's addresses before
  the first is applied; the pool then deletes addresses, and a failure requires a
  re-sync once more: the old listing brings deleted addresses back, and a pod may be
  told to use one. The runs reach the state (`outdated`) and promise nothing from
  there on.
- *A limit exceeded.* `canCreateMore` counts neither the creations under way nor the
  interface in the delete worker's hand, and is asked once for all interfaces of a
  pod; `LimitRespected` has the bound. A forgotten interface's VLAN id is never freed
  (`trunk.go:564`), so that ids can run out below the limit.
- *A namesake's annotation.* `AnnotatePod` compares the UID with the data store and
  patches by name. A pod created after the comparison, or of which the data store
  does not know yet, gets its predecessor's interface (`foreign`); a pod whose job is
  faster than the watch may be annotated with an interface the reconciliation
  already took back (`stolen`). The run takes these steps; `AnnotatedInterfaceOwned` excepts
  those pods and no others. A namesake that asked for no interface may be given one,
  since the create job fetches whatever pod has the name; `Reclaimed` says that it
  keeps it until it is deleted.
- *Two trunks.* The helper of a removed node and that of its successor may attach two
  trunks (`displaced`): TLC reaches it with three interfaces, four changes and one
  failure. Limits of EC2 itself on trunks per instance are not modelled.
- *A lost tombstone.* When the watch misses a deletion, `ConvertObject` refuses the
  tombstone and the pod stays in the data store, and with it its interface: the
  reconciliation at `trunk.go:373` only finds interfaces whose pod is not listed.
  `Reclaimed` is therefore stated for the pod the data store lists.
- *A CNINode owned by the past.* A CNINode recreated for a node that came back keeps
  the owner reference of the old Node object, is collected again and recreated
  again; `CNINodeRestored` asks for a usable one again and again, not for ever.
- *A forgotten label.* A CNINode reconciled while its node is not found loses its OS
  label, so that its finalizer starts no cleaner; the cluster's cleaner collects
  the interfaces (`LeaksCollected`).

## Proofs

TLC checks small instances; the theorems below hold for every value of the
constants: any number of pods, interfaces, addresses, instances, changes,
failures and restarts. They assume what the modules state of their constants
(`TrunkAssumption`, `PoolAssumption`, `NodeAssumption`, `CapacityAssumption`,
`PipelineAssumption`, `CleanupAssumption`: finite sets, bounds that are numbers,
names for nothing that are not names of something) and `LimitsAssumption`, the
few facts of the table of instance types that matter (limits are numbers, the
default network card exists and has at most as many indexes as there are
interfaces, no branch limit exceeds the VLAN ids), which TLC evaluates over the
whole table in `node_capacity`.

Each proof is an inductive invariant. The property itself is seldom one; what was
added says why the code is right, and was checked by TLC before it was proved.

**`TrunkENIProofs`, `TrunkENILeakProofs`**

- `TypeCorrect`: `Spec => []TypeOK`.
- `VlanExclusiveUnderContract`: `Spec => []VlanExclusive` if `Faults` is at most
  `{"LostAnnotate"}`. `VlanExclusive` alone is not inductive: a freed id must not
  be one that another interface carries, so that the proof needs to know that an
  interface is queued at most once. `ExclusiveInv` adds that (`PlaceInv`: the
  places an interface can be in are disjoint and the queue has no duplicates),
  what each program counter says of a job (`JobInv`), that a trunk under
  initialization has no jobs under way (`DownInv`), which interfaces annotations can
  name (`AnnotationInv`) and that the ids of everything held are distinct and
  marked (`VlanInv`).
- `NoInterfaceLost`: `Spec => []NoUnaccountedENI`, for all faults, from
  `AccountedInv`: a create job's interfaces are cached or in its hands until it
  queues them.
- `AnnouncedOutlivesPod`: `Spec => []NoEarlyDeletion` under `CoolDownContract`, that is
  without `LostAnnotate` and `ArriveDuringList`, each of which breaks it; pods that stop
  during creation, lost create answers, subnet changes and restarts are covered. The
  property only speaks of interfaces already deleted. `CoolDownInv` adds to `AccountedInv`
  what holds on their way there (`ClockInv`): an interface that a pod announces, or
  that its job is about to announce, is never in the delete queue unstamped and
  its stamp is never older than the pod's end. That needs to know that whoever
  stamps (the Deleted job, `Reconcile`, `InitTrunk`) does so for a pod that has stopped
  (`StopInv`) and that the unstamped ones of a failed job are no other pod's (`OwnerInv`).

**`WarmPoolProofs`**

- `TypeCorrect`: inductive as it stands, given that the counts are counts of finite
  sets (`CountType`) and that filtering and draining the cool-down queue leaves a
  queue (`PositionsType`).

**`WarmPoolSafetyProofs`**, under `Contract`: EC2 refuses to unassign prefixes only (a
refused unassignment of addresses breaks a property, in the run `pool_mask`).
Any number of re-syncs, restarts, changes of configuration and pods that complete
are covered. The invariant is `TypeOK /\ (PoolInv \/ outdated)`.

- `AddressesExclusive`: `Spec => []AddressExclusive`, `AnnouncedAddressesExist`:
  `Spec => []AnnouncedExists` and `PendingExact`: `Spec => []PendingAccounted`, all from `PoolInv`.
  None of the three is inductive without the others. `Apart`: a resource is in one
  place. `Whole`: the pool has all of a group's resources or none, so that its size
  is the number of its groups (`PoolSize`, a bijection each for the used, the cooling
  and the warm ones). `GroupInv`: the groups in a job's hands are assigned to the node
  and neither in the pool nor in another job's hands. `JobInv`: no pending job is
  empty, none returns more than it was submitted for, and while a re-sync job is
  current (not superseded) the flag is set and no job is pending, which is why its
  listing is up to date and takes nothing away; that rests on the counters, since a
  re-sync waits for both to be zero (`NonePending`). `CountInv`: the
  counters are multiples of a group and what the jobs have due, so that a create job
  within `canCreateUpto` is for at least one group (`CreateAmount`) and the tests by
  equality suffice. `DownInv` and `PodInv`: a running pod owns what it was told to use;
  without a pool, the annotations of running pods are distinct and assigned to the
  node, so that `PutPool` rebuilds the same ownership.
- `NoAddressReusedEarly`: `Spec => []NoEarlyReuse`, from `ReuseInv` besides: until a restart
  a pod that lost its address has been stopped for the cool-down period, or the
  address is in the queue with an age of at most the time the pod has been stopped.

**`NodeManagerProofs`**

- `TypeCorrect`, and `Refinement`: `Spec => ViewSpec`. A ready node would fall back to
  initializing if a Delete job cleared the flag of the object in the data store.
  `Departed` says that no Delete job is for that object; it is inductive with `Made`,
  that the data store and all jobs refer to objects made before, so that a new
  object is the subject of none.
- `ReadyNodeHasResources` and `TeardownComplete`: `ReadyHasResources` says nothing of
  the entries an initialization finds, `NothingLeftBehind` nothing of a node in
  between. `LifeInv` does: unless the name came back too early (`overlap`) or a Delete
  job overtook the Init job (`overtaken`), at most one object of the name is active,
  and it is `Waiting`, `Initializing`, `RollingBack`, `Serving`, `TearingDown` or `Down`, each
  with the entries that the providers then have.

**`NodeCapacityProofs`**, for every instance type of the table

- `TypeCorrect` from `Types`, which bounds the indexes in use by the card's limit and
  accounts for the VLAN ids: `used` is 1 (the reserved id) and the sum of `branches`,
  `deleting`, `popped`, `fresh` and `forgotten`.
- `NoIndexPanic` and `TrunkIndexIsValid` from `IndexInv`: until IPAMD attaches (`late`), a
  loaded instance knows every index taken on the default card and the one it chose is
  free.
- `BranchLimitRespected` from `AdmittedFits`: with the room for all that the creations under
  way may still make (`Reserved`), the node stays within the limit and the excess.
  `canCreateMore` says that `branches + deleting` is below the limit; the rest is room of
  creations and the interface in the delete worker's hand, each with a worker
  (`WorkersShared`).
- `VlanIdsSuffice`: an action property, from the accounting and `LimitsAssumption`. As an
  invariant of the state after the error it would be false: the interfaces may be
  deleted again while the error is remembered.
- `SubnetStaysConsistent`: inductive as it stands.

**`PodPipelineProofs`**

- `TypeCorrect`, with the facts on sequences the queues need (`AppendFacts`, `TailFacts`,
  `DropFacts`).
- `AnnotatedPodOwnsInterface`: `Spec => []AnnotatedInterfaceOwned`, for every bound and
  without further assumptions. `PipelineInv`: the API server has the latest
  incarnation, the watch and the data store may have earlier ones, and of the latest
  they never say that it is gone or completed when it is not (`PodInv`); a job works for
  an incarnation that was created (`JobOf`), and while it does the pod has no
  annotation (`AnnotationInv`); until the trunk is initialized every copy of the pod has
  the same annotation, so that `InitTrunk` rebuilds the right cache (`TrunkInv`); Deleted
  jobs are for earlier
  incarnations or a pod that ended, except those submitted before the node was
  known, which come before every create job (`JobInv`); the trunk's entries exist, are
  distinct and not queued for deletion (`ExclusiveInv`); the trunk holds the
  interface the job is about to annotate, and then the one annotated (`OwnedInv`).

**`ENICleanupProofs`**

- `TypeCorrect`.
- `OneTrunkAttached`: `Spec => []OneTrunk` from `OneTrunkInv`: attached trunks are at different
  indexes, and until a job is displaced all of them are at the last index, which every
  job about to create one loaded as unused.
- `CreatorKeepsItsInterface`: `Spec => CreatorKeepsInterface` from `KeepInv` and `OwnInterface`: while
  a cycle runs, no call's interface is one the cleaner remembers from the cycle
  before, all it remembers was made before the helper picked a new one, and no two
  calls have the same interface.

Only model-checked: liveness under fairness (`UnusedENIReclaimed`,
`StoppedPodReleased`, `NodeSettles`, `TornDown`, `CapacitySettles`, `Reclaimed`, `Annotated`,
`LeaksCollected`, `CNINodeRestored`), which is beyond the prover. Every safety property
that a run checks is also proved.

## Not modelled, and the plan

Not modelled: the AWS and Kubernetes client wrappers, metrics, health checks,
introspection, events and start-up (I/O and wiring); CRD types and generated code;
the node update webhook and the webhooks' part for Windows pods (decisions on one
request, without state); the ENI manager's choice among several interfaces;
parsing of the ConfigMap's warm targets and their distribution; an answer lost by
the API server or by an unassignment in `WarmPool`.

Beyond the prover: liveness, ENABLED and recursive definitions, which stay with TLC.
