---------------------------- MODULE NodeManager ----------------------------
(***************************************************************************)
(* The life of one node name: the node and ConfigMap controllers call the  *)
(* node manager, which keeps a node object in its data store and submits   *)
(* asynchronous jobs; the jobs initialize and tear down the providers'     *)
(* per-node resources (the trunk of the branch provider, the pools of the  *)
(* address and prefix providers).                                          *)
(*                                                                         *)
(* Source: controllers/core/node_controller.go, configmap_controller.go,   *)
(* pkg/node/manager/manager.go, pkg/node/node.go, and the InitResource,    *)
(* DeInitResource and DeleteNode methods of the providers.                 *)
(*                                                                         *)
(* Node names do not interact, so one is enough.  Everything but the lock  *)
(* of a node object is keyed by that name, while the objects are made anew *)
(* whenever the node is added or selected again: jobs of an old object run *)
(* beside those of its successor.                                          *)
(***************************************************************************)
EXTENDS Naturals, FiniteSets

CONSTANTS
  Instance,      \* EC2 instances that may register under the name
  firstInstance, \* the one that may be registered already when the controller starts
  NoInstance,
  MaxEvents,     \* bound on the changes of the cluster
  MaxFailures    \* bound on the failing calls

ASSUME NodeAssumption ==
  /\ NoInstance \notin Instance /\ firstInstance \in Instance
  /\ {MaxEvents, MaxFailures} \subseteq Nat

Provider == {"branch", "ip", "prefix"}
\* The first node, every change of the cluster and every failure make at most
\* one node object each.
MaxObjects == 1 + MaxEvents + MaxFailures
Object == 1 .. MaxObjects
None == 0

VARIABLES
  \* The cluster.
  os,             \* the operating system of the node, "linux" or "windows"
  autoCompute,    \* the node carries the compute-type label "auto"
  registered,     \* the instance of the Node object, NoInstance when there is none
  trunkEnabled,   \* the trunk label, or the CNINode feature SecurityGroupsForPods
  windowsIPAM,    \* what IsWindowsIPAMEnabled returns
  capacity,       \* the Node object advertises the resources
  \* The controllers' requests.
  podSynced,      \* hasDataStoreSynced
  nodeEvent, nodePc,        \* NodeReconciler: the queued request of a removed node, the call under way
  configEvent, configPc,    \* ConfigMapReconciler
  curWinIPAMEnabledCond,
  \* The node manager.
  dataStore,      \* the object under the node's name, None when there is none
  node,           \* the node objects
  created,        \* how many there are
  jobs,           \* submitted jobs that do not hold their node's lock yet
  running,        \* object -> the job that holds its lock
  removing,       \* objects whose failed Init job is about to call removeNodeSafe
  \* The providers.
  cache,            \* provider -> the instance of the entry under the node's name
  deleteNodeJobs,   \* the branch provider's DeleteNode job: "delayed", "queued" or both
  \* History.
  overlap,        \* a node object was made while jobs of an older one were pending
  overtaken,      \* a Delete job took its node's lock before the Init job did
  events, failures

cluster == <<os, autoCompute, registered, trunkEnabled, windowsIPAM>>
controllers == <<podSynced, nodeEvent, nodePc, configEvent, configPc, curWinIPAMEnabledCond>>
manager == <<dataStore, node, created, jobs>>
providers == <<cache, deleteNodeJobs>>
counters == <<events, failures>>
vars == <<cluster, capacity, controllers, manager, running, removing, providers, overlap, overtaken, counters>>

Idle == [op |-> "none", todo |-> {}, inited |-> {}, failed |-> FALSE]
Unmade == [managed |-> FALSE, ready |-> FALSE, loaded |-> FALSE, instance |-> NoInstance]

TypeOK ==
  /\ os \in {"linux", "windows"} /\ autoCompute \in BOOLEAN
  /\ registered \in Instance \cup {NoInstance}
  /\ {trunkEnabled, windowsIPAM, capacity} \subseteq BOOLEAN
  /\ {podSynced, nodeEvent, configEvent, curWinIPAMEnabledCond} \subseteq BOOLEAN
  /\ nodePc \in {"idle", "AddNode", "UpdateNode", "DeleteNode"}
  /\ configPc \in {"idle", "UpdateNode"}
  /\ dataStore \in Object \cup {None}
  /\ node \in [Object -> [managed : BOOLEAN, ready : BOOLEAN, loaded : BOOLEAN,
                          instance : Instance \cup {NoInstance}]]
  /\ created \in 0 .. MaxObjects
  /\ jobs \in SUBSET ({"Init", "Update", "Delete"} \X Object)
  /\ running \in [Object -> [op : {"none", "Init", "Delete"}, todo : SUBSET Provider,
                             inited : SUBSET Provider, failed : BOOLEAN]]
  /\ removing \in SUBSET Object
  /\ cache \in [Provider -> Instance \cup {NoInstance}]
  /\ deleteNodeJobs \in SUBSET {"delayed", "queued"}
  /\ {overlap, overtaken} \subseteq BOOLEAN
  /\ events \in 0 .. MaxEvents /\ failures \in 0 .. MaxFailures

\* The controller starts, or restarts, in a cluster that may hold the node
\* already.
Init ==
  /\ os \in {"linux", "windows"} /\ autoCompute \in BOOLEAN
  /\ registered \in {firstInstance, NoInstance} /\ trunkEnabled \in {FALSE, registered # NoInstance}
  /\ windowsIPAM = FALSE /\ capacity = FALSE
  /\ podSynced = FALSE
  /\ nodeEvent = FALSE /\ nodePc = "idle"
  /\ configEvent = FALSE /\ configPc = "idle" /\ curWinIPAMEnabledCond = FALSE
  /\ dataStore = None /\ node = [o \in Object |-> Unmade] /\ created = 0
  /\ jobs = {} /\ running = [o \in Object |-> Idle] /\ removing = {}
  /\ cache = [p \in Provider |-> NoInstance] /\ deleteNodeJobs = {}
  /\ overlap = FALSE /\ overtaken = FALSE
  /\ events = 0 /\ failures = 0

-----------------------------------------------------------------------------
(***************************************************************************)
(* The cluster.  Heartbeats and the resync make a request for a registered *)
(* node possible at any time; only the removal of a node needs an event of *)
(* its own.                                                                *)
(***************************************************************************)
happens == events < MaxEvents /\ events' = events + 1

fails == failures < MaxFailures /\ failures' = failures + 1

NodeRegisters(i) ==
  /\ registered = NoInstance /\ happens
  /\ registered' = i /\ trunkEnabled' \in BOOLEAN /\ capacity' = FALSE
  /\ nodeEvent' = FALSE
  /\ UNCHANGED <<os, autoCompute, windowsIPAM, podSynced, nodePc, configEvent, configPc, curWinIPAMEnabledCond,
                 manager, running, removing, providers, overlap, overtaken, failures>>

NodeRemoved ==
  /\ registered # NoInstance /\ happens
  /\ registered' = NoInstance /\ capacity' = FALSE
  /\ nodeEvent' = TRUE
  /\ UNCHANGED <<os, autoCompute, trunkEnabled, windowsIPAM, podSynced, nodePc, configEvent, configPc,
                 curWinIPAMEnabledCond, manager, running, removing, providers, overlap, overtaken, failures>>

\* The trunk label or the CNINode feature is set or cleared.
NodeUpdated ==
  /\ registered # NoInstance /\ happens
  /\ trunkEnabled' = ~trunkEnabled
  /\ UNCHANGED <<os, autoCompute, registered, windowsIPAM, capacity, podSynced, nodeEvent, nodePc, configEvent, configPc,
                 curWinIPAMEnabledCond, manager, running, removing, providers, overlap, overtaken, failures>>

\* The amazon-vpc-cni ConfigMap, or the old controller's deployment, changes.
\* For a Linux node that is no more than another request to update it.
ConfigMapUpdated ==
  /\ os = "windows" /\ happens
  /\ windowsIPAM' = ~windowsIPAM
  /\ configEvent' = TRUE
  /\ UNCHANGED <<os, autoCompute, registered, trunkEnabled, capacity, podSynced, nodeEvent, nodePc, configPc,
                 curWinIPAMEnabledCond, manager, running, removing, providers, overlap, overtaken, failures>>

-----------------------------------------------------------------------------
(***************************************************************************)
(* The node manager's calls, each under the manager's lock.                *)
(***************************************************************************)

\* A Linux node is managed for its trunk, a Windows node also for its addresses.
isSelectedForManagement == (os = "windows" /\ windowsIPAM) \/ trunkEnabled

managed == dataStore # None /\ node[dataStore].managed

\* Nothing submitted for an object of the name is left to do.
Settled ==
  /\ {job \in jobs : job[1] # "Update"} = {} /\ removing = {} /\ deleteNodeJobs = {}
  /\ \A o \in Object : running[o] = Idle

\* NewManagedNode or NewUnManagedNode, under the node's name.
newNode(isManaged) ==
  /\ created < MaxObjects
  /\ created' = created + 1
  /\ node' = [node EXCEPT ![created + 1] = [Unmade EXCEPT !.managed = isManaged, !.instance = registered]]
  /\ dataStore' = created + 1
  /\ overlap' = (overlap \/ (isManaged /\ ~Settled))

\* Mutant: a node that is no longer selected keeps its resources.
toUnManagedKeeping == newNode(FALSE) /\ UNCHANGED jobs

\* Mutant: the object that is torn down stays in the data store.
toUnManagedInPlace ==
  /\ jobs' = jobs \cup {<<"Delete", dataStore>>}
  /\ UNCHANGED <<dataStore, node, created, overlap>>

\* The job gets the old object, which the data store no longer holds.
ManagedToUnManaged == newNode(FALSE) /\ jobs' = jobs \cup {<<"Delete", dataStore>>}

UnManagedToManaged == newNode(TRUE) /\ jobs' = jobs \cup {<<"Init", created + 1>>}

StillManaged == jobs' = jobs \cup {<<"Update", dataStore>>} /\ UNCHANGED <<dataStore, node, created, overlap>>

\* UpdateNode of the manager when it returns no error.
updates ==
  /\ registered # NoInstance
  /\ \/ dataStore # None /\ isSelectedForManagement /\ ~managed /\ UnManagedToManaged
     \/ ~isSelectedForManagement /\ managed /\ ManagedToUnManaged
     \/ isSelectedForManagement /\ managed /\ StillManaged
     \/ /\ dataStore = None \/ (~isSelectedForManagement /\ ~managed)
        /\ UNCHANGED <<manager, overlap>>
  /\ UNCHANGED failures

\* UpdateNode when it returns an error: the Node object is gone, or its
\* ENIConfig could not be read.
updateErrs ==
  /\ \/ registered = NoInstance /\ UNCHANGED failures
     \/ registered # NoInstance /\ dataStore # None /\ isSelectedForManagement /\ fails
  /\ UNCHANGED <<manager, overlap>>

-----------------------------------------------------------------------------
(***************************************************************************)
(* NodeReconciler.Reconcile.  Requests for one node run one at a time.     *)
(***************************************************************************)
Reconcile ==
  /\ podSynced /\ nodePc = "idle"
  /\ registered # NoInstance \/ nodeEvent
  /\ nodeEvent' = FALSE
  /\ nodePc' = IF registered = NoInstance
               THEN IF dataStore # None THEN "DeleteNode" ELSE "idle"
               ELSE IF autoCompute THEN "idle"
               ELSE IF dataStore # None THEN "UpdateNode" ELSE "AddNode"
  /\ UNCHANGED <<cluster, capacity, podSynced, configEvent, configPc, curWinIPAMEnabledCond, manager, running,
                 removing, providers, overlap, overtaken, counters>>

\* A returned error puts the request back into the queue.
returns(err) == nodePc' = "idle" /\ nodeEvent' = (nodeEvent \/ (err /\ registered = NoInstance))

AddNode ==
  /\ nodePc = "AddNode"
  /\ \/ /\ registered # NoInstance /\ dataStore = None
        /\ \/ isSelectedForManagement /\ UnManagedToManaged
           \/ ~isSelectedForManagement /\ newNode(FALSE) /\ UNCHANGED jobs
        /\ returns(FALSE) /\ UNCHANGED failures
     \/ /\ registered # NoInstance /\ dataStore # None
        /\ returns(FALSE) /\ UNCHANGED <<manager, overlap, failures>>
     \/ /\ registered = NoInstance
        /\ returns(TRUE) /\ UNCHANGED <<manager, overlap, failures>>
     \* CreateCNINodeIfNotExisting or updateSubnetIfUsingENIConfig fails.
     \/ /\ registered # NoInstance /\ dataStore = None /\ fails
        /\ returns(TRUE) /\ UNCHANGED <<manager, overlap>>
  /\ UNCHANGED <<cluster, capacity, podSynced, configEvent, configPc, curWinIPAMEnabledCond, running, removing,
                 providers, overtaken, events>>

UpdateNode ==
  /\ nodePc = "UpdateNode"
  /\ \/ updates /\ returns(FALSE)
     \/ updateErrs /\ returns(TRUE)
  /\ UNCHANGED <<cluster, capacity, podSynced, configEvent, configPc, curWinIPAMEnabledCond, running, removing,
                 providers, overtaken, events>>

DeleteNode ==
  /\ nodePc = "DeleteNode"
  /\ dataStore' = None
  /\ jobs' = IF managed THEN jobs \cup {<<"Delete", dataStore>>} ELSE jobs
  /\ returns(FALSE)
  /\ UNCHANGED <<cluster, capacity, podSynced, configEvent, configPc, curWinIPAMEnabledCond, node, created,
                 running, removing, providers, overlap, overtaken, counters>>

-----------------------------------------------------------------------------
(***************************************************************************)
(* ConfigMapReconciler.Reconcile (DeploymentReconciler has the same        *)
(* shape): the new value is remembered before the nodes are updated, so    *)
(* that the retry after an error finds nothing to do.                      *)
(***************************************************************************)
\* Mutant: a node the manager does not know is added from here, too.
ConfigMapReconcileAdds ==
  /\ configEvent /\ configPc = "idle"
  /\ configEvent' = FALSE
  /\ curWinIPAMEnabledCond' = windowsIPAM
  /\ configPc' = IF registered # NoInstance
                 THEN IF dataStore # None THEN "UpdateNode" ELSE "AddNode"
                 ELSE "idle"
  /\ UNCHANGED <<cluster, capacity, podSynced, nodeEvent, nodePc, manager, running, removing, providers,
                 overlap, overtaken, counters>>

ConfigMapReconcile ==
  /\ configEvent /\ configPc = "idle"
  /\ configEvent' = FALSE
  /\ curWinIPAMEnabledCond' = windowsIPAM
  /\ configPc' = IF curWinIPAMEnabledCond # windowsIPAM /\ registered # NoInstance /\ dataStore # None
                 THEN "UpdateNode" ELSE "idle"
  /\ UNCHANGED <<cluster, capacity, podSynced, nodeEvent, nodePc, manager, running, removing, providers,
                 overlap, overtaken, counters>>

UpdateNodesOnConfigMapChanges ==
  /\ configPc = "UpdateNode" /\ configPc' = "idle"
  /\ \/ updates /\ UNCHANGED configEvent
     \/ updateErrs /\ configEvent' = TRUE
  /\ UNCHANGED <<cluster, capacity, podSynced, nodeEvent, nodePc, curWinIPAMEnabledCond, running, removing,
                 providers, overtaken, events>>

-----------------------------------------------------------------------------
(***************************************************************************)
(* performAsyncOperation.  Workers take jobs in any order; the node's lock *)
(* admits one at a time per object.  InitResources and DeleteResources     *)
(* call one provider per step.                                             *)
(***************************************************************************)
takeJob(op, o) == <<op, o>> \in jobs /\ running[o] = Idle

supported(loaded) ==
  {p \in Provider :
     \/ p = "branch" /\ os = "linux" /\ loaded
     \/ p = "ip" /\ os = "windows"
     \/ p = "prefix" /\ os = "windows" /\ loaded}

\* LoadDetails; IsInstanceSupported needs the instance type it stores, which
\* a failure after that point leaves behind.
InitResources(o) ==
  /\ takeJob("Init", o)
  /\ jobs' = jobs \ {<<"Init", o>>}
  /\ \/ /\ node' = [node EXCEPT ![o].loaded = TRUE]
        /\ running' = [running EXCEPT ![o] = [Idle EXCEPT !.op = "Init", !.todo = supported(TRUE)]]
        /\ UNCHANGED failures
     \/ /\ fails
        /\ running' = [running EXCEPT ![o] = [Idle EXCEPT !.op = "Init", !.failed = TRUE]]
        /\ node' \in {node, [node EXCEPT ![o].loaded = TRUE]}
  /\ UNCHANGED <<cluster, capacity, controllers, dataStore, created, removing, providers, overlap, overtaken,
                 events>>

\* The branch provider keeps an entry that is already there (addTrunkToCache);
\* the others replace it.
InitResource(o, p) ==
  /\ running[o].op = "Init" /\ ~running[o].failed /\ p \in running[o].todo
  /\ running' = [running EXCEPT ![o].todo = @ \ {p}, ![o].inited = @ \cup {p}]
  /\ cache' = [cache EXCEPT ![p] = IF p = "branch" /\ @ # NoInstance THEN @ ELSE node[o].instance]
  /\ UNCHANGED <<cluster, capacity, controllers, manager, removing, deleteNodeJobs, overlap, overtaken, counters>>

InitResourceFails(o) ==
  /\ running[o].op = "Init" /\ ~running[o].failed /\ running[o].todo # {} /\ fails
  /\ running' = [running EXCEPT ![o].failed = TRUE]
  /\ UNCHANGED <<cluster, capacity, controllers, manager, removing, providers, overlap, overtaken, events>>

\* DeInitResource: the pools go at once, the trunk a minute later.
deInitResource(p) ==
  \/ /\ p = "branch"
     /\ deleteNodeJobs' = deleteNodeJobs \cup {"delayed"} /\ UNCHANGED cache
  \/ /\ p # "branch"
     /\ cache' = [cache EXCEPT ![p] = NoInstance] /\ UNCHANGED deleteNodeJobs

\* The providers initialized before the failing one are de-initialized.
InitRollsBack(o, p) ==
  /\ running[o].failed /\ p \in running[o].inited
  /\ deInitResource(p)
  /\ running' = [running EXCEPT ![o].inited = @ \ {p}]
  /\ UNCHANGED <<cluster, capacity, controllers, manager, removing, overlap, overtaken, counters>>

\* Mutant: they are not.
InitFailedKeeping(o) ==
  /\ running[o].failed
  /\ running' = [running EXCEPT ![o] = Idle]
  /\ removing' = removing \cup {o}
  /\ UNCHANGED <<cluster, capacity, controllers, manager, providers, overlap, overtaken, counters>>

InitFailed(o) ==
  /\ running[o].failed /\ running[o].inited = {}
  /\ running' = [running EXCEPT ![o] = Idle]
  /\ removing' = removing \cup {o}
  /\ UNCHANGED <<cluster, capacity, controllers, manager, providers, overlap, overtaken, counters>>

\* Mutant: a node whose initialization failed stays in the data store.
removeNothing(o) ==
  /\ o \in removing
  /\ removing' = removing \ {o}
  /\ UNCHANGED <<cluster, capacity, controllers, manager, running, providers, overlap, overtaken, counters>>

\* removeNodeSafe: by name, whichever object is there by now.
RemoveNodeSafe(o) ==
  /\ o \in removing
  /\ removing' = removing \ {o}
  /\ dataStore' = None
  /\ UNCHANGED <<cluster, capacity, controllers, node, created, jobs, running, providers, overlap, overtaken, counters>>

\* Mutant: the node is ready as soon as one provider is.
InitDoneEarly(o) ==
  /\ running[o].op = "Init" /\ ~running[o].failed
  /\ node' = [node EXCEPT ![o].ready = TRUE]
  /\ running' = [running EXCEPT ![o] = Idle]
  /\ jobs' = jobs \cup {<<"Update", o>>}
  /\ UNCHANGED <<cluster, capacity, controllers, dataStore, created, removing, providers, overlap, overtaken, counters>>

\* The job goes on as an Update.
InitDone(o) ==
  /\ running[o].op = "Init" /\ ~running[o].failed /\ running[o].todo = {}
  /\ node' = [node EXCEPT ![o].ready = TRUE]
  /\ running' = [running EXCEPT ![o] = Idle]
  /\ jobs' = jobs \cup {<<"Update", o>>}
  /\ UNCHANGED <<cluster, capacity, controllers, dataStore, created, removing, providers, overlap, overtaken, counters>>

\* The branch provider advertises by instance type, the others from their pool.
advertises(o) == registered # NoInstance /\ \E p \in supported(node[o].loaded) : p = "branch" \/ cache[p] # NoInstance

UpdateResources(o) ==
  /\ takeJob("Update", o)
  /\ jobs' = jobs \ {<<"Update", o>>}
  /\ \/ capacity' = (capacity \/ (node[o].ready /\ advertises(o))) /\ UNCHANGED failures
     \/ node[o].ready /\ fails /\ UNCHANGED capacity
  /\ UNCHANGED <<cluster, controllers, dataStore, node, created, running, removing, providers, overlap, overtaken,
                 events>>

DeleteResources(o) ==
  /\ takeJob("Delete", o)
  /\ jobs' = jobs \ {<<"Delete", o>>}
  /\ node' = [node EXCEPT ![o].ready = FALSE]
  /\ running' = [running EXCEPT ![o] = [Idle EXCEPT !.op = "Delete", !.todo = supported(node[o].loaded)]]
  /\ overtaken' = (overtaken \/ <<"Init", o>> \in jobs)
  /\ UNCHANGED <<cluster, capacity, controllers, dataStore, created, removing, providers, overlap, counters>>

DeInitResource(o, p) ==
  /\ running[o].op = "Delete" /\ p \in running[o].todo
  /\ deInitResource(p)
  /\ running' = [running EXCEPT ![o].todo = @ \ {p}]
  /\ UNCHANGED <<cluster, capacity, controllers, manager, removing, overlap, overtaken, counters>>

DeleteDone(o) ==
  /\ running[o].op = "Delete" /\ running[o].todo = {}
  /\ running' = [running EXCEPT ![o] = Idle]
  /\ UNCHANGED <<cluster, capacity, controllers, manager, removing, providers, overlap, overtaken, counters>>

-----------------------------------------------------------------------------
(***************************************************************************)
(* The branch provider's DeleteNode job, by name.                          *)
(***************************************************************************)
NodeDeleteDelayElapses ==
  /\ "delayed" \in deleteNodeJobs
  /\ deleteNodeJobs' = {"queued"}
  /\ UNCHANGED <<cluster, capacity, controllers, manager, running, removing, cache, overlap, overtaken, counters>>

\* Without a trunk the job fails and is retried until its retries run out.
DeleteNodeJob ==
  /\ "queued" \in deleteNodeJobs
  /\ \/ deleteNodeJobs' = deleteNodeJobs \ {"queued"}
     \/ cache["branch"] = NoInstance /\ UNCHANGED deleteNodeJobs
  /\ cache' = [cache EXCEPT !["branch"] = NoInstance]
  /\ UNCHANGED <<cluster, capacity, controllers, manager, running, removing, overlap, overtaken, counters>>

-----------------------------------------------------------------------------
(***************************************************************************)
(* Start.  The node reconciler holds its requests back until the pod data  *)
(* store has synced.                                                       *)
(***************************************************************************)
PodDataStoreSyncs ==
  /\ ~podSynced /\ podSynced' = TRUE
  /\ UNCHANGED <<cluster, capacity, nodeEvent, nodePc, configEvent, configPc, curWinIPAMEnabledCond, manager,
                 running, removing, providers, overlap, overtaken, counters>>

-----------------------------------------------------------------------------
InitJob(o) ==
  \/ InitResources(o) \/ InitResourceFails(o) \/ InitFailed(o) \/ RemoveNodeSafe(o) \/ InitDone(o)
  \/ \E p \in Provider : InitResource(o, p) \/ InitRollsBack(o, p)

DeleteJob(o) ==
  \/ DeleteResources(o) \/ DeleteDone(o)
  \/ \E p \in Provider : DeInitResource(o, p)

ManagerCall == AddNode \/ UpdateNode \/ DeleteNode

ConfigMapStep == ConfigMapReconcile \/ UpdateNodesOnConfigMapChanges

Next ==
  \/ \E i \in Instance : NodeRegisters(i)
  \/ NodeRemoved \/ NodeUpdated \/ ConfigMapUpdated
  \/ Reconcile \/ ManagerCall \/ ConfigMapStep
  \/ \E o \in Object : InitJob(o) \/ UpdateResources(o) \/ DeleteJob(o)
  \/ NodeDeleteDelayElapses \/ DeleteNodeJob
  \/ PodDataStoreSyncs

Spec == Init /\ [][Next]_vars

(***************************************************************************)
(* Workers and reconcilers keep running, timers elapse, the pod cache      *)
(* syncs, and the kubelet's heartbeats and the 30 minute resync of main.go *)
(* keep requesting a registered node.  Nothing obliges the cluster to      *)
(* change or a call to fail.                                               *)
(***************************************************************************)
Fairness ==
  /\ WF_vars(Reconcile) /\ WF_vars(ManagerCall) /\ WF_vars(ConfigMapStep)
  /\ \A o \in Object : WF_vars(InitJob(o)) /\ WF_vars(UpdateResources(o)) /\ WF_vars(DeleteJob(o))
  /\ WF_vars(NodeDeleteDelayElapses) /\ WF_vars(DeleteNodeJob) /\ WF_vars(PodDataStoreSyncs)

FairSpec == Spec /\ Fairness

-----------------------------------------------------------------------------
(***************************************************************************)
(* Properties.                                                             *)
(***************************************************************************)

inService == dataStore # None /\ node[dataStore].managed /\ node[dataStore].ready

\* A node the pod controller finds ready has, at every provider that supports
\* its instance, the entry of that instance: pods are never handed to a
\* provider that lost the node or keeps a predecessor's trunk.  Holds unless
\* the name came back before the teardown of its predecessor had ended, or
\* a Delete job took its node's lock before the Init job did.
ReadyHasResources ==
  inService /\ ~overlap /\ ~overtaken => \A p \in supported(TRUE) : cache[p] = node[dataStore].instance

\* A node that is gone or no longer selected has no entry left at any provider
\* once everything submitted for the objects of the name has been done: no
\* sequence of failing initializations, roll-backs and removals loses a trunk
\* or a pool.  Holds under the same conditions.
NothingLeftBehind ==
  Settled /\ ~managed /\ ~overlap /\ ~overtaken => \A p \in Provider : cache[p] = NoInstance

\* A ready node has its trunk, whatever happened before: CreateAndAnnotateResources
\* says of a ready node without a trunk that "this should never happen".
TrunkNeverMissing ==
  inService /\ os = "linux" => cache["branch"] # NoInstance

\* Once the cluster stops changing, the data store agrees with it: a node that
\* is gone is forgotten, one that is not selected is unmanaged, and one that is
\* selected becomes ready, whatever failures came before; its
\* capacity is then advertised.
NodeSettles ==
  <>[](/\ registered = NoInstance => dataStore = None
       /\ registered # NoInstance /\ ~autoCompute =>
            /\ dataStore # None
            /\ node[dataStore].managed = isSelectedForManagement
            /\ isSelectedForManagement => node[dataStore].ready
            /\ isSelectedForManagement /\ ~overlap /\ ~overtaken => capacity)

\* A node that is gone or no longer selected leaves nothing behind at the
\* providers, unless its name came back during the teardown or the Delete job
\* took the node's lock before the Init job did.
TornDown ==
  <>[](~managed /\ ~overlap /\ ~overtaken => \A p \in Provider : cache[p] = NoInstance)

-----------------------------------------------------------------------------
(***************************************************************************)
(* The node manager implements NodeView: what the pod controller sees of   *)
(* the name is read off the object in the data store.                      *)
(***************************************************************************)
view ==
  CASE dataStore = None -> "unknown"
    [] dataStore # None /\ ~managed -> "unmanaged"
    [] managed /\ ~node[dataStore].ready -> "initializing"
    [] managed /\ node[dataStore].ready -> "ready"

View == INSTANCE NodeView WITH view <- view

\* What GetNode answers the pod controller changes only as NodeView allows: a
\* ready node never falls back to initializing, however jobs, failures and
\* re-registrations of the name interleave.
ViewSpec == View!Spec
=============================================================================
