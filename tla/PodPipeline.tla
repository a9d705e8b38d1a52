---------------------------- MODULE PodPipeline ----------------------------
(***************************************************************************)
(* The way of a pod's events through the controller: the API server's      *)
(* watch, the delta queue and data store of the custom controller, the pod *)
(* reconciler, the jobs of the on-demand worker queue, and the trunk that  *)
(* gives the pod a branch interface and takes it back.                     *)
(*                                                                         *)
(* Source: webhooks/core, controllers/custom, controllers/core/            *)
(* pod_controller.go, pkg/k8s/pod, pkg/handler/on_demand.go,               *)
(* pkg/worker/worker.go, pkg/provider/branch/provider.go.                  *)
(*                                                                         *)
(* One pod name is followed through its incarnations (a StatefulSet's pod  *)
(* is recreated under its name), because the data store, the requests, the *)
(* create job and the annotation are keyed by the name, and the trunk's    *)
(* cache and the delete job by the UID.  How one trunk serves several pods *)
(* is in TrunkENI.  The node is what NodeView allows it to be, which       *)
(* NodeManager implements, up to its removal from the cluster.             *)
(***************************************************************************)
EXTENDS Naturals, Sequences, FiniteSets

CONSTANTS
  MaxUID,                \* bound on the incarnations of the pod
  MaxENI,                \* names of branch interfaces, enough to tell them apart
  BranchInterfaceLimit,  \* vpc.Limits[type].BranchInterface
  maxRetriesOnErr,       \* of the worker queue
  MaxPending,            \* bound on the events by which the controller is behind the cluster
  MaxFailures            \* bound on the failing calls and the interruptions of the watch

ASSUME PipelineAssumption ==
  /\ {MaxUID, MaxENI, BranchInterfaceLimit} \subseteq Nat \ {0}
  /\ {maxRetriesOnErr, MaxFailures, MaxPending} \subseteq Nat

UID == 1 .. MaxUID
ENI == 1 .. MaxENI
None == 0

\* A pod as StripDownPod keeps it.  ann is the interface in the pod-eni
\* annotation, request the resource request the webhook injected.
NoPod == [uid |-> None, phase |-> "none", request |-> FALSE, ann |-> None]
Pod == [uid : UID, phase : {"unbound", "bound", "completed"}, request : BOOLEAN, ann : ENI \cup {None}]

VARIABLES
  \* The cluster.
  api,          \* the pod at the API server
  created,      \* how many incarnations there were
  node,         \* the Node object in the client's cache: "new", "known" or "removed"
  \* The custom controller.
  stream,       \* watch events and deltas not processed yet
  store,        \* the data store's copy of the pod
  byName,       \* the request with the pod's name is queued
  deleted,      \* DeletedObject requests: the UIDs of pods that had a node and a request
  \* The worker queue.
  jobs,         \* the queue: create jobs of the name, and Deleted jobs by UID
  job,          \* the create job a worker runs
  again,        \* the create job is to be queued again, after a delay or when it is done
  retries,      \* NumRequeues of the create job
  \* The node manager and the branch provider.
  view,         \* what GetNode answers, see NodeView
  listed,       \* the pods InitTrunk lists
  trunk,        \* the trunk is in the provider's cache
  uidToBranchENIMap,
  deleteQueue,
  \* EC2.
  live,         \* the branch interfaces that exist
  failures,
  \* History, of the pod at the API server.
  foreign,      \* its UID, once the job of a namesake before it has patched it
  stolen        \* its UID, once ReconcileNode took its interface before the data store knew it

Node == INSTANCE NodeView

cluster == <<api, created, node>>
watch == <<stream, store>>
queues == <<byName, deleted>>
work == <<jobs, job, again, retries>>
branches == <<uidToBranchENIMap, deleteQueue, live>>
provider == <<view, listed, trunk, branches>>
history == <<foreign, stolen>>
vars == <<cluster, watch, queues, work, provider, failures, history>>

Create == 0
NoJob == [pc |-> "idle", uid |-> None, eni |-> None]

cached == {uidToBranchENIMap[u] : u \in UID} \ {None}

TypeOK ==
  /\ {api, store} \subseteq Pod \cup {NoPod} /\ created \in 0 .. MaxUID
  /\ node \in {"new", "known", "removed"}
  /\ stream \in Seq([type : {"Updated", "Deleted", "DeletedFinalStateUnknown"}, pod : Pod])
  /\ byName \in BOOLEAN /\ deleted \in SUBSET UID
  /\ jobs \in Seq({Create} \cup UID) /\ again \in BOOLEAN /\ retries \in 0 .. maxRetriesOnErr
  /\ job \in [pc : {"idle", "fetch", "create", "cache", "annotate", "patch"},
              uid : UID \cup {None}, eni : ENI \cup {None}]
  /\ (job.pc \in {"cache", "annotate", "patch"}) = (job.eni # None)
  /\ view \in {"unknown", "unmanaged", "initializing", "ready"} /\ trunk \in BOOLEAN
  /\ listed \in SUBSET Pod
  /\ uidToBranchENIMap \in [UID -> ENI \cup {None}] /\ deleteQueue \in SUBSET ENI /\ live \in SUBSET ENI
  /\ failures \in 0 .. MaxFailures
  /\ {foreign, stolen} \subseteq SUBSET UID

\* The controller starts, or restarts, with its data store synced: workers run
\* only then.  A predecessor may have served the pod, or died before it
\* annotated it.
Init ==
  /\ live \in {{}, {1}}
  /\ api \in {NoPod} \cup [uid : {1}, phase : {"bound", "completed"}, request : {TRUE}, ann : {None} \cup live]
  /\ created = api.uid
  /\ node \in (IF live = {} THEN {"new", "known"} ELSE {"known"})
  /\ stream = << >> /\ store = api
  /\ byName = (api # NoPod) /\ deleted = {}
  /\ jobs = << >> /\ job = NoJob /\ again = FALSE /\ retries = 0
  /\ view = Node!Unknown /\ listed = {} /\ trunk = FALSE
  /\ uidToBranchENIMap = [u \in UID |-> None] /\ deleteQueue = {}
  /\ failures = 0 /\ foreign = {} /\ stolen = {}

fails == failures < MaxFailures /\ failures' = failures + 1

-----------------------------------------------------------------------------
(***************************************************************************)
(* The pod at the API server, behind the admission webhooks.               *)
(***************************************************************************)
event(type, pod) == stream' = Append(stream, [type |-> type, pod |-> pod])

\* The bound on what the cluster does before the controller hears of it.
mayChange == Len(stream) < MaxPending

\* The mutating webhook injects the request into a pod that matches a
\* SecurityGroupPolicy; when the policies cannot be read the pod is denied,
\* which for the model is a pod not created.
HandleLinuxPod(sgList) == sgList # {}

\* A pod cannot be created with the annotation; later only the controller may
\* change it.
handleCreate(ann) == ann = None

handleUpdate(user, old, new) == new # old => user = "vpc-resource-controller"

\* The name is free again as soon as the predecessor is gone: the controller may
\* not have seen its deletion yet, and may be running its create job.
PodCreated ==
  /\ api = NoPod /\ created < MaxUID /\ mayChange
  /\ \E sgList \in SUBSET {"sg"}, ann \in ENI \cup {None} :
       /\ handleCreate(ann)
       /\ api' = [uid |-> created + 1, phase |-> "unbound", request |-> HandleLinuxPod(sgList), ann |-> ann]
  /\ created' = created + 1
  /\ event("Updated", api')
  /\ UNCHANGED <<node, store, queues, work, provider, failures, history>>

\* Others update the pod: the scheduler binds it, its containers complete.
PodUpdated ==
  /\ mayChange
  /\ \E ann \in ENI \cup {None} :
       /\ handleUpdate("someone", api.ann, ann)
       /\ \/ api.phase = "unbound" /\ api' = [api EXCEPT !.phase = "bound", !.ann = ann]
          \/ api.phase = "bound" /\ api' = [api EXCEPT !.phase = "completed", !.ann = ann]
  /\ event("Updated", api')
  /\ UNCHANGED <<created, node, store, queues, work, provider, failures, history>>

PodDeleted ==
  /\ api # NoPod /\ mayChange /\ api' = NoPod
  /\ event("Deleted", api)
  /\ foreign' = {} /\ stolen' = {}
  /\ UNCHANGED <<created, node, store, queues, work, provider, failures>>

\* The watch breaks and its undelivered events are lost.  The new list is
\* compared with the data store: a pod that is gone becomes a tombstone.
WatchGap ==
  /\ fails
  /\ stream' = IF api # NoPod THEN <<[type |-> "Updated", pod |-> api]>>
               ELSE IF store # NoPod THEN <<[type |-> "DeletedFinalStateUnknown", pod |-> store]>>
               ELSE << >>
  /\ UNCHANGED <<cluster, store, queues, work, provider, history>>

-----------------------------------------------------------------------------
(***************************************************************************)
(* The custom controller's Process function.                               *)
(***************************************************************************)
Process ==
  /\ stream # << >>
  /\ LET d == Head(stream) IN
       \/ /\ d.type = "Updated"
          /\ store' = d.pod /\ byName' = TRUE
          /\ UNCHANGED deleted
       \/ /\ d.type = "Deleted"
          /\ store' = NoPod
          /\ deleted' = IF d.pod.phase # "unbound" /\ d.pod.request THEN deleted \cup {d.pod.uid} ELSE deleted
          /\ UNCHANGED byName
  /\ stream' = Tail(stream)
  /\ UNCHANGED <<cluster, work, provider, failures, history>>

\* ConvertObject refuses the tombstone: it is dropped, with the deltas that
\* were popped together with it.
ProcessFails ==
  /\ stream # << >> /\ Head(stream).type = "DeletedFinalStateUnknown"
  /\ \E n \in 1 .. Len(stream) : stream' = SubSeq(stream, n + 1, Len(stream))
  /\ UNCHANGED <<cluster, store, queues, work, provider, failures, history>>

\* Mutant: the data store is not synced again.
ResyncNothing == UNCHANGED vars

\* FullResyncPeriod: the objects of the data store are synced again.
Resync ==
  /\ stream = << >> /\ store # NoPod /\ ~byName
  /\ byName' = TRUE
  /\ UNCHANGED <<cluster, watch, deleted, work, provider, failures, history>>

-----------------------------------------------------------------------------
(***************************************************************************)
(* PodReconciler.Reconcile.  What it reads between two lines only decides  *)
(* which job it submits, and the jobs read everything again.               *)
(***************************************************************************)
nodeExists == node = "known"

\* The request is queued again, unchanged.
requeued ==
  /\ store # NoPod /\ store.phase # "unbound" /\ nodeExists
  /\ \/ view \in {Node!Unknown, Node!Initializing}
     \/ view = Node!Unmanaged /\ store.request

ignored ==
  \/ store = NoPod \/ store.phase = "unbound"
  \/ view = Node!Unmanaged \/ ~store.request

\* The work queue holds a job once; one that a worker runs is queued again
\* when it is done.
submit(j) ==
  IF j = Create /\ job.pc # "idle"
  THEN again' = TRUE /\ UNCHANGED jobs
  ELSE jobs' = (IF \E i \in DOMAIN jobs : jobs[i] = j THEN jobs ELSE Append(jobs, j)) /\ UNCHANGED again

HandleCreate == submit(Create)

HandleDelete(uid) == submit(uid)

Reconcile ==
  /\ byName /\ ~requeued /\ byName' = FALSE
  /\ \/ ignored /\ UNCHANGED <<jobs, again>>
     \/ /\ ~ignored /\ (store.phase = "completed" \/ ~nodeExists)
        /\ HandleDelete(store.uid)
     \/ /\ ~ignored /\ store.phase # "completed" /\ nodeExists
        /\ HandleCreate
  /\ UNCHANGED <<cluster, watch, deleted, job, retries, provider, failures, history>>

ReconcileDeleted ==
  \E uid \in deleted :
    /\ deleted' = deleted \ {uid}
    /\ IF view = Node!Unmanaged THEN UNCHANGED <<jobs, again>> ELSE HandleDelete(uid)
    /\ UNCHANGED <<cluster, watch, byName, job, retries, provider, failures, history>>

-----------------------------------------------------------------------------
(***************************************************************************)
(* The create job.                                                         *)
(***************************************************************************)
\* Mutant: one retry more than the limit.
jobFailsOneMore ==
  /\ job' = NoJob
  /\ IF retries > maxRetriesOnErr
     THEN retries' = 0 /\ UNCHANGED again
     ELSE retries' = retries + 1 /\ again' = TRUE

\* processNextItem after an error: requeue, until the retries run out.
jobFails ==
  /\ job' = NoJob
  /\ IF retries >= maxRetriesOnErr
     THEN retries' = 0 /\ UNCHANGED again
     ELSE retries' = retries + 1 /\ again' = TRUE

\* Success, and an error that says the pod is not found.
jobEnds == job' = NoJob /\ retries' = 0 /\ UNCHANGED again

QueueAgain ==
  /\ again /\ job.pc = "idle" /\ again' = FALSE
  /\ jobs' = (IF \E i \in DOMAIN jobs : jobs[i] = Create THEN jobs ELSE Append(jobs, Create))
  /\ UNCHANGED <<cluster, watch, queues, job, retries, provider, failures, history>>

RunCreateJob ==
  /\ jobs # << >> /\ Head(jobs) = Create /\ job.pc = "idle"
  /\ jobs' = Tail(jobs)
  /\ \/ (store = NoPod \/ store.ann # None) /\ retries' = 0 /\ UNCHANGED job
     \/ store # NoPod /\ store.ann = None /\ job' = [job EXCEPT !.pc = "fetch"] /\ UNCHANGED retries
  /\ UNCHANGED <<cluster, watch, queues, again, provider, failures, history>>

\* The API server's pod may be a later one of the name than the data store's;
\* one that is not bound yet has no trunk.
GetPodFromAPIServer ==
  /\ job.pc = "fetch"
  /\ \/ (api = NoPod \/ api.ann # None) /\ jobEnds /\ UNCHANGED failures
     \/ /\ api # NoPod /\ api.ann = None /\ api.phase # "unbound"
        /\ job' = [job EXCEPT !.pc = "create", !.uid = api.uid]
        /\ UNCHANGED <<again, retries, failures>>
     \/ api.phase = "unbound" /\ jobFails /\ UNCHANGED failures
     \/ jobFails /\ fails
  /\ UNCHANGED <<cluster, watch, queues, jobs, provider, history>>

canCreateMore == Cardinality(cached) + Cardinality(deleteQueue) < BranchInterfaceLimit

\* An interface EC2 makes has a name nobody remembers; MaxENI bounds the names.
remembered ==
  live \cup cached \cup deleteQueue \cup {api.ann, store.ann, job.eni} \cup {stream[i].pod.ann : i \in DOMAIN stream}

newENI == CHOOSE e \in ENI : e \notin remembered

\* CreateAndAssociateBranchENIs up to the interface that EC2 has made.
CreateAndAssociateBranchENIs ==
  /\ job.pc = "create"
  /\ \/ /\ trunk /\ uidToBranchENIMap[job.uid] = None /\ canCreateMore
        /\ ENI \ remembered # {}
        /\ job' = [job EXCEPT !.pc = "cache", !.eni = newENI] /\ live' = live \cup {newENI}
        /\ UNCHANGED <<again, retries, failures>>
     \/ /\ trunk /\ uidToBranchENIMap[job.uid] = None /\ ~canCreateMore
        /\ job' = NoJob /\ again' = TRUE
        /\ UNCHANGED <<retries, live, failures>>
     \/ /\ ~trunk \/ uidToBranchENIMap[job.uid] # None
        /\ jobFails
        /\ UNCHANGED <<live, failures>>
     \/ jobFails /\ fails /\ UNCHANGED live
  /\ UNCHANGED <<cluster, watch, queues, jobs, view, listed, trunk, uidToBranchENIMap, deleteQueue, history>>

\* The data store may still know the namesake before the pod the job fetched.
addBranchToCache ==
  /\ job.pc = "cache"
  /\ uidToBranchENIMap' = [uidToBranchENIMap EXCEPT ![job.uid] = job.eni]
  /\ job' = [job EXCEPT !.pc = "annotate"]
  /\ stolen' = stolen \ {job.uid}
  /\ UNCHANGED <<cluster, watch, queues, jobs, again, retries, view, listed, trunk, deleteQueue, live, failures,
                 foreign>>

PushENIsToFrontOfDeleteQueue ==
  /\ deleteQueue' = deleteQueue \cup {job.eni}
  /\ uidToBranchENIMap' = [uidToBranchENIMap EXCEPT ![job.uid] = None]
  /\ UNCHANGED live

\* Mutant: the UID is not compared, the pod is patched at once.
AnnotatePodUnchecked ==
  /\ job.pc = "annotate" /\ api # NoPod
  /\ api' = [api EXCEPT !.ann = job.eni] /\ event("Updated", api')
  /\ jobEnds
  /\ UNCHANGED <<created, node, store, queues, jobs, provider, failures, history>>

\* AnnotatePod compares the UID with the data store's copy ...
AnnotatePod ==
  /\ job.pc = "annotate"
  /\ \/ /\ store # NoPod /\ store.uid = job.uid
        /\ job' = [job EXCEPT !.pc = "patch"]
        /\ UNCHANGED <<again, retries, branches>>
     \/ /\ store = NoPod
        /\ PushENIsToFrontOfDeleteQueue /\ jobEnds
     \/ /\ store # NoPod /\ store.uid # job.uid
        /\ PushENIsToFrontOfDeleteQueue /\ jobFails
  /\ UNCHANGED <<cluster, watch, queues, jobs, view, listed, trunk, failures, history>>

\* ... and patches whatever pod has the name.
Patch ==
  /\ job.pc = "patch"
  /\ \/ /\ api # NoPod /\ handleUpdate("vpc-resource-controller", api.ann, job.eni)
        /\ api' = [api EXCEPT !.ann = job.eni] /\ event("Updated", api')
        /\ jobEnds
        /\ foreign' = IF api.uid = job.uid THEN foreign ELSE foreign \cup {api.uid}
        /\ UNCHANGED <<branches, failures>>
     \/ /\ api = NoPod
        /\ PushENIsToFrontOfDeleteQueue /\ jobEnds
        /\ UNCHANGED <<api, stream, failures, foreign>>
     \/ /\ PushENIsToFrontOfDeleteQueue /\ jobFails /\ fails
        /\ UNCHANGED <<api, stream, foreign>>
  /\ UNCHANGED <<created, node, store, queues, jobs, view, listed, trunk, stolen>>

-----------------------------------------------------------------------------
(***************************************************************************)
(* Taking interfaces back.                                                 *)
(***************************************************************************)
toDeleteQueue(uids) ==
  /\ deleteQueue' = deleteQueue \cup ({uidToBranchENIMap[u] : u \in uids} \ {None})
  /\ uidToBranchENIMap' = [u \in UID |-> IF u \in uids THEN None ELSE uidToBranchENIMap[u]]

\* The Deleted job; without a trunk it does nothing and is not retried.
DeleteBranchUsedByPods ==
  /\ jobs # << >> /\ Head(jobs) # Create
  /\ jobs' = Tail(jobs)
  /\ IF trunk THEN toDeleteQueue({Head(jobs)}) ELSE UNCHANGED <<uidToBranchENIMap, deleteQueue>>
  /\ UNCHANGED <<cluster, watch, queues, job, again, retries, view, listed, trunk, live, failures, history>>

\* Once it has cooled down.
DeleteCooledDownENIs ==
  \E e \in deleteQueue :
    /\ trunk
    /\ deleteQueue' = deleteQueue \ {e} /\ live' = live \ {e}
    /\ UNCHANGED <<cluster, watch, queues, work, view, listed, trunk, uidToBranchENIMap, failures, history>>

leaked == {u \in UID : uidToBranchENIMap[u] # None /\ u # store.uid}

\* Mutant: the node is never reconciled.
reconcileNothing == UNCHANGED vars

\* The periodic reconciliation of the node with the data store.
ReconcileNode ==
  /\ trunk /\ leaked # {}
  /\ toDeleteQueue(leaked)
  /\ stolen' = stolen \cup (leaked \cap {api.uid})
  /\ UNCHANGED <<cluster, watch, queues, work, view, listed, trunk, live, failures, foreign>>

-----------------------------------------------------------------------------
(***************************************************************************)
(* The node, along NodeView.                                               *)
(***************************************************************************)
NodeSeen ==
  /\ node = "new" /\ node' = "known"
  /\ UNCHANGED <<api, created, watch, queues, work, provider, failures, history>>

NodeRemoved ==
  /\ node = "known" /\ node' = "removed"
  /\ UNCHANGED <<api, created, watch, queues, work, provider, failures, history>>

AddNode ==
  /\ node = "known" /\ (Node!Add \/ Node!Select)
  /\ UNCHANGED <<cluster, watch, queues, work, listed, trunk, branches, failures, history>>

\* InitTrunk lists the running pods before it asks EC2 for the trunk's
\* branches.
InitResource ==
  /\ view = Node!Initializing /\ ~trunk /\ listed = {}
  /\ store # NoPod /\ store.phase # "completed"
  /\ listed' = {store}
  /\ UNCHANGED <<cluster, watch, queues, work, view, trunk, branches, failures, history>>

\* The branches of the listed pods are theirs, all others are deleted.
InitTrunk ==
  /\ ~trunk /\ trunk' = TRUE
  /\ listed # {} \/ store = NoPod \/ store.phase = "completed"
  /\ Node!BecomeReady
  /\ uidToBranchENIMap' = [u \in UID |->
       IF \E p \in listed : p.uid = u /\ p.ann \in live THEN (CHOOSE p \in listed : p.uid = u).ann ELSE None]
  /\ deleteQueue' = live \ {p.ann : p \in listed}
  /\ listed' = {}
  /\ UNCHANGED <<cluster, watch, queues, work, live, failures, history>>

DeleteNode ==
  /\ node = "removed" /\ Node!Forget
  /\ UNCHANGED <<cluster, watch, queues, work, listed, trunk, branches, failures, history>>

\* The branch provider's DeleteNode job, a minute later.  It goes over the map and
\* the queue, call by call and without the trunk's lock, and leaves both alone ...
deleteNode == node = "removed" /\ view = Node!Unknown /\ trunk

DeleteAllBranchENIs ==
  /\ deleteNode
  /\ \E e \in live \cap (cached \cup deleteQueue) : live' = live \ {e}
  /\ UNCHANGED <<cluster, watch, queues, work, view, listed, trunk, uidToBranchENIMap, deleteQueue, failures, history>>

\* ... then the trunk is dropped, with whatever a call failed to delete, which is
\* only logged, and whatever came after the walk had passed.
removeTrunkFromCache ==
  /\ deleteNode
  /\ trunk' = FALSE
  /\ uidToBranchENIMap' = [u \in UID |-> None] /\ deleteQueue' = {}
  /\ UNCHANGED <<cluster, watch, queues, work, view, listed, live, failures, history>>

-----------------------------------------------------------------------------
Environment == PodCreated \/ PodUpdated \/ PodDeleted \/ WatchGap \/ NodeRemoved

RunJob ==
  \/ QueueAgain \/ RunCreateJob \/ GetPodFromAPIServer \/ CreateAndAssociateBranchENIs \/ addBranchToCache
  \/ AnnotatePod \/ Patch

NodeStep ==
  \/ NodeSeen \/ AddNode \/ InitResource \/ InitTrunk \/ DeleteNode
  \/ DeleteAllBranchENIs \/ removeTrunkFromCache

Next ==
  \/ Environment
  \/ Process \/ ProcessFails \/ Resync \/ Reconcile \/ ReconcileDeleted
  \/ RunJob \/ DeleteBranchUsedByPods \/ DeleteCooledDownENIs \/ ReconcileNode
  \/ NodeStep

Spec == Init /\ [][Next]_vars

(***************************************************************************)
(* The watch delivers, the workers of both queues run, timers elapse and   *)
(* the node manager completes what it began.  Nobody has to touch the pod  *)
(* or the node.                                                            *)
(***************************************************************************)
Fairness ==
  /\ WF_vars(Process \/ ProcessFails) /\ WF_vars(Resync)
  /\ WF_vars(Reconcile) /\ WF_vars(ReconcileDeleted)
  /\ WF_vars(RunJob) /\ WF_vars(DeleteBranchUsedByPods) /\ WF_vars(DeleteCooledDownENIs)
  /\ WF_vars(ReconcileNode) /\ WF_vars(NodeStep)

FairSpec == Spec /\ Fairness

-----------------------------------------------------------------------------
(***************************************************************************)
(* Properties.                                                             *)
(***************************************************************************)

served(pod) == pod.phase = "bound" /\ nodeExists /\ view = Node!Ready

\* The interface in a running pod's annotation is the one the trunk holds for
\* the pod's own UID: it exists and is not waiting for deletion, and it is not
\* the one of the pod's namesake before it, whatever was deleted, recreated,
\* completed or retried while the job ran.  Two pods are excepted: one patched by
\* its namesake's job, which had passed the UID check before the data store knew
\* of the new pod, and one whose interface the node's reconciliation took away
\* before the data store knew the pod.
AnnotatedInterfaceOwned ==
  api.ann # None /\ served(api) /\ api.uid \notin foreign \cup stolen =>
    uidToBranchENIMap[api.uid] = api.ann /\ api.ann \in live \ deleteQueue

\* In the end a trunk holds no other interface than that of the pod the data
\* store lists, and none when that pod has completed: pods deleted or completed
\* at any moment of their create job, dropped delete jobs and restarts leave
\* nothing behind.  A pod that asked for no interface may have got one by its
\* predecessor's create job, and keeps it until it is deleted.
Reclaimed ==
  LET kept == store # NoPod /\ (store.phase # "completed" \/ ~store.request)
  IN <>[](trunk => live \subseteq (IF kept THEN {uidToBranchENIMap[store.uid]} ELSE {}))

\* A running pod that asked for an interface, is known to the data store and
\* runs on a ready node has its annotation in the end, although jobs are
\* dropped and events come before the node is known.
Annotated ==
  <>[](served(api) /\ api.request /\ store.uid = api.uid => api.ann # None)
=============================================================================
