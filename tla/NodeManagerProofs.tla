------------------------- MODULE NodeManagerProofs -------------------------
(***************************************************************************)
(* Theorems about NodeManager, for any instances that register under the   *)
(* name and any number of changes of the cluster and failing calls.        *)
(***************************************************************************)
EXTENDS NodeManager, TLAPS

-----------------------------------------------------------------------------
(***************************************************************************)
(* What a step does to the node objects, their jobs and the providers.     *)
(***************************************************************************)
core == <<os, manager, running, removing, providers, overlap, overtaken>>
beside == <<os, running, removing, providers, overtaken>>

Quiet == UNCHANGED core

Selects == ~managed /\ UnManagedToManaged /\ UNCHANGED beside

AddsUnmanaged == dataStore = None /\ newNode(FALSE) /\ UNCHANGED jobs /\ UNCHANGED beside

Deselects == managed /\ ManagedToUnManaged /\ UNCHANGED beside

Refreshes == managed /\ StillManaged /\ UNCHANGED beside

Forgets ==
  /\ dataStore' = None /\ jobs' = IF managed THEN jobs \cup {<<"Delete", dataStore>>} ELSE jobs
  /\ UNCHANGED <<node, created, overlap>> /\ UNCHANGED beside

ManagerStep == Quiet \/ Selects \/ AddsUnmanaged \/ Deselects \/ Refreshes \/ Forgets

JobStep(o) == InitJob(o) \/ UpdateResources(o) \/ DeleteJob(o)

\* Requests and events reach the node objects through the manager's calls
\* alone.
LEMMA Effects ==
  ASSUME [Next]_vars
  PROVE  \/ ManagerStep
         \/ \E o \in Object : JobStep(o)
         \/ NodeDeleteDelayElapses \/ DeleteNodeJob
<1>1. CASE \/ \E i \in Instance : NodeRegisters(i)
           \/ NodeRemoved \/ NodeUpdated \/ ConfigMapUpdated \/ Reconcile \/ ConfigMapReconcile \/ PodDataStoreSyncs
           \/ UNCHANGED vars
  <2>1. Quiet
    BY <1>1 DEF NodeRegisters, NodeRemoved, NodeUpdated, ConfigMapUpdated, Reconcile, ConfigMapReconcile,
                PodDataStoreSyncs, Quiet, core, vars, cluster, manager
  <2> QED
    BY <2>1 DEF ManagerStep
<1>2. ASSUME updates, UNCHANGED beside PROVE ManagerStep
  BY <1>2 DEF updates, ManagerStep, Quiet, Selects, Deselects, Refreshes, core, beside
<1>3. ASSUME updateErrs, UNCHANGED beside PROVE ManagerStep
  BY <1>3 DEF updateErrs, ManagerStep, Quiet, core, beside
<1>4. CASE AddNode
  <2>1. UNCHANGED beside
    BY <1>4 DEF AddNode, beside, cluster
  <2>2. CASE dataStore = None /\ UnManagedToManaged
    BY <2>1, <2>2 DEF ManagerStep, Selects, managed
  <2>3. CASE dataStore = None /\ newNode(FALSE) /\ UNCHANGED jobs
    BY <2>1, <2>3 DEF ManagerStep, AddsUnmanaged
  <2>4. CASE UNCHANGED <<manager, overlap>>
    BY <2>1, <2>4 DEF ManagerStep, Quiet, core, beside
  <2> QED
    BY <1>4, <2>2, <2>3, <2>4 DEF AddNode
<1>5. CASE UpdateNode
  <2>1. UNCHANGED beside
    BY <1>5 DEF UpdateNode, beside, cluster
  <2> QED
    BY <1>2, <1>3, <1>5, <2>1 DEF UpdateNode
<1>6. CASE UpdateNodesOnConfigMapChanges
  <2>1. UNCHANGED beside
    BY <1>6 DEF UpdateNodesOnConfigMapChanges, beside, cluster
  <2> QED
    BY <1>2, <1>3, <1>6, <2>1 DEF UpdateNodesOnConfigMapChanges
<1>7. CASE DeleteNode
  BY <1>7 DEF DeleteNode, ManagerStep, Forgets, beside, cluster
<1> QED
  BY <1>1, <1>4, <1>5, <1>6, <1>7 DEF Next, ManagerCall, ConfigMapStep, JobStep

-----------------------------------------------------------------------------
(***************************************************************************)
(* Type correctness.                                                       *)
(***************************************************************************)
NodeObject == [managed : BOOLEAN, ready : BOOLEAN, loaded : BOOLEAN, instance : Instance \cup {NoInstance}]
RunningJob == [op : {"none", "Init", "Delete"}, todo : SUBSET Provider, inited : SUBSET Provider, failed : BOOLEAN]

ClusterType ==
  /\ os \in {"linux", "windows"} /\ autoCompute \in BOOLEAN
  /\ registered \in Instance \cup {NoInstance}
  /\ trunkEnabled \in BOOLEAN /\ windowsIPAM \in BOOLEAN /\ capacity \in BOOLEAN

ControllerType ==
  /\ podSynced \in BOOLEAN /\ nodeEvent \in BOOLEAN /\ configEvent \in BOOLEAN /\ curWinIPAMEnabledCond \in BOOLEAN
  /\ nodePc \in {"idle", "AddNode", "UpdateNode", "DeleteNode"}
  /\ configPc \in {"idle", "UpdateNode"}

ManagerType ==
  /\ dataStore \in Object \cup {None}
  /\ node \in [Object -> NodeObject]
  /\ created \in 0 .. MaxObjects
  /\ jobs \in SUBSET ({"Init", "Update", "Delete"} \X Object)

JobType ==
  /\ running \in [Object -> RunningJob]
  /\ removing \in SUBSET Object
  /\ cache \in [Provider -> Instance \cup {NoInstance}]
  /\ deleteNodeJobs \in SUBSET {"delayed", "queued"}
  /\ overlap \in BOOLEAN /\ overtaken \in BOOLEAN

CounterType == events \in 0 .. MaxEvents /\ failures \in 0 .. MaxFailures

\* The parts make up the module's type invariant.
LEMMA TypeParts ==
  /\ TypeOK <=> ClusterType /\ ControllerType /\ ManagerType /\ JobType /\ CounterType
  /\ TypeOK' <=> ClusterType' /\ ControllerType' /\ ManagerType' /\ JobType' /\ CounterType'
  BY DEF TypeOK, ClusterType, ControllerType, ManagerType, JobType, CounterType, NodeObject, RunningJob

\* There is a positive number of node objects, and None is not one of them.
LEMMA ObjectFacts == MaxObjects \in Nat /\ Object \subseteq Nat /\ None \notin Object
  BY NodeAssumption DEF MaxObjects, Object, None

\* The counters stay within their bounds.
LEMMA CounterStep ==
  ASSUME TypeOK, [Next]_vars
  PROVE  CounterType'
<1> USE TypeParts
<1>0. CounterType
  OBVIOUS
<1>1. (happens => events' \in 0 .. MaxEvents) /\ (fails => failures' \in 0 .. MaxFailures)
  BY <1>0, NodeAssumption DEF CounterType, happens, fails
<1>2. happens \/ UNCHANGED events
  BY DEF Next, NodeRegisters, NodeRemoved, NodeUpdated, ConfigMapUpdated, Reconcile, ManagerCall, AddNode, UpdateNode,
         DeleteNode, ConfigMapStep, ConfigMapReconcile, UpdateNodesOnConfigMapChanges, InitJob, InitResources,
         InitResourceFails, InitFailed, RemoveNodeSafe, InitDone, InitResource, InitRollsBack, UpdateResources,
         DeleteJob, DeleteResources, DeleteDone, DeInitResource, NodeDeleteDelayElapses, DeleteNodeJob,
         PodDataStoreSyncs, vars, counters
<1>3. fails \/ UNCHANGED failures
  BY DEF Next, NodeRegisters, NodeRemoved, NodeUpdated, ConfigMapUpdated, Reconcile, ManagerCall, AddNode, UpdateNode,
         DeleteNode, ConfigMapStep, ConfigMapReconcile, UpdateNodesOnConfigMapChanges, InitJob, InitResources,
         InitResourceFails, InitFailed, RemoveNodeSafe, InitDone, InitResource, InitRollsBack, UpdateResources,
         DeleteJob, DeleteResources, DeleteDone, DeInitResource, NodeDeleteDelayElapses, DeleteNodeJob,
         PodDataStoreSyncs, vars, counters, updates, updateErrs
<1> QED
  BY <1>0, <1>1, <1>2, <1>3 DEF CounterType

\* The cluster and the controllers' requests keep their types.
LEMMA ControllerStep ==
  ASSUME TypeOK, [Next]_vars
  PROVE  ClusterType' /\ ControllerType'
<1> USE TypeParts
<1>0. ClusterType /\ ControllerType
  OBVIOUS
<1>1. CASE \E i \in Instance : NodeRegisters(i)
  BY <1>0, <1>1 DEF NodeRegisters, ClusterType, ControllerType
<1>2. CASE NodeRemoved \/ NodeUpdated \/ ConfigMapUpdated
  <2>1. CASE NodeRemoved
    BY <1>0, <2>1 DEF NodeRemoved, ClusterType, ControllerType
  <2>2. CASE NodeUpdated
    BY <1>0, <2>2 DEF NodeUpdated, ClusterType, ControllerType
  <2>3. CASE ConfigMapUpdated
    BY <1>0, <2>3 DEF ConfigMapUpdated, ClusterType, ControllerType
  <2> QED
    BY <1>2, <2>1, <2>2, <2>3
<1>3. CASE Reconcile \/ PodDataStoreSyncs
  <2>1. CASE Reconcile
    <3>1. nodePc' \in {"idle", "AddNode", "UpdateNode", "DeleteNode"}
      BY <2>1, Zenon DEF Reconcile
    <3>2. nodeEvent' \in BOOLEAN
      BY <2>1 DEF Reconcile
    <3> QED
      BY <1>0, <2>1, <3>1, <3>2 DEF Reconcile, ClusterType, ControllerType, cluster
  <2>2. CASE PodDataStoreSyncs
    BY <1>0, <2>2 DEF PodDataStoreSyncs, ClusterType, ControllerType, cluster
  <2> QED
    BY <1>3, <2>1, <2>2
<1>4. CASE ManagerCall
  <2>1. UNCHANGED <<cluster, capacity, podSynced, configEvent, configPc, curWinIPAMEnabledCond>>
    BY <1>4 DEF ManagerCall, AddNode, UpdateNode, DeleteNode
  <2>2. \E err \in BOOLEAN : returns(err)
    BY <1>4 DEF ManagerCall, AddNode, UpdateNode, DeleteNode
  <2>3. nodePc' = "idle" /\ nodeEvent' \in BOOLEAN
    BY <2>2 DEF returns
  <2> QED
    BY <1>0, <2>1, <2>3 DEF ClusterType, ControllerType, cluster
<1>5. CASE ConfigMapStep
  <2>1. CASE ConfigMapReconcile
    <3>1. configPc' \in {"idle", "UpdateNode"}
      BY <2>1, Zenon DEF ConfigMapReconcile
    <3> QED
      BY <1>0, <2>1, <3>1 DEF ConfigMapReconcile, ClusterType, ControllerType, cluster
  <2>2. CASE UpdateNodesOnConfigMapChanges
    <3>1. configEvent' \in BOOLEAN
      BY <1>0, <2>2 DEF UpdateNodesOnConfigMapChanges, ControllerType
    <3> QED
      BY <1>0, <2>2, <3>1 DEF UpdateNodesOnConfigMapChanges, ClusterType, ControllerType, cluster
  <2> QED
    BY <1>5, <2>1, <2>2 DEF ConfigMapStep
<1>6. CASE \E o \in Object : UpdateResources(o)
  <2>1. PICK o \in Object : UpdateResources(o)
    BY <1>6
  <2>2. capacity' \in BOOLEAN
    BY <1>0, <2>1 DEF UpdateResources, ClusterType
  <2> QED
    BY <1>0, <2>1, <2>2 DEF UpdateResources, ClusterType, ControllerType, cluster, controllers
<1>7. CASE (\E o \in Object : InitJob(o) \/ DeleteJob(o)) \/ NodeDeleteDelayElapses \/ DeleteNodeJob \/ UNCHANGED vars
  <2>1. UNCHANGED <<cluster, capacity, controllers>>
    BY <1>7 DEF InitJob, InitResources, InitResourceFails, InitFailed, RemoveNodeSafe, InitDone, InitResource,
                InitRollsBack, DeleteJob, DeleteResources, DeleteDone, DeInitResource, NodeDeleteDelayElapses,
                DeleteNodeJob, vars
  <2> QED
    BY <1>0, <2>1 DEF ClusterType, ControllerType, cluster, controllers
<1> QED
  BY <1>1, <1>2, <1>3, <1>4, <1>5, <1>6, <1>7 DEF Next

\* The manager's calls make typed node objects and jobs.
LEMMA ManagerStepType ==
  ASSUME TypeOK, ManagerStep
  PROVE  ManagerType' /\ JobType'
<1> USE TypeParts
<1>0. ClusterType /\ ManagerType /\ JobType
  OBVIOUS
<1>1. ASSUME NEW isManaged \in BOOLEAN, newNode(isManaged), UNCHANGED beside
      PROVE  /\ created + 1 \in Object /\ JobType'
             /\ jobs' \in SUBSET ({"Init", "Update", "Delete"} \X Object) => ManagerType'
  <2>1. created + 1 \in Object /\ created' \in 0 .. MaxObjects
    BY <1>0, <1>1, ObjectFacts DEF newNode, ManagerType, Object
  <2>2. [Unmade EXCEPT !.managed = isManaged, !.instance = registered] \in NodeObject
    BY <1>0 DEF Unmade, NodeObject, ClusterType
  <2>3. node' \in [Object -> NodeObject]
    BY <1>0, <1>1, <2>1, <2>2 DEF newNode, ManagerType
  <2>4. JobType'
    <3>1. overlap' \in BOOLEAN
      BY <1>0, <1>1 DEF newNode, JobType
    <3> QED
      BY <1>0, <1>1, <3>1 DEF JobType, beside, providers
  <2> QED
    BY <1>1, <2>1, <2>3, <2>4 DEF newNode, ManagerType
<1>2. CASE Quiet
  BY <1>0, <1>2 DEF Quiet, core, manager, providers, ManagerType, JobType
<1>3. CASE Selects
  <2>1. created + 1 \in Object /\ JobType'
    BY <1>1, <1>3 DEF Selects, UnManagedToManaged
  <2>2. jobs' \in SUBSET ({"Init", "Update", "Delete"} \X Object)
    BY <1>0, <1>3, <2>1 DEF Selects, UnManagedToManaged, ManagerType
  <2> QED
    BY <1>1, <1>3, <2>2 DEF Selects, UnManagedToManaged
<1>4. CASE AddsUnmanaged
  BY <1>0, <1>1, <1>4 DEF AddsUnmanaged, ManagerType
<1>5. CASE Deselects
  <2>1. jobs' \in SUBSET ({"Init", "Update", "Delete"} \X Object)
    BY <1>0, <1>5 DEF Deselects, ManagedToUnManaged, ManagerType, managed
  <2> QED
    BY <1>1, <1>5, <2>1 DEF Deselects, ManagedToUnManaged
<1>6. CASE Refreshes
  BY <1>0, <1>6 DEF Refreshes, StillManaged, ManagerType, JobType, managed, beside, providers
<1>7. CASE Forgets
  BY <1>0, <1>7 DEF Forgets, ManagerType, JobType, managed, beside, providers
<1> QED
  BY <1>2, <1>3, <1>4, <1>5, <1>6, <1>7 DEF ManagerStep

\* The asynchronous jobs keep the types.
LEMMA JobStepType ==
  ASSUME TypeOK, (\E o \in Object : JobStep(o)) \/ NodeDeleteDelayElapses \/ DeleteNodeJob
  PROVE  ManagerType' /\ JobType'
<1> USE TypeParts
<1>0. ManagerType /\ JobType
  OBVIOUS
<1>1. Idle \in RunningJob /\ \A b \in BOOLEAN : supported(b) \in SUBSET Provider
  BY DEF Idle, RunningJob, supported
<1>2. ASSUME NEW p \in Provider, deInitResource(p)
      PROVE  /\ cache' \in [Provider -> Instance \cup {NoInstance}]
             /\ deleteNodeJobs' \in SUBSET {"delayed", "queued"}
  BY <1>0, <1>2 DEF deInitResource, JobType
<1>3. ASSUME NEW o \in Object, InitJob(o) PROVE ManagerType' /\ JobType'
  <2>1. CASE InitResources(o)
    <3>1. node' \in [Object -> NodeObject]
      BY <1>0, <2>1 DEF InitResources, ManagerType, NodeObject
    <3>2. running' \in [Object -> RunningJob]
      <4>1. /\ [Idle EXCEPT !.op = "Init", !.todo = supported(TRUE)] \in RunningJob
            /\ [Idle EXCEPT !.op = "Init", !.failed = TRUE] \in RunningJob
        BY <1>1 DEF RunningJob
      <4> QED
        BY <1>0, <2>1, <4>1 DEF InitResources, JobType
    <3> QED
      BY <1>0, <2>1, <3>1, <3>2 DEF InitResources, ManagerType, JobType, providers
  <2>2. CASE InitResourceFails(o)
    BY <1>0, <2>2 DEF InitResourceFails, ManagerType, JobType, RunningJob, manager, providers
  <2>3. CASE InitFailed(o)
    BY <1>0, <1>1, <2>3 DEF InitFailed, ManagerType, JobType, manager, providers
  <2>4. CASE RemoveNodeSafe(o)
    BY <1>0, <2>4 DEF RemoveNodeSafe, ManagerType, JobType, providers
  <2>5. CASE InitDone(o)
    <3>1. node' \in [Object -> NodeObject]
      BY <1>0, <2>5 DEF InitDone, ManagerType, NodeObject
    <3> QED
      BY <1>0, <1>1, <2>5, <3>1 DEF InitDone, ManagerType, JobType, providers
  <2>6. ASSUME NEW p \in Provider, InitResource(o, p) PROVE ManagerType' /\ JobType'
    <3>1. running' \in [Object -> RunningJob]
      <4>1. running[o] \in RunningJob /\ running[o].todo \ {p} \in SUBSET Provider /\ running[o].inited \cup {p} \in SUBSET Provider
        BY <1>0 DEF JobType, RunningJob
      <4>2. [running[o] EXCEPT !.todo = @ \ {p}, !.inited = @ \cup {p}] \in RunningJob
        BY <4>1 DEF RunningJob
      <4>3. running' = [running EXCEPT ![o] = [running[o] EXCEPT !.todo = @ \ {p}, !.inited = @ \cup {p}]]
        BY <1>0, <2>6 DEF InitResource, JobType, RunningJob
      <4> QED
        BY <1>0, <4>2, <4>3 DEF JobType
    <3>2. cache' \in [Provider -> Instance \cup {NoInstance}]
      <4>1. node[o].instance \in Instance \cup {NoInstance}
        BY <1>0 DEF ManagerType, NodeObject
      <4> QED
        BY <1>0, <2>6, <4>1 DEF InitResource, JobType
    <3> QED
      BY <1>0, <2>6, <3>1, <3>2 DEF InitResource, ManagerType, JobType, manager
  <2>7. ASSUME NEW p \in Provider, InitRollsBack(o, p) PROVE ManagerType' /\ JobType'
    <3>1. running' \in [Object -> RunningJob]
      BY <1>0, <2>7 DEF InitRollsBack, JobType, RunningJob
    <3> QED
      BY <1>0, <1>2, <2>7, <3>1 DEF InitRollsBack, ManagerType, JobType, manager
  <2> QED
    BY <1>3, <2>1, <2>2, <2>3, <2>4, <2>5, <2>6, <2>7 DEF InitJob
<1>4. ASSUME NEW o \in Object, UpdateResources(o) PROVE ManagerType' /\ JobType'
  BY <1>0, <1>4 DEF UpdateResources, ManagerType, JobType, providers
<1>5. ASSUME NEW o \in Object, DeleteJob(o) PROVE ManagerType' /\ JobType'
  <2>1. CASE DeleteResources(o)
    <3>1. node' \in [Object -> NodeObject]
      BY <1>0, <2>1 DEF DeleteResources, ManagerType, NodeObject
    <3>2. running' \in [Object -> RunningJob]
      <4>1. supported(node[o].loaded) \in SUBSET Provider
        BY DEF supported
      <4>2. [Idle EXCEPT !.op = "Delete", !.todo = supported(node[o].loaded)] \in RunningJob
        BY <1>1, <4>1 DEF RunningJob
      <4> QED
        BY <1>0, <2>1, <4>2 DEF DeleteResources, JobType
    <3>3. overtaken' \in BOOLEAN
      BY <1>0, <2>1 DEF DeleteResources, JobType
    <3> QED
      BY <1>0, <2>1, <3>1, <3>2, <3>3 DEF DeleteResources, ManagerType, JobType, providers
  <2>2. CASE DeleteDone(o)
    BY <1>0, <1>1, <2>2 DEF DeleteDone, ManagerType, JobType, manager, providers
  <2>3. ASSUME NEW p \in Provider, DeInitResource(o, p) PROVE ManagerType' /\ JobType'
    <3>1. running' \in [Object -> RunningJob]
      BY <1>0, <2>3 DEF DeInitResource, JobType, RunningJob
    <3> QED
      BY <1>0, <1>2, <2>3, <3>1 DEF DeInitResource, ManagerType, JobType, manager
  <2> QED
    BY <1>5, <2>1, <2>2, <2>3 DEF DeleteJob
<1>6. CASE NodeDeleteDelayElapses
  BY <1>0, <1>6 DEF NodeDeleteDelayElapses, ManagerType, JobType, manager
<1>7. CASE DeleteNodeJob
  BY <1>0, <1>7 DEF DeleteNodeJob, ManagerType, JobType, manager, Provider
<1> QED
  BY <1>3, <1>4, <1>5, <1>6, <1>7 DEF JobStep

\* A step preserves the types.
LEMMA StepType ==
  ASSUME TypeOK, [Next]_vars
  PROVE  TypeOK'
  BY TypeParts, Effects, CounterStep, ControllerStep, ManagerStepType, JobStepType

\* The states the controller may start in are typed.
LEMMA InitType == Init => TypeOK
<1> SUFFICES ASSUME Init PROVE TypeOK
  OBVIOUS
<1>1. ClusterType
  BY NodeAssumption DEF Init, ClusterType
<1>2. ControllerType
  BY DEF Init, ControllerType
<1>3. Unmade \in NodeObject /\ Idle \in RunningJob
  BY DEF Unmade, NodeObject, Idle, RunningJob
<1>4. ManagerType /\ JobType
  <2>1. ManagerType
    BY <1>3, ObjectFacts DEF Init, ManagerType
  <2>2. JobType
    BY <1>3 DEF Init, JobType
  <2> QED
    BY <2>1, <2>2
<1>5. CounterType
  BY NodeAssumption DEF Init, CounterType
<1> QED
  BY <1>1, <1>2, <1>4, <1>5, TypeParts

\* The cluster, the controllers' requests, the node objects, their jobs and
\* the providers' caches keep their types.
THEOREM TypeCorrect == Spec => []TypeOK
<1> QED
  BY InitType, StepType, PTL DEF Spec

-----------------------------------------------------------------------------
(***************************************************************************)
(* The manager implements NodeView.  A ready node would fall back to       *)
(* initializing if a Delete job cleared the flag of the object that is in  *)
(* the data store: it never does, for a Delete job is submitted for an     *)
(* object that leaves the data store, and objects are never put back.      *)
(***************************************************************************)

\* Something is left to do for the object.
pending(o) == <<"Init", o>> \in jobs \/ <<"Delete", o>> \in jobs \/ running[o] # Idle \/ o \in removing

Made == dataStore <= created /\ \A o \in Object : pending(o) => o <= created

Departed == \A o \in Object : <<"Delete", o>> \in jobs => o # dataStore

\* A job leaves nothing to do for an object that had nothing to do before.
LEMMA JobEndsPending ==
  ASSUME TypeOK, NEW o \in Object, JobStep(o)
  PROVE  \A q \in Object : pending(q)' => pending(q)
<1>0. ManagerType /\ JobType
  BY TypeParts
<1> SUFFICES ASSUME NEW q \in Object, pending(q)' PROVE pending(q)
  OBVIOUS
<1>1. CASE InitResources(o) \/ UpdateResources(o) \/ DeleteResources(o) \/ RemoveNodeSafe(o)
  <2>1. jobs' \subseteq jobs /\ removing' \subseteq removing
    BY <1>1 DEF InitResources, UpdateResources, DeleteResources, RemoveNodeSafe
  <2>2. q # o => running'[q] = running[q]
    BY <1>0, <1>1 DEF InitResources, UpdateResources, DeleteResources, RemoveNodeSafe, JobType
  <2>3. q = o => pending(q) \/ running'[q] = running[q]
    BY <1>1 DEF InitResources, UpdateResources, DeleteResources, RemoveNodeSafe, takeJob, pending
  <2> QED
    BY <2>1, <2>2, <2>3 DEF pending
<1>2. CASE InitResourceFails(o) \/ InitFailed(o) \/ InitDone(o) \/ DeleteDone(o)
           \/ \E p \in Provider : InitResource(o, p) \/ InitRollsBack(o, p) \/ DeInitResource(o, p)
  <2>1. running[o] # Idle
    <3>1. running[o].op \in {"Init", "Delete"} \/ running[o].failed
      BY <1>2 DEF InitResourceFails, InitFailed, InitDone, DeleteDone, InitResource, InitRollsBack, DeInitResource
    <3>2. Idle.op = "none" /\ ~Idle.failed
      BY DEF Idle
    <3> QED
      BY <3>1, <3>2
  <2>2. /\ <<"Init", q>> \in jobs' => <<"Init", q>> \in jobs
        /\ <<"Delete", q>> \in jobs' => <<"Delete", q>> \in jobs
        /\ removing' \subseteq removing \cup {o}
    BY <1>2 DEF InitResourceFails, InitFailed, InitDone, DeleteDone, InitResource, InitRollsBack, DeInitResource, manager
  <2>3. q # o => running'[q] = running[q]
    <3>1. CASE \E p \in Provider : InitResource(o, p)
      BY <1>0, <3>1 DEF InitResource, JobType
    <3>2. CASE InitResourceFails(o) \/ InitFailed(o) \/ InitDone(o) \/ DeleteDone(o)
      BY <1>0, <3>2 DEF InitResourceFails, InitFailed, InitDone, DeleteDone, JobType
    <3>3. CASE \E p \in Provider : InitRollsBack(o, p) \/ DeInitResource(o, p)
      BY <1>0, <3>3 DEF InitRollsBack, DeInitResource, JobType
    <3> QED
      BY <1>2, <3>1, <3>2, <3>3
  <2> QED
    BY <2>1, <2>2, <2>3 DEF pending
<1> QED
  BY <1>1, <1>2 DEF JobStep, InitJob, DeleteJob

\* Jobs are submitted for objects that were made before.
LEMMA MadeStep ==
  ASSUME TypeOK, Made, [Next]_vars
  PROVE  Made'
<1>0. ManagerType /\ JobType
  BY TypeParts
<1>1. created \in Nat /\ dataStore \in Nat /\ Object \subseteq Nat
  BY <1>0, ObjectFacts DEF ManagerType, None
<1>2. ASSUME created' \in Nat, created' >= created, dataStore' = dataStore \/ dataStore' = None \/ dataStore' = created',
             \A o \in Object : pending(o)' => pending(o) \/ o = created' \/ o = dataStore
      PROVE  Made'
  BY <1>1, <1>2 DEF Made, None
<1>3. ASSUME NEW isManaged, newNode(isManaged)
      PROVE  created' = created + 1 /\ dataStore' = created'
  BY <1>3 DEF newNode
<1>4. CASE Quiet
  BY <1>1, <1>2, <1>4 DEF Quiet, core, manager, pending
<1>5. CASE Selects
  <2>1. created' = created + 1 /\ dataStore' = created'
    BY <1>3, <1>5 DEF Selects, UnManagedToManaged
  <2>2. \A o \in Object : pending(o)' => pending(o) \/ o = created'
    BY <1>5, <2>1 DEF Selects, UnManagedToManaged, beside, pending
  <2> QED
    BY <1>1, <1>2, <2>1, <2>2
<1>6. CASE AddsUnmanaged
  <2>1. created' = created + 1 /\ dataStore' = created'
    BY <1>3, <1>6 DEF AddsUnmanaged
  <2>2. \A o \in Object : pending(o)' => pending(o)
    BY <1>6 DEF AddsUnmanaged, beside, pending
  <2> QED
    BY <1>1, <1>2, <2>1, <2>2
<1>7. CASE Deselects
  <2>1. created' = created + 1 /\ dataStore' = created'
    BY <1>3, <1>7 DEF Deselects, ManagedToUnManaged
  <2>2. \A o \in Object : pending(o)' => pending(o) \/ o = dataStore
    BY <1>7 DEF Deselects, ManagedToUnManaged, beside, pending
  <2> QED
    BY <1>1, <1>2, <2>1, <2>2
<1>8. CASE Refreshes
  BY <1>1, <1>2, <1>8 DEF Refreshes, StillManaged, beside, pending
<1>9. CASE Forgets
  BY <1>1, <1>2, <1>9 DEF Forgets, beside, pending
<1>10. ASSUME NEW o \in Object, JobStep(o) PROVE Made'
  <2>1. created' = created /\ (dataStore' = dataStore \/ dataStore' = None)
    BY <1>10 DEF JobStep, InitJob, InitResources, InitResourceFails, InitFailed, RemoveNodeSafe, InitDone, InitResource,
                 InitRollsBack, UpdateResources, DeleteJob, DeleteResources, DeleteDone, DeInitResource, manager
  <2>2. \A q \in Object : pending(q)' => pending(q)
    BY <1>10, JobEndsPending
  <2> QED
    BY <1>1, <1>2, <2>1, <2>2
<1>11. CASE NodeDeleteDelayElapses \/ DeleteNodeJob
  BY <1>1, <1>2, <1>11 DEF NodeDeleteDelayElapses, DeleteNodeJob, manager, pending
<1> QED
  BY <1>4, <1>5, <1>6, <1>7, <1>8, <1>9, <1>10, <1>11, Effects DEF ManagerStep

\* Delete jobs are submitted for objects that leave the data store for good.
LEMMA DepartedStep ==
  ASSUME TypeOK, Made, Departed, [Next]_vars
  PROVE  Departed'
<1>0. ManagerType /\ JobType
  BY TypeParts
<1>1. created \in Nat /\ dataStore \in Nat /\ Object \subseteq Nat /\ None \notin Object
  BY <1>0, ObjectFacts DEF ManagerType, None
<1>2. ASSUME NEW o \in Object, <<"Delete", o>> \in jobs \/ o = dataStore PROVE o <= created
  BY <1>1, <1>2 DEF Made, pending
<1>3. ASSUME \A o \in Object : <<"Delete", o>> \in jobs' => <<"Delete", o>> \in jobs, dataStore' \in {dataStore, None}
      PROVE  Departed'
  BY <1>1, <1>3 DEF Departed
<1>4. ASSUME NEW isManaged, newNode(isManaged), \A o \in Object : <<"Delete", o>> \in jobs' => <<"Delete", o>> \in jobs \/ o = dataStore
      PROVE  Departed'
  <2>1. dataStore' = created + 1
    BY <1>4 DEF newNode
  <2> QED
    BY <1>1, <1>2, <1>4, <2>1 DEF Departed
<1>5. CASE Quiet
  BY <1>3, <1>5 DEF Quiet, core, manager
<1>6. CASE Selects
  BY <1>4, <1>6 DEF Selects, UnManagedToManaged
<1>7. CASE AddsUnmanaged
  BY <1>4, <1>7 DEF AddsUnmanaged
<1>8. CASE Deselects
  BY <1>4, <1>8 DEF Deselects, ManagedToUnManaged
<1>9. CASE Refreshes
  BY <1>3, <1>9 DEF Refreshes, StillManaged
<1>10. CASE Forgets
  BY <1>1, <1>10 DEF Forgets, Departed
<1>11. ASSUME NEW o \in Object, JobStep(o) PROVE Departed'
  <2>1. /\ \A q \in Object : <<"Delete", q>> \in jobs' => <<"Delete", q>> \in jobs
        /\ dataStore' \in {dataStore, None}
    BY <1>11 DEF JobStep, InitJob, InitResources, InitResourceFails, InitFailed, RemoveNodeSafe, InitDone, InitResource,
                 InitRollsBack, UpdateResources, DeleteJob, DeleteResources, DeleteDone, DeInitResource, manager
  <2> QED
    BY <1>3, <2>1
<1>12. CASE NodeDeleteDelayElapses \/ DeleteNodeJob
  BY <1>3, <1>12 DEF NodeDeleteDelayElapses, DeleteNodeJob, manager
<1> QED
  BY <1>5, <1>6, <1>7, <1>8, <1>9, <1>10, <1>11, <1>12, Effects DEF ManagerStep

\* What GetNode answers in each state, and in the next one.
LEMMA ViewCases ==
  /\ dataStore = None => view = "unknown"
  /\ dataStore # None /\ ~node[dataStore].managed => view = "unmanaged"
  /\ dataStore # None /\ node[dataStore].managed /\ ~node[dataStore].ready => view = "initializing"
  /\ dataStore # None /\ node[dataStore].managed /\ node[dataStore].ready => view = "ready"
  /\ dataStore' = None => view' = "unknown"
  /\ dataStore' # None /\ ~node'[dataStore'].managed => view' = "unmanaged"
  /\ dataStore' # None /\ node'[dataStore'].managed /\ ~node'[dataStore'].ready => view' = "initializing"
  /\ dataStore' # None /\ node'[dataStore'].managed /\ node'[dataStore'].ready => view' = "ready"
  BY DEF view, managed

\* A step of the manager is a step of NodeView, or none.
LEMMA ViewStep ==
  ASSUME TypeOK, Made, Departed, [Next]_vars
  PROVE  [View!Next]_view
<1> USE DEF View!Next, View!Add, View!Select, View!BecomeReady, View!Deselect, View!Forget,
            View!Unknown, View!Unmanaged, View!Initializing, View!Ready
<1>0. ManagerType /\ JobType
  BY TypeParts
<1>1. None \notin Object
  BY ObjectFacts
<1>2. ASSUME NEW isManaged \in BOOLEAN, newNode(isManaged)
      PROVE  dataStore' # None /\ node'[dataStore'].managed = isManaged /\ ~node'[dataStore'].ready
  <2>1. created + 1 \in Object
    BY <1>0, <1>2, ObjectFacts DEF newNode, ManagerType, Object
  <2> QED
    BY <1>0, <1>1, <1>2, <2>1 DEF newNode, ManagerType, Unmade
<1>3. ASSUME dataStore' = None PROVE [View!Next]_view
  BY <1>3, ViewCases
<1>4. ASSUME dataStore' = dataStore,
             dataStore # None => /\ node'[dataStore].managed = node[dataStore].managed
                                 /\ node[dataStore].ready => node'[dataStore].ready
      PROVE  [View!Next]_view
  BY <1>4, ViewCases
<1>5. CASE Quiet
  BY <1>4, <1>5 DEF Quiet, core, manager
<1>6. CASE Selects
  <2>1. view' = "initializing"
    BY <1>2, <1>6, ViewCases DEF Selects, UnManagedToManaged
  <2>2. view \in {"unknown", "unmanaged"}
    BY <1>6, ViewCases DEF Selects, managed
  <2> QED
    BY <2>1, <2>2
<1>7. CASE AddsUnmanaged
  <2>1. view' = "unmanaged"
    BY <1>2, <1>7, ViewCases DEF AddsUnmanaged
  <2>2. view = "unknown"
    BY <1>7, ViewCases DEF AddsUnmanaged
  <2> QED
    BY <2>1, <2>2
<1>8. CASE Deselects
  <2>1. view' = "unmanaged"
    BY <1>2, <1>8, ViewCases DEF Deselects, ManagedToUnManaged
  <2>2. view \in {"initializing", "ready"}
    BY <1>8, ViewCases DEF Deselects, managed
  <2> QED
    BY <2>1, <2>2
<1>9. CASE Refreshes
  BY <1>4, <1>9 DEF Refreshes, StillManaged
<1>10. CASE Forgets
  BY <1>3, <1>10 DEF Forgets
<1>11. ASSUME NEW o \in Object, JobStep(o) PROVE [View!Next]_view
  <2>1. CASE RemoveNodeSafe(o)
    BY <1>3, <2>1 DEF RemoveNodeSafe
  <2>2. CASE InitResources(o)
    <3>1. node'[dataStore] = node[dataStore] \/ node'[dataStore] = [node[dataStore] EXCEPT !.loaded = TRUE] \/ dataStore = None
      BY <1>0, <2>2 DEF InitResources, ManagerType
    <3>2. dataStore # None => node[dataStore] \in NodeObject
      BY <1>0 DEF ManagerType
    <3> QED
      BY <1>4, <2>2, <3>1, <3>2 DEF InitResources, NodeObject
  <2>3. CASE InitDone(o)
    <3>1. node'[dataStore] = node[dataStore] \/ node'[dataStore] = [node[dataStore] EXCEPT !.ready = TRUE] \/ dataStore = None
      BY <1>0, <2>3 DEF InitDone, ManagerType
    <3>2. dataStore # None => node[dataStore] \in NodeObject
      BY <1>0 DEF ManagerType
    <3> QED
      BY <1>4, <2>3, <3>1, <3>2 DEF InitDone, NodeObject
  <2>4. CASE DeleteResources(o)
    <3>1. o # dataStore
      BY <2>4 DEF DeleteResources, takeJob, Departed
    <3>2. dataStore # None => node'[dataStore] = node[dataStore]
      BY <1>0, <2>4, <3>1 DEF DeleteResources, ManagerType
    <3> QED
      BY <1>4, <2>4, <3>2 DEF DeleteResources
  <2>5. CASE InitResourceFails(o) \/ InitFailed(o) \/ UpdateResources(o) \/ DeleteDone(o)
             \/ \E p \in Provider : InitResource(o, p) \/ InitRollsBack(o, p) \/ DeInitResource(o, p)
    <3>1. UNCHANGED <<dataStore, node>>
      BY <2>5 DEF InitResourceFails, InitFailed, UpdateResources, DeleteDone, InitResource, InitRollsBack,
                  DeInitResource, manager
    <3> QED
      BY <1>4, <3>1
  <2> QED
    BY <1>11, <2>1, <2>2, <2>3, <2>4, <2>5 DEF JobStep, InitJob, DeleteJob
<1>12. CASE NodeDeleteDelayElapses \/ DeleteNodeJob
  BY <1>4, <1>12 DEF NodeDeleteDelayElapses, DeleteNodeJob, manager
<1> QED
  BY <1>5, <1>6, <1>7, <1>8, <1>9, <1>10, <1>11, <1>12, Effects DEF ManagerStep

\* At the start nothing is pending and no object was made.
LEMMA InitMade == Init => Made /\ Departed
  BY ObjectFacts DEF Init, Made, Departed, pending, None

\* What GetNode answers the pod controller changes only as NodeView allows: a
\* ready node never falls back to initializing, however jobs, failures and
\* re-registrations of the name interleave.
THEOREM Refinement == Spec => ViewSpec
<1>1. Init => View!Init
  BY ViewCases DEF Init, View!Init, View!Unknown
<1>2. TypeOK /\ Made /\ Departed /\ [Next]_vars => Made' /\ Departed' /\ [View!Next]_view
  BY MadeStep, DepartedStep, ViewStep
<1> QED
  BY <1>1, <1>2, InitMade, TypeCorrect, PTL DEF Spec, ViewSpec, View!Spec

-----------------------------------------------------------------------------
(***************************************************************************)
(* The providers' entries through a node object's life.  As long as no     *)
(* object was made during the teardown of another, and no Delete job       *)
(* overtook the Init job of its object, at most one object is active: it   *)
(* is managed, or has work pending.  The invariant says for each phase of  *)
(* that object's life which entries the providers have, and that they have *)
(* none when no object is active.  ReadyHasResources alone is not          *)
(* inductive: it says nothing of the entries that an initialization finds  *)
(* when it begins.                                                         *)
(***************************************************************************)
active(o) == pending(o) \/ (o = dataStore /\ managed)

\* The trunk of a node that is torn down goes with the DeleteNode job.
clean(p) == cache[p] = NoInstance \/ (p = "branch" /\ deleteNodeJobs # {})

\* The object is in the data store, or its teardown is to come.
anchored(o) == (o = dataStore /\ managed) \/ <<"Delete", o>> \in jobs

Waiting(o) ==
  /\ anchored(o) /\ <<"Init", o>> \in jobs /\ o \notin removing /\ ~node[o].ready
  /\ running[o] = Idle /\ deleteNodeJobs = {}
  /\ \A p \in Provider : cache[p] = NoInstance

Initializing(o) ==
  /\ anchored(o) /\ <<"Init", o>> \notin jobs /\ o \notin removing /\ ~node[o].ready /\ node[o].loaded
  /\ running[o].op = "Init" /\ ~running[o].failed /\ deleteNodeJobs = {}
  /\ running[o].todo \cup running[o].inited = supported(TRUE)
  /\ \A p \in Provider : cache[p] = IF p \in running[o].inited THEN node[o].instance ELSE NoInstance

RollingBack(o) ==
  /\ <<"Init", o>> \notin jobs /\ ~node[o].ready
  /\ running[o].op = "Init" /\ running[o].failed
  /\ \A p \in Provider \ running[o].inited : clean(p)

Serving(o) ==
  /\ anchored(o) /\ <<"Init", o>> \notin jobs /\ o \notin removing /\ node[o].ready /\ node[o].loaded
  /\ running[o] = Idle /\ deleteNodeJobs = {}
  /\ \A p \in Provider : cache[p] = IF p \in supported(TRUE) THEN node[o].instance ELSE NoInstance

TearingDown(o) ==
  /\ <<"Init", o>> \notin jobs /\ ~node[o].ready
  /\ running[o].op = "Delete" /\ ~running[o].failed
  /\ \A p \in Provider \ running[o].todo : clean(p)

Down(o) ==
  /\ <<"Init", o>> \notin jobs /\ ~node[o].ready
  /\ running[o] = Idle
  /\ \A p \in Provider : clean(p)

Phase(o) == Waiting(o) \/ Initializing(o) \/ RollingBack(o) \/ Serving(o) \/ TearingDown(o) \/ Down(o)

Life ==
  /\ \A o, q \in Object : active(o) /\ active(q) => o = q
  /\ \A o \in Object : active(o) => Phase(o)
  /\ (\A o \in Object : ~active(o)) => \A p \in Provider : clean(p)

LifeInv == ~overlap /\ ~overtaken => Life

\* A phase is over only when the step concerns the object or the providers.
LEMMA PhaseFrame ==
  ASSUME NEW o \in Object, Phase(o),
         anchored(o) => anchored(o)', <<"Init", o>> \in jobs' <=> <<"Init", o>> \in jobs,
         o \in removing' => o \in removing, node'[o] = node[o], running'[o] = running[o],
         UNCHANGED <<os, cache, deleteNodeJobs>>
  PROVE  Phase(o)'
<1>1. supported(TRUE)' = supported(TRUE)
  BY DEF supported
<1>2. \A p \in Provider : clean(p)' <=> clean(p)
  BY DEF clean
<1>3. CASE Waiting(o)
  BY <1>3 DEF Waiting, Phase
<1>4. CASE Initializing(o)
  <2>1. Initializing(o)'
    BY <1>1, <1>4 DEF Initializing
  <2> QED
    BY <2>1 DEF Phase
<1>5. CASE Serving(o)
  <2>1. Serving(o)'
    BY <1>1, <1>5 DEF Serving
  <2> QED
    BY <2>1 DEF Phase
<1>6. CASE RollingBack(o)
  BY <1>2, <1>6 DEF RollingBack, Phase
<1>7. CASE TearingDown(o)
  BY <1>2, <1>7 DEF TearingDown, Phase
<1>8. CASE Down(o)
  BY <1>2, <1>8 DEF Down, Phase
<1> QED
  BY <1>3, <1>4, <1>5, <1>6, <1>7, <1>8 DEF Phase

\* The manager's calls keep the active object in its phase, and an object is
\* selected when none is active.
LEMMA ManagerLife ==
  ASSUME TypeOK, Made, Life, ManagerStep, ~overlap'
  PROVE  Life'
<1>0. ManagerType /\ JobType /\ created \in Nat /\ Object \subseteq Nat /\ None \notin Object /\ created + 1 # None
  BY TypeParts, ObjectFacts DEF ManagerType, None
<1>1. ASSUME \A o \in Object : active(o)' <=> active(o),
             \A o \in Object : active(o) /\ anchored(o) => anchored(o)',
             \A o \in Object : active(o) => node'[o] = node[o],
             \A o \in Object : <<"Init", o>> \in jobs' <=> <<"Init", o>> \in jobs,
             UNCHANGED beside
      PROVE  Life'
  <2>1. \A o \in Object : active(o) => Phase(o)'
    BY <1>1, PhaseFrame DEF beside, providers, Life
  <2>2. \A p \in Provider : clean(p)' <=> clean(p)
    BY <1>1 DEF clean, beside, providers
  <2> QED
    BY <1>1, <2>1, <2>2 DEF Life
<1>2. \A o \in Object : active(o) => o <= created
  BY DEF Made, active
<1>3. ASSUME NEW isManaged \in BOOLEAN, newNode(isManaged)
      PROVE  /\ created + 1 \in Object
             /\ \A o \in Object : o <= created => node'[o] = node[o]
             /\ dataStore' = created + 1
             /\ node'[created + 1] = [Unmade EXCEPT !.managed = isManaged, !.instance = registered]
  <2>1. created + 1 \in Object
    BY <1>0, <1>3, ObjectFacts DEF newNode, ManagerType, Object
  <2>2. \A o \in Object : o <= created => o # created + 1
    BY <1>0
  <2> QED
    BY <1>0, <1>3, <2>1, <2>2 DEF newNode, ManagerType
<1>4. CASE Quiet
  BY <1>1, <1>4 DEF Quiet, core, manager, beside, active, anchored, pending, managed
<1>5. CASE Refreshes
  BY <1>1, <1>5 DEF Refreshes, StillManaged, beside, active, anchored, pending, managed
<1>6. CASE Selects
  <2>1. Settled
    BY <1>6 DEF Selects, UnManagedToManaged, newNode
  <2>2. \A o \in Object : ~pending(o) /\ running[o] = Idle
    BY <2>1 DEF Settled, pending
  <2>3. \A o \in Object : ~active(o)
    BY <1>6, <2>2 DEF Selects, active
  <2>4. \A p \in Provider : cache[p] = NoInstance
    BY <2>1, <2>3 DEF Life, clean, Settled
  <2>n. PICK n \in Object : n = created + 1
    BY <1>3, <1>6 DEF Selects, UnManagedToManaged
  <2>5. dataStore' = n /\ node'[n].managed /\ ~node'[n].ready
    BY <1>3, <1>6, <2>n DEF Selects, UnManagedToManaged, Unmade
  <2>6. jobs' = jobs \cup {<<"Init", n>>} /\ UNCHANGED beside
    BY <1>6, <2>n DEF Selects, UnManagedToManaged
  <2>7. \A o \in Object : pending(o)' => o = n
    <3> SUFFICES ASSUME NEW o \in Object, pending(o)', o # n PROVE FALSE
      OBVIOUS
    <3>1. <<"Init", o>> \notin jobs' /\ <<"Delete", o>> \notin jobs'
      BY <2>2, <2>6 DEF pending
    <3>2. running'[o] = Idle /\ o \notin removing'
      BY <2>2, <2>6 DEF pending, beside
    <3> QED
      BY <3>1, <3>2 DEF pending
  <2>8. \A o \in Object : active(o)' => o = n
    BY <2>5, <2>7 DEF active, managed
  <2>9. Waiting(n)' /\ active(n)'
    BY <1>0, <2>1, <2>2, <2>4, <2>5, <2>6 DEF Waiting, anchored, active, pending, managed, Settled, beside, providers, None
  <2> QED
    BY <2>5, <2>8, <2>9 DEF Life, Phase
<1>7. CASE AddsUnmanaged
  <2>1. dataStore = None /\ newNode(FALSE) /\ UNCHANGED jobs /\ UNCHANGED beside
    BY <1>7 DEF AddsUnmanaged
  <2>2. ~managed'
    BY <1>3, <2>1 DEF managed, Unmade
  <2>3. ~managed
    BY <2>1 DEF managed
  <2>4. \A o \in Object : (pending(o)' <=> pending(o)) /\ (active(o)' <=> active(o)) /\ (anchored(o) => anchored(o)')
    BY <2>1, <2>2, <2>3 DEF active, anchored, pending, beside
  <2> QED
    BY <1>1, <1>2, <1>3, <2>1, <2>4
<1>8. CASE Deselects
  <2>1. managed /\ newNode(FALSE) /\ jobs' = jobs \cup {<<"Delete", dataStore>>} /\ UNCHANGED beside
    BY <1>8 DEF Deselects, ManagedToUnManaged
  <2>2. ~managed'
    BY <1>3, <2>1 DEF managed, Unmade
  <2>3. \A o \in Object : pending(o)' <=> pending(o) \/ o = dataStore
    BY <2>1 DEF pending, beside
  <2>4. \A o \in Object : (active(o)' <=> active(o)) /\ (anchored(o) => anchored(o)')
    BY <2>1, <2>2, <2>3 DEF active, anchored
  <2> QED
    BY <1>1, <1>2, <1>3, <2>1, <2>4
<1>9. CASE Forgets
  <2>1. ~managed'
    BY <1>9 DEF Forgets, managed
  <2>2. \A o \in Object : pending(o)' <=> pending(o) \/ (managed /\ o = dataStore)
    BY <1>9 DEF Forgets, pending, beside
  <2>3. \A o \in Object : (active(o)' <=> active(o)) /\ (anchored(o) => anchored(o)')
    BY <1>9, <2>1, <2>2 DEF Forgets, active, anchored
  <2> QED
    BY <1>1, <1>9, <2>3 DEF Forgets
<1> QED
  BY <1>4, <1>5, <1>6, <1>7, <1>8, <1>9 DEF ManagerStep

\* A job brings its object into the next phase of its life.
LEMMA JobPhase ==
  ASSUME TypeOK, NEW o \in Object, JobStep(o), ~UpdateResources(o), Phase(o), ~overtaken'
  PROVE  Phase(o)' /\ (active(o)' \/ \A p \in Provider : clean(p)')
<1>0. ManagerType /\ JobType /\ node[o] \in NodeObject /\ running[o] \in RunningJob
  BY TypeParts DEF ManagerType, JobType
<1>1. Idle.op = "none" /\ ~Idle.failed
  BY DEF Idle
<1>2. UNCHANGED os /\ supported(TRUE)' = supported(TRUE)
  <2>1. UNCHANGED os
    BY DEF JobStep, InitJob, InitResources, InitResourceFails, InitFailed, RemoveNodeSafe, InitDone, InitResource,
           InitRollsBack, UpdateResources, DeleteJob, DeleteResources, DeleteDone, DeInitResource, cluster
  <2> QED
    BY <2>1 DEF supported
<1>3. ASSUME NEW p \in Provider, deInitResource(p)
      PROVE  clean(p)' /\ \A q \in Provider : clean(q) => clean(q)'
  BY <1>0, <1>3 DEF deInitResource, clean, JobType
<1>4. running[o].op = "Init" /\ ~running[o].failed => Initializing(o)
  BY <1>1 DEF Phase, Waiting, RollingBack, Serving, TearingDown, Down
<1>5. running[o].failed => RollingBack(o)
  BY <1>1 DEF Phase, Waiting, Initializing, Serving, TearingDown, Down
<1>6. running[o].op = "Delete" => TearingDown(o)
  BY <1>1 DEF Phase, Waiting, Initializing, RollingBack, Serving, Down
<1>7. CASE InitResources(o)
  <2>1. Waiting(o)
    BY <1>1, <1>7 DEF InitResources, takeJob, Phase, Initializing, RollingBack, Serving, TearingDown, Down
  <2>2. /\ <<"Init", o>> \notin jobs' /\ ~node'[o].ready /\ node'[o].instance = node[o].instance
        /\ node'[o].managed = node[o].managed /\ o \notin removing' /\ dataStore' = dataStore
        /\ deleteNodeJobs' = {} /\ \A p \in Provider : cache'[p] = NoInstance
    BY <1>0, <1>7, <2>1 DEF InitResources, Waiting, ManagerType, NodeObject, providers
  <2>3. CASE /\ node' = [node EXCEPT ![o].loaded = TRUE]
             /\ running' = [running EXCEPT ![o] = [Idle EXCEPT !.op = "Init", !.todo = supported(TRUE)]]
    <3>1. /\ running'[o].op = "Init" /\ ~running'[o].failed /\ running'[o].inited = {}
          /\ running'[o].todo = supported(TRUE) /\ node'[o].loaded
      BY <1>0, <2>3 DEF ManagerType, JobType, NodeObject, Idle
    <3>2. anchored(o)'
      <4>1. anchored(o) /\ (<<"Delete", o>> \in jobs => <<"Delete", o>> \in jobs')
        BY <1>7, <2>1 DEF Waiting, InitResources
      <4> QED
        BY <2>2, <4>1 DEF anchored, managed
    <3>3. Initializing(o)'
      BY <1>2, <2>2, <3>1, <3>2 DEF Initializing
    <3> QED
      BY <1>1, <3>1, <3>3 DEF Phase, active, pending
  <2>4. CASE running' = [running EXCEPT ![o] = [Idle EXCEPT !.op = "Init", !.failed = TRUE]]
    <3>1. running'[o].op = "Init" /\ running'[o].failed
      BY <1>0, <2>4 DEF JobType, Idle
    <3>2. RollingBack(o)'
      BY <2>2, <3>1 DEF RollingBack, clean
    <3> QED
      BY <1>1, <3>1, <3>2 DEF Phase, active, pending
  <2> QED
    BY <1>7, <2>3, <2>4 DEF InitResources
<1>8. ASSUME NEW p \in Provider, InitResource(o, p)
      PROVE  Phase(o)' /\ (active(o)' \/ \A q \in Provider : clean(q)')
  <2>1. Initializing(o)
    BY <1>4, <1>8 DEF InitResource
  <2>2. running' = [running EXCEPT ![o] = [running[o] EXCEPT !.todo = @ \ {p}, !.inited = @ \cup {p}]]
    BY <1>0, <1>8 DEF InitResource, JobType, RunningJob
  <2>3. /\ running'[o].op = "Init" /\ ~running'[o].failed
        /\ running'[o].todo = running[o].todo \ {p} /\ running'[o].inited = running[o].inited \cup {p}
    BY <1>0, <1>8, <2>2 DEF InitResource, JobType, RunningJob
  <2>4. running'[o].todo \cup running'[o].inited = supported(TRUE)
    BY <1>8, <2>1, <2>3 DEF InitResource, Initializing
  <2>5. \A q \in Provider : cache'[q] = IF q \in running'[o].inited THEN node[o].instance ELSE NoInstance
    BY <1>0, <1>8, <2>1, <2>3 DEF InitResource, Initializing, JobType
  <2>6. UNCHANGED <<manager, removing, deleteNodeJobs>>
    BY <1>8 DEF InitResource
  <2>7. anchored(o)'
    BY <2>1, <2>6 DEF Initializing, anchored, managed, manager
  <2>8. Initializing(o)'
    BY <1>2, <2>1, <2>3, <2>4, <2>5, <2>6, <2>7 DEF Initializing, manager
  <2> QED
    BY <1>1, <2>3, <2>8 DEF Phase, active, pending
<1>9. CASE InitResourceFails(o)
  <2>1. Initializing(o)
    BY <1>4, <1>9 DEF InitResourceFails
  <2>2. running'[o].op = "Init" /\ running'[o].failed /\ running'[o].inited = running[o].inited
    BY <1>0, <1>9 DEF InitResourceFails, JobType, RunningJob
  <2>3. UNCHANGED <<manager, cache, deleteNodeJobs>>
    BY <1>9 DEF InitResourceFails, providers
  <2>4. RollingBack(o)'
    BY <2>1, <2>2, <2>3 DEF Initializing, RollingBack, clean, manager
  <2> QED
    BY <1>1, <2>2, <2>4 DEF Phase, active, pending
<1>10. ASSUME NEW p \in Provider, InitRollsBack(o, p)
       PROVE  Phase(o)' /\ (active(o)' \/ \A q \in Provider : clean(q)')
  <2>1. RollingBack(o)
    BY <1>5, <1>10 DEF InitRollsBack
  <2>2. /\ running'[o].op = "Init" /\ running'[o].failed
        /\ running'[o].inited = running[o].inited \ {p} /\ UNCHANGED manager
    BY <1>0, <1>10, <2>1 DEF InitRollsBack, RollingBack, JobType, RunningJob
  <2>3. clean(p)' /\ \A q \in Provider : clean(q) => clean(q)'
    BY <1>3, <1>10 DEF InitRollsBack
  <2>4. RollingBack(o)'
    BY <2>1, <2>2, <2>3 DEF RollingBack, manager
  <2> QED
    BY <1>1, <2>2, <2>4 DEF Phase, active, pending
<1>11. CASE InitFailed(o)
  <2>1. RollingBack(o) /\ running[o].inited = {}
    BY <1>5, <1>11 DEF InitFailed
  <2>2. running'[o] = Idle /\ o \in removing' /\ UNCHANGED <<manager, cache, deleteNodeJobs>>
    BY <1>0, <1>11 DEF InitFailed, JobType, providers
  <2>3. Down(o)'
    BY <2>1, <2>2 DEF RollingBack, Down, clean, manager
  <2> QED
    BY <2>2, <2>3 DEF Phase, active, pending
<1>12. CASE RemoveNodeSafe(o)
  <2>1. o \in removing /\ UNCHANGED <<node, jobs, running, cache, deleteNodeJobs>>
    BY <1>12 DEF RemoveNodeSafe, providers
  <2>2. RollingBack(o) \/ TearingDown(o) \/ Down(o)
    BY <2>1 DEF Phase, Waiting, Initializing, Serving
  <2>3. \A p \in Provider : clean(p)' <=> clean(p)
    BY <2>1 DEF clean
  <2>4. Phase(o)'
    BY <2>1, <2>2, <2>3 DEF Phase, RollingBack, TearingDown, Down
  <2>5. running[o] # Idle => active(o)'
    BY <2>1 DEF active, pending
  <2>6. running[o] = Idle => \A p \in Provider : clean(p)'
    BY <1>1, <2>2, <2>3 DEF RollingBack, TearingDown, Down
  <2> QED
    BY <2>4, <2>5, <2>6
<1>13. CASE InitDone(o)
  <2>1. Initializing(o) /\ running[o].inited = supported(TRUE)
    BY <1>4, <1>13 DEF InitDone, Initializing
  <2>2. /\ node'[o].ready /\ node'[o].loaded = node[o].loaded /\ node'[o].instance = node[o].instance
        /\ node'[o].managed = node[o].managed /\ dataStore' = dataStore
        /\ running'[o] = Idle /\ UNCHANGED <<removing, cache, deleteNodeJobs>>
    BY <1>0, <1>13 DEF InitDone, ManagerType, JobType, NodeObject, providers
  <2>3. jobs' = jobs \cup {<<"Update", o>>}
    BY <1>13 DEF InitDone
  <2>4. <<"Init", o>> \notin jobs' /\ (<<"Delete", o>> \in jobs => <<"Delete", o>> \in jobs')
    BY <2>1, <2>3 DEF Initializing
  <2>5. anchored(o)'
    BY <2>1, <2>2, <2>4 DEF Initializing, anchored, managed
  <2>6. Serving(o)'
    BY <1>2, <2>1, <2>2, <2>4, <2>5 DEF Initializing, Serving
  <2> QED
    BY <2>5, <2>6 DEF Phase, active, pending, anchored
<1>14. CASE DeleteResources(o)
  <2>1. <<"Init", o>> \notin jobs /\ running[o] = Idle
    BY <1>14 DEF DeleteResources, takeJob
  <2>2. Serving(o) \/ Down(o)
    BY <1>1, <2>1 DEF Phase, Waiting, Initializing, RollingBack, TearingDown
  <2>3. /\ running'[o].op = "Delete" /\ ~running'[o].failed /\ running'[o].todo = supported(node[o].loaded)
        /\ ~node'[o].ready /\ <<"Init", o>> \notin jobs' /\ UNCHANGED <<cache, deleteNodeJobs>>
    BY <1>0, <1>14, <2>1 DEF DeleteResources, ManagerType, JobType, NodeObject, Idle, providers
  <2>4. Serving(o) => supported(node[o].loaded) = supported(TRUE)
    BY DEF Serving, supported
  <2>5. \A p \in Provider \ running'[o].todo : clean(p)'
    BY <2>2, <2>3, <2>4 DEF Serving, Down, clean
  <2>6. TearingDown(o)'
    BY <2>3, <2>5 DEF TearingDown
  <2> QED
    BY <1>1, <2>3, <2>6 DEF Phase, active, pending
<1>15. ASSUME NEW p \in Provider, DeInitResource(o, p)
       PROVE  Phase(o)' /\ (active(o)' \/ \A q \in Provider : clean(q)')
  <2>1. TearingDown(o)
    BY <1>6, <1>15 DEF DeInitResource
  <2>2. /\ running'[o].op = "Delete" /\ running'[o].failed = running[o].failed
        /\ running'[o].todo = running[o].todo \ {p} /\ UNCHANGED manager
    BY <1>0, <1>15 DEF DeInitResource, JobType, RunningJob
  <2>3. clean(p)' /\ \A q \in Provider : clean(q) => clean(q)'
    BY <1>3, <1>15 DEF DeInitResource
  <2>4. TearingDown(o)'
    BY <2>1, <2>2, <2>3 DEF TearingDown, manager
  <2> QED
    BY <1>1, <2>2, <2>4 DEF Phase, active, pending
<1>16. CASE DeleteDone(o)
  <2>1. TearingDown(o) /\ running[o].todo = {}
    BY <1>6, <1>16 DEF DeleteDone
  <2>2. running'[o] = Idle /\ UNCHANGED <<manager, cache, deleteNodeJobs>>
    BY <1>0, <1>16 DEF DeleteDone, JobType, providers
  <2>3. \A p \in Provider : clean(p)'
    BY <2>1, <2>2 DEF TearingDown, clean
  <2>4. Down(o)'
    BY <2>1, <2>2, <2>3 DEF TearingDown, Down, manager
  <2> QED
    BY <2>3, <2>4 DEF Phase
<1> QED
  BY <1>7, <1>8, <1>9, <1>10, <1>11, <1>12, <1>13, <1>14, <1>15, <1>16 DEF JobStep, InitJob, DeleteJob

\* A job concerns the active object, and makes no other one active.
LEMMA JobLife ==
  ASSUME TypeOK, Life, NEW o \in Object, JobStep(o), ~overtaken'
  PROVE  Life'
<1>0. ManagerType /\ JobType
  BY TypeParts
<1>1. CASE UpdateResources(o)
  <2>1. /\ \A q \in Object : /\ <<"Init", q>> \in jobs' <=> <<"Init", q>> \in jobs
                             /\ <<"Delete", q>> \in jobs' <=> <<"Delete", q>> \in jobs
        /\ UNCHANGED <<os, dataStore, node, running, removing, cache, deleteNodeJobs>>
    BY <1>1 DEF UpdateResources, cluster, providers
  <2>2. \A q \in Object : (active(q)' <=> active(q)) /\ (anchored(q)' <=> anchored(q))
    BY <2>1 DEF active, anchored, pending, managed
  <2>3. \A q \in Object : Phase(q) => Phase(q)'
    BY <2>1, <2>2, PhaseFrame
  <2>4. \A p \in Provider : clean(p)' <=> clean(p)
    BY <2>1 DEF clean
  <2> QED
    BY <2>2, <2>3, <2>4 DEF Life
<1>2. CASE ~UpdateResources(o)
  <2>1. pending(o)
    <3>1. Idle.op = "none" /\ ~Idle.failed
      BY DEF Idle
    <3>2. \/ o \in removing \/ <<"Init", o>> \in jobs \/ <<"Delete", o>> \in jobs
          \/ running[o].op \in {"Init", "Delete"} \/ running[o].failed
      BY <1>2 DEF JobStep, InitJob, InitResources, InitResourceFails, InitFailed, RemoveNodeSafe, InitDone, InitResource,
                  InitRollsBack, DeleteJob, DeleteResources, DeleteDone, DeInitResource, takeJob
    <3> QED
      BY <3>1, <3>2 DEF pending
  <2>2. active(o) /\ Phase(o)
    BY <2>1 DEF active, Life
  <2>3. \A q \in Object : node'[q].managed = node[q].managed
    <3>1. \/ UNCHANGED node
          \/ node' = [node EXCEPT ![o].loaded = TRUE]
          \/ \E b \in BOOLEAN : node' = [node EXCEPT ![o].ready = b]
      BY <1>2
      DEF JobStep, InitJob, InitResources, InitResourceFails, InitFailed, RemoveNodeSafe, InitDone, InitResource,
          InitRollsBack, DeleteJob, DeleteResources, DeleteDone, DeInitResource, manager
    <3> QED
      BY <1>0, <3>1 DEF ManagerType, NodeObject
  <2>4. dataStore' \in {dataStore, None}
    BY <1>2
    DEF JobStep, InitJob, InitResources, InitResourceFails, InitFailed, RemoveNodeSafe, InitDone, InitResource,
        InitRollsBack, DeleteJob, DeleteResources, DeleteDone, DeInitResource, manager
  <2>5. \A q \in Object : active(q)' => active(q)
    BY <2>3, <2>4, JobEndsPending DEF active, managed
  <2>6. \A q \in Object : active(q)' => q = o
    BY <2>2, <2>5 DEF Life
  <2>7. Phase(o)' /\ (active(o)' \/ \A p \in Provider : clean(p)')
    BY <1>2, <2>2, JobPhase
  <2> QED
    BY <2>6, <2>7 DEF Life
<1> QED
  BY <1>1, <1>2

\* The branch provider's DeleteNode job finds no node initializing or serving.
LEMMA DeleteNodeLife ==
  ASSUME TypeOK, Life, NodeDeleteDelayElapses \/ DeleteNodeJob
  PROVE  Life'
<1>0. ManagerType /\ JobType
  BY TypeParts
<1>1. deleteNodeJobs # {} /\ UNCHANGED <<os, manager, running, removing>>
  BY DEF NodeDeleteDelayElapses, DeleteNodeJob, cluster
<1>2. \A o \in Object : active(o)' <=> active(o)
  BY <1>1 DEF active, pending, managed, manager
<1>3. \A p \in Provider : clean(p) => clean(p)'
  BY <1>0, <1>1 DEF NodeDeleteDelayElapses, DeleteNodeJob, clean, JobType
<1>4. ASSUME NEW o \in Object, Phase(o) PROVE Phase(o)'
  <2>1. RollingBack(o) \/ TearingDown(o) \/ Down(o)
    BY <1>1, <1>4 DEF Phase, Waiting, Initializing, Serving
  <2> QED
    BY <1>1, <1>3, <2>1 DEF Phase, RollingBack, TearingDown, Down, manager
<1> QED
  BY <1>2, <1>3, <1>4 DEF Life

\* A step preserves the invariant.
LEMMA LifeStep ==
  ASSUME TypeOK, Made, LifeInv, [Next]_vars
  PROVE  LifeInv'
<1> SUFFICES ASSUME ~overlap', ~overtaken' PROVE Life'
  BY DEF LifeInv
<1>1. CASE ManagerStep
  <2>1. UNCHANGED overlap \/ \E isManaged \in BOOLEAN : newNode(isManaged)
    BY <1>1 DEF ManagerStep, Quiet, Selects, AddsUnmanaged, Deselects, Refreshes, Forgets, UnManagedToManaged,
                ManagedToUnManaged, StillManaged, core
  <2>2. ~overlap
    BY <2>1 DEF newNode
  <2>3. ~overtaken
    BY <1>1 DEF ManagerStep, Quiet, Selects, AddsUnmanaged, Deselects, Refreshes, Forgets, core, beside
  <2> QED
    BY <1>1, <2>2, <2>3, ManagerLife DEF LifeInv
<1>2. ASSUME NEW o \in Object, JobStep(o) PROVE Life'
  <2>1. UNCHANGED overlap
    BY <1>2 DEF JobStep, InitJob, InitResources, InitResourceFails, InitFailed, RemoveNodeSafe, InitDone, InitResource,
                InitRollsBack, UpdateResources, DeleteJob, DeleteResources, DeleteDone, DeInitResource
  <2>2. UNCHANGED overtaken \/ DeleteResources(o)
    BY <1>2 DEF JobStep, InitJob, InitResources, InitResourceFails, InitFailed, RemoveNodeSafe, InitDone, InitResource,
                InitRollsBack, UpdateResources, DeleteJob, DeleteDone, DeInitResource
  <2>3. ~overlap /\ ~overtaken
    <3>1. DeleteResources(o) => ~overtaken
      BY DEF DeleteResources
    <3> QED
      BY <2>1, <2>2, <3>1
  <2> QED
    BY <1>2, <2>3, JobLife DEF LifeInv
<1>3. CASE NodeDeleteDelayElapses \/ DeleteNodeJob
  <2>1. ~overlap /\ ~overtaken
    BY <1>3 DEF NodeDeleteDelayElapses, DeleteNodeJob
  <2> QED
    BY <1>3, <2>1, DeleteNodeLife DEF LifeInv
<1> QED
  BY <1>1, <1>2, <1>3, Effects

\* At the start no object is active and the providers have no entries.
LEMMA InitLife == Init => LifeInv
<1> SUFFICES ASSUME Init PROVE Life
  BY DEF LifeInv
<1>1. \A o \in Object : ~active(o)
  BY ObjectFacts DEF Init, active, pending, managed
<1> QED
  BY <1>1 DEF Init, Life, clean

\* The invariant holds in every reachable state.
LEMMA LifeInvariant == Spec => [](TypeOK /\ Made /\ LifeInv)
<1>1. TypeOK /\ Made /\ LifeInv /\ [Next]_vars => Made' /\ LifeInv'
  BY MadeStep, LifeStep
<1> QED
  BY <1>1, InitMade, InitLife, TypeCorrect, PTL DEF Spec

\* A node the pod controller finds ready has, at every provider that supports
\* its instance, the entry of that instance: pods are never handed to a
\* provider that lost the node or keeps a predecessor's trunk, unless the name
\* came back before its predecessor's teardown had ended, or a Delete job took
\* its node's lock before the Init job did.
THEOREM ReadyNodeHasResources == Spec => []ReadyHasResources
<1>1. TypeOK /\ LifeInv => ReadyHasResources
  <2> SUFFICES ASSUME TypeOK, Life, inService PROVE \A p \in supported(TRUE) : cache[p] = node[dataStore].instance
    BY DEF LifeInv, ReadyHasResources
  <2>1. dataStore \in Object
    BY TypeParts DEF ManagerType, inService
  <2>2. active(dataStore) /\ node[dataStore].ready
    BY DEF inService, active, managed
  <2>3. Serving(dataStore)
    BY <2>1, <2>2 DEF Life, Phase, Waiting, Initializing, RollingBack, TearingDown, Down
  <2> QED
    BY <2>3 DEF Serving, supported
<1> QED
  BY <1>1, LifeInvariant, PTL

\* Once everything submitted for the objects of a name has been done, a node
\* that is gone or no longer selected has no entry left at any provider: no
\* sequence of failures, roll-backs and removals loses a trunk or a pool.
THEOREM TeardownComplete == Spec => []NothingLeftBehind
<1>1. LifeInv => NothingLeftBehind
  <2> SUFFICES ASSUME Life, Settled, ~managed PROVE \A p \in Provider : cache[p] = NoInstance
    BY DEF LifeInv, NothingLeftBehind
  <2>1. \A o \in Object : ~active(o)
    BY DEF Settled, active, pending
  <2> QED
    BY <2>1 DEF Life, clean, Settled
<1> QED
  BY <1>1, LifeInvariant, PTL
=============================================================================
