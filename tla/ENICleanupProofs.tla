-------------------------- MODULE ENICleanupProofs --------------------------
(***************************************************************************)
(* Theorems about ENICleanup, for any number of interfaces, changes of the *)
(* cluster and failing calls.                                              *)
(***************************************************************************)
EXTENDS ENICleanup, FiniteSetTheorems, TLAPS

-----------------------------------------------------------------------------
(***************************************************************************)
(* Type correctness, one lemma for each group of variables.                *)
(***************************************************************************)
HelperCall ==
  {"none", "describe", "create", "permission", "attach", "setTermination", "wait", "detach", "waitDetached", "delete"}

Call == [next : HelperCall, eni : ENI \cup {NoENI}, unused : SUBSET DeviceIndex, removed : BOOLEAN]

\* A call has an interface once it has created one.
hasInterface(c) == c.next \in {"none", "describe", "create"} <=> c.eni = NoENI

EC2Type ==
  /\ status \in [ENI -> {"unmade", "available", "in-use", "gone"}] /\ deviceIndex \in [ENI -> DeviceIndex]
  /\ onTermination \in SUBSET ENI /\ instance \in BOOLEAN

CallType == call \in [Job -> Call] /\ \A j \in Job : hasInterface(call[j])

HelperType == CallType /\ trunkENIId \in ENI \cup {NoENI} /\ displaced \in BOOLEAN

CleanerType ==
  /\ availableENIs \in SUBSET ENI
  /\ cycle \in [pc : {"asleep", "running"}, todo : SUBSET ENI, seen : SUBSET ENI]
  /\ cycle.todo \cap cycle.seen = {}
  /\ nodeCleaner \in [pc : {"asleep", "describe", "running"}, todo : SUBSET ENI, seen : {{}}]

Object == CNINode \cup {NoCNINode}

ControllerType ==
  /\ node \in BOOLEAN /\ adding \in BOOLEAN /\ lost \in BOOLEAN
  /\ cniNode \in Object
  /\ reconcile \in [pc : {"none", "patch", "finalize", "release", "waitDeleted", "create"}, read : Object, write : Object]

CounterType == events \in 0 .. MaxEvents /\ failures \in 0 .. MaxFailures

\* The parts make up the module's type invariant.
LEMMA TypeParts ==
  /\ TypeOK <=> EC2Type /\ HelperType /\ CleanerType /\ ControllerType /\ CounterType
  /\ TypeOK' <=> EC2Type' /\ HelperType' /\ CleanerType' /\ ControllerType' /\ CounterType'
  BY DEF TypeOK, EC2Type, HelperType, CleanerType, ControllerType, CounterType, CallType, Call,
         hasInterface, HelperCall, Object

\* An event and a failing call count up to their bounds.
LEMMA CountType ==
  ASSUME CounterType
  PROVE  /\ happens => events' \in 0 .. MaxEvents
         /\ fails => failures' \in 0 .. MaxFailures
  BY CleanupAssumption DEF CounterType, happens, fails

\* The names of the interfaces are numbers, and none is the name of no interface.
LEMMA NoENIDiffers == NoENI \notin ENI /\ DeviceIndex \subseteq Nat /\ 0 \in DeviceIndex
  BY CleanupAssumption DEF NoENI, ENI, DeviceIndex

\* A call that is replaced by a well-formed one leaves the others alone.
LEMMA CallStep ==
  ASSUME CallType, NEW j \in Job, NEW c \in Call, hasInterface(c), call' = [call EXCEPT ![j] = c]
  PROVE  CallType'
  BY DEF CallType

\* So does a call that ends.
LEMMA CallReturns ==
  ASSUME CallType, NEW j \in Job, returns(j)
  PROVE  CallType'
<1>1. NoCall \in Call /\ hasInterface(NoCall)
  BY DEF NoCall, Call, HelperCall, hasInterface
<1> QED
  BY <1>1, CallStep DEF returns

\* The calls of the helper that creates and attaches a trunk preserve the
\* types.
LEMMA HelperStepType ==
  ASSUME TypeOK, NEW j \in Job, LoadDetails(j) \/ InitTrunk(j) \/ CreateAndAttachNetworkInterface(j)
  PROVE  TypeOK'
<1> USE TypeParts
<1>0. EC2Type /\ HelperType /\ CleanerType /\ ControllerType /\ CounterType
  OBVIOUS
<1>1. callUnchanged /\ (UNCHANGED failures \/ fails)
  BY DEF LoadDetails, InitTrunk, CreateAndAttachNetworkInterface, CreateNetworkInterface, CreateNetworkInterfacePermission,
         AttachNetworkInterfaceToInstance, SetDeleteOnTermination, WaitForAttachment, DetachNetworkInterfaceFromInstance,
         WaitForDetachment, DeleteNetworkInterface
<1>2. CleanerType' /\ ControllerType' /\ CounterType'
  BY <1>0, <1>1, CountType DEF callUnchanged, CleanerType, ControllerType, CounterType, cleaners, crd
<1>3. call[j] \in Call /\ hasInterface(call[j])
  BY <1>0 DEF HelperType, CallType
<1>4. EC2Type' /\ HelperType'
  <2> USE NoENIDiffers DEF EC2Type, HelperType, callUnchanged
  <2>1. CASE LoadDetails(j)
    <3>1. [NoCall EXCEPT !.next = "describe", !.unused = unusedIndexes] \in Call
      BY DEF NoCall, Call, HelperCall, unusedIndexes
    <3>2. hasInterface([NoCall EXCEPT !.next = "describe", !.unused = unusedIndexes])
      BY DEF NoCall, hasInterface
    <3> QED
      BY <1>0, <2>1, <3>1, <3>2, CallStep DEF LoadDetails
  <2>2. CASE InitTrunk(j)
    <3>1. [call[j] EXCEPT !.next = "create"] \in Call /\ NoCall \in Call
      BY <1>3 DEF Call, NoCall, HelperCall
    <3>2. call[j].next = "describe" => hasInterface([call[j] EXCEPT !.next = "create"])
      BY <1>3 DEF hasInterface, Call
    <3>3. hasInterface(NoCall)
      BY DEF hasInterface, NoCall
    <3>4. CallType'
      BY <1>0, <2>2, <3>1, <3>2, <3>3, CallStep DEF InitTrunk, returns
    <3>5. trunkENIId' \in ENI \cup {NoENI} /\ displaced' \in BOOLEAN
      BY <1>0, <2>2 DEF InitTrunk, initialized, attached
    <3> QED
      BY <1>0, <2>2, <3>4, <3>5 DEF InitTrunk
  <2>3. CASE CreateNetworkInterface(j)
    <3>1. ASSUME NEW e \in ENI PROVE [call[j] EXCEPT !.next = "permission", !.eni = e] \in Call
      BY <1>3 DEF Call, HelperCall
    <3>2. ASSUME NEW e \in ENI PROVE hasInterface([call[j] EXCEPT !.next = "permission", !.eni = e])
      BY <1>3 DEF hasInterface, Call
    <3>3. CallType'
      BY <1>0, <2>3, <3>1, <3>2, CallStep, CallReturns DEF CreateNetworkInterface
    <3> QED
      BY <1>0, <2>3, <3>3 DEF CreateNetworkInterface
  <2>4. ASSUME call[j].next \notin {"none", "describe", "create"} PROVE call[j].eni \in ENI
    BY <1>3, <2>4 DEF hasInterface, Call
  <2>5. ASSUME NEW x \in HelperCall \ {"none", "describe", "create"}, NEW u \in SUBSET DeviceIndex,
               call[j].next \notin {"none", "describe", "create"}
        PROVE  /\ [call[j] EXCEPT !.next = x] \in Call /\ [call[j] EXCEPT !.next = x, !.unused = u] \in Call
               /\ hasInterface([call[j] EXCEPT !.next = x]) /\ hasInterface([call[j] EXCEPT !.next = x, !.unused = u])
    <3>1. [call[j] EXCEPT !.next = x] \in Call /\ [call[j] EXCEPT !.next = x, !.unused = u] \in Call
      BY <1>3, <2>5 DEF Call
    <3>2. call[j].eni # NoENI
      BY <2>4, <2>5
    <3>3. /\ [call[j] EXCEPT !.next = x].next = x /\ [call[j] EXCEPT !.next = x].eni = call[j].eni
          /\ [call[j] EXCEPT !.next = x, !.unused = u].next = x /\ [call[j] EXCEPT !.next = x, !.unused = u].eni = call[j].eni
      BY <1>3 DEF Call
    <3> QED
      BY <2>5, <3>1, <3>2, <3>3 DEF hasInterface
  <2>6. CASE CreateNetworkInterfacePermission(j)
    BY <1>0, <2>5, <2>6, CallStep DEF CreateNetworkInterfacePermission, HelperCall
  <2>7. CASE AttachNetworkInterfaceToInstance(j)
    <3>1. CallType'
      <4>1. \E x \in {"setTermination", "delete"} : call' = [call EXCEPT ![j] = [@ EXCEPT !.next = x, !.unused = {}]]
        BY <2>7 DEF AttachNetworkInterfaceToInstance
      <4>2. call[j].next \notin {"none", "describe", "create"}
        BY <2>7 DEF AttachNetworkInterfaceToInstance
      <4> QED
        BY <1>0, <2>5, <4>1, <4>2, CallStep DEF HelperCall
    <3>2. \A i \in call[j].unused : i \in DeviceIndex
      BY <1>3 DEF Call
    <3> QED
      BY <1>0, <2>4, <2>7, <3>1, <3>2 DEF AttachNetworkInterfaceToInstance
  <2>8. CASE SetDeleteOnTermination(j)
    <3>1. CallType'
      BY <1>0, <2>5, <2>8, CallStep DEF SetDeleteOnTermination, HelperCall
    <3> QED
      BY <1>0, <2>4, <2>8, <3>1 DEF SetDeleteOnTermination
  <2>9. CASE WaitForAttachment(j)
    <3>1. CallType'
      BY <1>0, <2>5, <2>9, CallStep, CallReturns DEF WaitForAttachment, HelperCall
    <3> QED
      BY <1>0, <2>4, <2>9, <3>1 DEF WaitForAttachment, initialized
  <2>10. CASE DetachNetworkInterfaceFromInstance(j)
    <3>1. CallType'
      BY <1>0, <2>5, <2>10, CallStep, CallReturns DEF DetachNetworkInterfaceFromInstance, HelperCall
    <3> QED
      BY <1>0, <2>4, <2>10, <3>1 DEF DetachNetworkInterfaceFromInstance
  <2>11. CASE WaitForDetachment(j)
    BY <1>0, <2>5, <2>11, CallStep, CallReturns DEF WaitForDetachment, HelperCall
  <2>12. CASE DeleteNetworkInterface(j)
    <3>1. CallType'
      BY <1>0, <2>12, CallReturns DEF DeleteNetworkInterface
    <3> QED
      BY <1>0, <2>4, <2>12, <3>1 DEF DeleteNetworkInterface
  <2> QED
    BY <2>1, <2>2, <2>3, <2>6, <2>7, <2>8, <2>9, <2>10, <2>11, <2>12 DEF CreateAndAttachNetworkInterface
<1> QED
  BY <1>2, <1>4

\* EC2's answer to a deletion preserves the types.
LEMMA DeletionType ==
  ASSUME TypeOK, NEW e \in ENI, ec2Deletes(e)
  PROVE  /\ status' \in [ENI -> {"unmade", "available", "in-use", "gone"}]
         /\ failures' \in 0 .. MaxFailures
  BY TypeParts, CountType DEF ec2Deletes, EC2Type, CounterType

\* So do the steps of the cleaners.
LEMMA CleanerStepType ==
  ASSUME TypeOK, ClusterENICleaner \/ NodeTerminationCleaner
  PROVE  TypeOK'
<1> USE TypeParts
<1>0. EC2Type /\ HelperType /\ CleanerType /\ ControllerType /\ CounterType
  OBVIOUS
<1>1. CASE DescribeNetworkInterfaces
  BY <1>0, <1>1, CountType
  DEF DescribeNetworkInterfaces, EC2Type, HelperType, CallType, CleanerType, ControllerType, CounterType, ec2, helper, crd, available
<1>2. CASE DeleteLeakedResources
  <2>1. PICK e \in cycle.todo :
          /\ \/ /\ ShouldDeleteENI(e) /\ ec2Deletes(e)
                /\ cycle' = [cycle EXCEPT !.todo = @ \ {e}]
             \/ /\ ~ShouldDeleteENI(e)
                /\ cycle' = [cycle EXCEPT !.todo = @ \ {e}, !.seen = @ \cup {e}]
                /\ UNCHANGED <<status, failures>>
          /\ UNCHANGED <<deviceIndex, onTermination, instance, helper, availableENIs, nodeCleaner, node, adding, crd, events>>
    BY <1>2 DEF DeleteLeakedResources
  <2>2. e \in ENI
    BY <1>0, <2>1 DEF CleanerType
  <2>3. EC2Type' /\ CounterType'
    BY <1>0, <2>1, <2>2, DeletionType DEF EC2Type, CounterType
  <2>4. CleanerType'
    <3>1. cycle.todo \ {e} \in SUBSET ENI /\ cycle.seen \cup {e} \in SUBSET ENI
      BY <1>0, <2>2 DEF CleanerType
    <3>2. cycle' \in [pc : {"asleep", "running"}, todo : SUBSET ENI, seen : SUBSET ENI]
      BY <1>0, <2>1, <3>1 DEF CleanerType
    <3>3. cycle'.todo \cap cycle'.seen = {}
      BY <1>0, <2>1 DEF CleanerType
    <3> QED
      BY <1>0, <2>1, <3>2, <3>3 DEF CleanerType
  <2>5. HelperType' /\ ControllerType'
    BY <1>0, <2>1 DEF HelperType, CallType, ControllerType, helper, crd
  <2> QED
    BY <2>3, <2>4, <2>5
<1>3. CASE UpdateAvailableENIsIfNeeded
  BY <1>0, <1>3
  DEF UpdateAvailableENIsIfNeeded, Asleep, EC2Type, HelperType, CallType, CleanerType, ControllerType, CounterType, ec2, helper, crd
<1>4. CASE NodeTerminationCleaner
  <2>1. EC2Type' /\ CounterType'
    <3>1. UNCHANGED <<status, failures>> \/ (fails /\ UNCHANGED status) \/ \E e \in nodeCleaner.todo : ec2Deletes(e)
      BY <1>4 DEF NodeTerminationCleaner
    <3>2. status' \in [ENI -> {"unmade", "available", "in-use", "gone"}] /\ failures' \in 0 .. MaxFailures
      BY <1>0, <3>1, DeletionType, CountType DEF EC2Type, CounterType, CleanerType
    <3> QED
      BY <1>0, <1>4, <3>2 DEF NodeTerminationCleaner, EC2Type, CounterType
  <2>2. CleanerType'
    <3>1. available \in SUBSET ENI /\ \A e : nodeCleaner.todo \ {e} \in SUBSET ENI
      BY <1>0 DEF CleanerType, available
    <3>2. \/ nodeCleaner' = [nodeCleaner EXCEPT !.pc = "running", !.todo = available]
          \/ nodeCleaner' = Asleep
          \/ \E e : nodeCleaner' = [nodeCleaner EXCEPT !.todo = @ \ {e}]
      BY <1>4 DEF NodeTerminationCleaner
    <3>3. nodeCleaner' \in [pc : {"asleep", "describe", "running"}, todo : SUBSET ENI, seen : {{}}]
      <4>1. CASE nodeCleaner' = Asleep
        BY <4>1 DEF Asleep
      <4>2. CASE nodeCleaner' = [nodeCleaner EXCEPT !.pc = "running", !.todo = available]
        BY <1>0, <3>1, <4>2 DEF CleanerType
      <4>3. CASE \E e : nodeCleaner' = [nodeCleaner EXCEPT !.todo = @ \ {e}]
        BY <1>0, <3>1, <4>3 DEF CleanerType
      <4> QED
        BY <3>2, <4>1, <4>2, <4>3
    <3> QED
      BY <1>0, <1>4, <3>3 DEF NodeTerminationCleaner, CleanerType
  <2>3. HelperType' /\ ControllerType'
    BY <1>0, <1>4 DEF NodeTerminationCleaner, HelperType, CallType, ControllerType, helper, crd
  <2> QED
    BY <2>1, <2>2, <2>3
<1> QED
  BY <1>1, <1>2, <1>3, <1>4 DEF ClusterENICleaner

\* The API server's and the controller's new versions of a CNINode are
\* CNINodes.
LEMMA CNINodeType ==
  ASSUME ControllerType
  PROVE  /\ NoCNINode \in Object /\ Done.read \in Object
         /\ \A c \in Object : orphaned(c) \in Object
         /\ cniNode.state = "live" => ensureTagsAndLabels(cniNode) \in Object
         /\ cniNode.state = "deleting" => recreated(cniNode) \in Object
         /\ deleteCNINode => cniNode' \in Object
<1>1. NoCNINode \in Object /\ Done.read \in Object
  BY DEF Object, Done
<1>2. ASSUME NEW c \in Object PROVE orphaned(c) \in Object
  <2>1. CASE c \in CNINode
    BY <2>1 DEF Object, orphaned, CNINode
  <2>2. CASE c = NoCNINode
    <3>1. orphaned(c) = [NoCNINode EXCEPT !.orphan = FALSE]
      BY <2>2 DEF orphaned
    <3> QED
      BY <3>1 DEF Object, NoCNINode
  <2> QED
    BY <2>1, <2>2 DEF Object
<1>3. ASSUME cniNode.state # "none" PROVE cniNode \in CNINode
  BY <1>3 DEF ControllerType, Object, NoCNINode
<1>4. cniNode.state = "live" => ensureTagsAndLabels(cniNode) \in Object
  BY <1>3 DEF ControllerType, Object, CNINode, ensureTagsAndLabels
<1>5. cniNode.state = "deleting" => recreated(cniNode) \in Object
  BY <1>3 DEF Object, CNINode, recreated
<1>6. deleteCNINode => cniNode' \in Object
  BY <1>3 DEF Object, CNINode, deleteCNINode
<1> QED
  BY <1>1, <1>2, <1>4, <1>5, <1>6

\* The changes of the cluster preserve the types.
LEMMA ClusterStepType ==
  ASSUME TypeOK, Environment \/ GarbageCollected
  PROVE  TypeOK'
<1> USE TypeParts
<1>0. EC2Type /\ HelperType /\ CleanerType /\ ControllerType /\ CounterType
  OBVIOUS
<1>1. CASE NodeRegisters
  BY <1>0, <1>1, CountType
  DEF NodeRegisters, EC2Type, HelperType, CallType, CleanerType, ControllerType, CounterType, ec2, helper, cleaners, crd
<1>2. CASE NodeRemoved
  <2>1. ControllerType'
    BY <1>0, <1>2, CNINodeType DEF NodeRemoved, ControllerType
  <2>2. CallType'
    <3>1. ASSUME NEW j \in Job, NEW b \in BOOLEAN
          PROVE  [call[j] EXCEPT !.removed = b] \in Call /\ hasInterface([call[j] EXCEPT !.removed = b])
      <4>1. call[j] \in Call /\ hasInterface(call[j])
        BY <1>0 DEF HelperType, CallType
      <4> QED
        BY <4>1 DEF Call, hasInterface
    <3>2. \A j \in Job : (call[j] # NoCall) \in BOOLEAN
      OBVIOUS
    <3> QED
      BY <1>2, <3>1, <3>2 DEF NodeRemoved, CallType
  <2> QED
    BY <1>0, <1>2, <2>1, <2>2, CountType DEF NodeRemoved, EC2Type, HelperType, CleanerType, CounterType, ec2, cleaners
<1>3. CASE InstanceTerminates
  BY <1>0, <1>3, CountType
  DEF InstanceTerminates, EC2Type, HelperType, CallType, CleanerType, ControllerType, CounterType, helper, cleaners, crd
<1>4. CASE CNINodeDeleted \/ GarbageCollected
  <2>1. ControllerType'
    BY <1>0, <1>4, CNINodeType DEF CNINodeDeleted, GarbageCollected, ControllerType
  <2> QED
    BY <1>0, <1>4, <2>1, CountType
    DEF CNINodeDeleted, GarbageCollected, EC2Type, HelperType, CallType, CleanerType, CounterType, ec2, helper, cleaners
<1> QED
  BY <1>1, <1>2, <1>3, <1>4 DEF Environment

\* The steps of the CNINode controller and of the node manager preserve the
\* types.
LEMMA ControllerStepType ==
  ASSUME TypeOK, CreateCNINodeIfNotExisting \/ CNINodeReconciler
  PROVE  TypeOK'
<1> USE TypeParts
<1>0. EC2Type /\ HelperType /\ CleanerType /\ ControllerType /\ CounterType
  OBVIOUS
<1>1. UNCHANGED <<ec2, helper, availableENIs, cycle, events>> /\ (UNCHANGED failures \/ fails)
  BY DEF CreateCNINodeIfNotExisting, CNINodeReconciler, Reconcile, Patch, RemoveFinalizer, WaitTillCNINodeDeleted,
         CreateCNINodeFromObj, cleaners
<1>2. EC2Type' /\ HelperType' /\ CounterType'
  BY <1>0, <1>1, CountType DEF EC2Type, HelperType, CallType, CounterType, ec2, helper
<1>3. CleanerType' /\ ControllerType'
  <2>1. CASE CreateCNINodeIfNotExisting
    <3>1. [state |-> "live", labelled |-> TRUE, nodeID |-> TRUE, orphan |-> FALSE] \in Object
      BY DEF Object, CNINode
    <3>2. cniNode' \in Object
      BY <1>0, <2>1, <3>1 DEF CreateCNINodeIfNotExisting, ControllerType
    <3>3. lost' \in BOOLEAN /\ adding' \in BOOLEAN
      BY <2>1 DEF CreateCNINodeIfNotExisting
    <3> QED
      BY <1>0, <2>1, <3>2, <3>3 DEF CreateCNINodeIfNotExisting, CleanerType, ControllerType, cleaners
  <2>2. CASE Reconcile
    <3>1. CleanerType'
      BY <1>0, <2>2 DEF Reconcile, Finalize, CleanerType, Asleep
    <3>2. ControllerType'
      BY <1>0, <2>2, CNINodeType DEF Reconcile, Finalize, reconciling, ControllerType
    <3> QED
      BY <3>1, <3>2
  <2>3. CASE Patch
    BY <1>0, <2>3 DEF Patch, CleanerType, ControllerType, cleaners, Done, Object
  <2>4. CASE RemoveFinalizer
    BY <1>0, <2>4 DEF RemoveFinalizer, CleanerType, ControllerType, cleaners, Done, Object
  <2>5. CASE WaitTillCNINodeDeleted
    <3>1. lost' \in BOOLEAN
      BY <1>0, <2>5 DEF WaitTillCNINodeDeleted, ControllerType
    <3>2. reconcile' \in [pc : {"none", "patch", "finalize", "release", "waitDeleted", "create"}, read : Object, write : Object]
      BY <1>0, <2>5 DEF WaitTillCNINodeDeleted, ControllerType, Done, Object
    <3> QED
      BY <1>0, <2>5, <3>1, <3>2 DEF WaitTillCNINodeDeleted, CleanerType, ControllerType, cleaners
  <2>6. CASE CreateCNINodeFromObj
    BY <1>0, <2>6 DEF CreateCNINodeFromObj, CleanerType, ControllerType, cleaners, Done, Object
  <2> QED
    BY <2>1, <2>2, <2>3, <2>4, <2>5, <2>6 DEF CNINodeReconciler
<1> QED
  BY <1>2, <1>3

\* A step preserves the types.
LEMMA StepType ==
  ASSUME TypeOK, [Next]_vars
  PROVE  TypeOK'
<1>1. CASE UNCHANGED vars
  BY <1>1, TypeParts
  DEF vars, ec2, helper, cleaners, crd, EC2Type, HelperType, CallType, CleanerType, ControllerType, CounterType
<1> QED
  BY <1>1, HelperStepType, CleanerStepType, ClusterStepType, ControllerStepType DEF Next

\* The initial state is typed.
LEMMA InitType == Init => TypeOK
<1> SUFFICES ASSUME Init PROVE TypeOK
  OBVIOUS
<1>1. EC2Type /\ CounterType
  BY CleanupAssumption DEF Init, EC2Type, CounterType, DeviceIndex
<1>2. HelperType
  BY CleanupAssumption DEF Init, HelperType, CallType, Call, hasInterface, HelperCall, NoCall, NoENI
<1>3. CleanerType
  BY DEF Init, CleanerType, Asleep
<1>4. ControllerType
  BY DEF Init, ControllerType, Object, Done
<1> QED
  BY <1>1, <1>2, <1>3, <1>4, TypeParts

\* EC2's interfaces, the helper's call, the cleaners' work and the CNINode
\* and its reconciler keep their types.
THEOREM TypeCorrect == Spec => []TypeOK
<1> QED
  BY InitType, StepType, PTL DEF Spec

-----------------------------------------------------------------------------
(***************************************************************************)
(* At most one trunk is attached.  Each is attached at an index of its     *)
(* own.  A job that loaded the instance while no trunk was attached takes  *)
(* the last index, and one that creates a trunk although another was       *)
(* attached at that time is `displaced'.                                   *)
(***************************************************************************)
creating(c) == c.next \in {"create", "permission", "attach"}

OneTrunkInv ==
  /\ \A e, f \in attached : deviceIndex[e] = deviceIndex[f] => e = f
  /\ ~displaced => /\ \A e \in attached : deviceIndex[e] = MaxIndex
                   /\ \A j \in Job : creating(call[j]) => call[j].unused = DeviceIndex

\* Trunks at one index are at most one.
LEMMA PairwiseEqual ==
  ASSUME OneTrunkInv
  PROVE  OneTrunk
<1>1. CASE attached = {}
  BY <1>1, FS_EmptySet DEF OneTrunk
<1>2. CASE attached # {} /\ ~displaced
  <2>1. PICK e \in attached : TRUE
    BY <1>2
  <2>2. attached = {e}
    BY <1>2, <2>1 DEF OneTrunkInv
  <2>3. Cardinality({e}) = 1
    BY FS_Singleton
  <2> QED
    BY <2>2, <2>3 DEF OneTrunk
<1> QED
  BY <1>1, <1>2 DEF OneTrunk

\* A deletion attaches nothing.
LEMMA DeletionAttachesNothing ==
  ASSUME TypeOK, NEW e \in ENI, ec2Deletes(e)
  PROVE  attached' \subseteq attached
  BY TypeParts DEF ec2Deletes, attached, EC2Type

\* A step that attaches nothing, and in which a job that creates a trunk did so
\* before with the same indexes, keeps the trunk unique.
LEMMA OneTrunkKept ==
  ASSUME TypeOK, OneTrunkInv, attached' \subseteq attached, UNCHANGED <<deviceIndex, displaced>>,
         \A j \in Job : creating(call'[j]) => creating(call[j]) /\ call'[j].unused = call[j].unused
  PROVE  OneTrunkInv'
  BY DEF OneTrunkInv

\* A step of a job keeps the trunk unique.
LEMMA OneTrunkHelper ==
  ASSUME TypeOK, OneTrunkInv, NEW j \in Job, LoadDetails(j) \/ InitTrunk(j) \/ CreateAndAttachNetworkInterface(j)
  PROVE  OneTrunkInv'
<1> USE TypeParts
<1>0. EC2Type /\ call \in [Job -> Call] /\ hasInterface(call[j])
  BY DEF HelperType, CallType
<1>1. CASE LoadDetails(j)
  BY <1>0, <1>1, OneTrunkKept DEF LoadDetails, creating, attached, Call, NoCall
<1>2. CASE InitTrunk(j)
  <2>1. CASE returns(j) /\ UNCHANGED <<displaced, status, deviceIndex>>
    BY <1>0, <2>1, OneTrunkKept DEF returns, creating, attached, Call, NoCall
  <2>2. CASE /\ attached = {} /\ displaced' = (displaced \/ call[j].unused # DeviceIndex) /\ UNCHANGED <<status, deviceIndex>>
             /\ call' = [call EXCEPT ![j] = IF @.unused = {} THEN NoCall ELSE [@ EXCEPT !.next = "create"]]
    <3>1. \A k \in Job : creating(call'[k]) => call'[k].unused = call[k].unused /\ (k = j \/ creating(call[k]))
      BY <1>0, <2>2 DEF creating, Call, NoCall
    <3> QED
      BY <2>2, <3>1 DEF OneTrunkInv, attached
  <2> QED
    BY <1>2, <2>1, <2>2 DEF InitTrunk
<1>3. CASE CreateNetworkInterface(j)
  <2>1. attached' = attached
    BY <1>0, <1>3 DEF CreateNetworkInterface, attached, EC2Type
  <2>2. \A k \in Job : creating(call'[k]) => creating(call[k]) /\ call'[k].unused = call[k].unused
    <3>1. CASE returns(j)
      BY <1>0, <3>1 DEF returns, creating, NoCall
    <3>2. ASSUME NEW e \in ENI, call' = [call EXCEPT ![j] = [@ EXCEPT !.next = "permission", !.eni = e]]
          PROVE  \A k \in Job : k # j => call'[k] = call[k]
      BY <1>0, <3>2
    <3>3. ASSUME NEW e \in ENI, call' = [call EXCEPT ![j] = [@ EXCEPT !.next = "permission", !.eni = e]]
          PROVE  call'[j].unused = call[j].unused
      BY <1>0, <3>3 DEF Call
    <3>4. creating(call[j])
      BY <1>3 DEF CreateNetworkInterface, creating
    <3> QED
      BY <1>3, <3>1, <3>2, <3>3, <3>4 DEF CreateNetworkInterface
  <2> QED
    BY <1>3, <2>1, <2>2, OneTrunkKept DEF CreateNetworkInterface
<1>4. CASE AttachNetworkInterfaceToInstance(j)
  <2>1. PICK i \in call[j].unused :
          /\ \A k \in call[j].unused : k <= i
          /\ \/ UNCHANGED <<status, deviceIndex>>
             \/ /\ i \in unusedIndexes
                /\ status' = [status EXCEPT ![call[j].eni] = "in-use"]
                /\ deviceIndex' = [deviceIndex EXCEPT ![call[j].eni] = i]
    BY <1>4 DEF AttachNetworkInterfaceToInstance
  <2>2. call[j].eni \in ENI /\ i \in DeviceIndex
    BY <1>0, <1>4, <2>1 DEF AttachNetworkInterfaceToInstance, hasInterface, Call
  <2>3. ~displaced => i = MaxIndex
    <3>1. ~displaced => call[j].unused = DeviceIndex
      BY <1>4 DEF OneTrunkInv, creating, AttachNetworkInterfaceToInstance
    <3> QED
      <4>1. MaxIndex \in DeviceIndex /\ i <= MaxIndex
        BY <2>2, CleanupAssumption DEF DeviceIndex
      <4>2. ~displaced => MaxIndex <= i
        BY <2>1, <3>1, <4>1
      <4> QED
        BY <2>2, <4>1, <4>2, NoENIDiffers, CleanupAssumption
  <2>4. \A k \in Job : creating(call'[k]) => creating(call[k]) /\ call'[k].unused = call[k].unused
    BY <1>0, <1>4 DEF AttachNetworkInterfaceToInstance, creating, Call
  <2>5. CASE UNCHANGED <<status, deviceIndex>>
    BY <1>4, <2>4, <2>5, OneTrunkKept DEF AttachNetworkInterfaceToInstance, attached
  <2>6. CASE /\ i \in unusedIndexes
             /\ status' = [status EXCEPT ![call[j].eni] = "in-use"]
             /\ deviceIndex' = [deviceIndex EXCEPT ![call[j].eni] = i]
    <3>1. attached' = attached \cup {call[j].eni}
      BY <1>0, <2>2, <2>6 DEF attached, EC2Type
    <3>2. \A e \in attached : deviceIndex[e] # i
      BY <2>6 DEF unusedIndexes
    <3>3. \A e \in ENI : deviceIndex'[e] = IF e = call[j].eni THEN i ELSE deviceIndex[e]
      BY <1>0, <2>6 DEF EC2Type
    <3>4. \A e, f \in attached' : deviceIndex'[e] = deviceIndex'[f] => e = f
      BY <3>1, <3>2, <3>3, <2>2 DEF OneTrunkInv, attached
    <3>5. ~displaced => \A e \in attached' : deviceIndex'[e] = MaxIndex
      BY <2>2, <2>3, <3>1, <3>3 DEF OneTrunkInv, attached
    <3> QED
      BY <1>4, <2>4, <3>4, <3>5 DEF OneTrunkInv, AttachNetworkInterfaceToInstance
  <2> QED
    BY <2>1, <2>5, <2>6
<1>5. CASE \/ CreateNetworkInterfacePermission(j) \/ SetDeleteOnTermination(j) \/ WaitForAttachment(j)
           \/ DetachNetworkInterfaceFromInstance(j) \/ WaitForDetachment(j) \/ DeleteNetworkInterface(j)
  <2>1. attached' \subseteq attached
    BY <1>0, <1>5 DEF CreateNetworkInterfacePermission, SetDeleteOnTermination, WaitForAttachment,
                      DetachNetworkInterfaceFromInstance, WaitForDetachment, DeleteNetworkInterface, attached, EC2Type
  <2>2. UNCHANGED <<deviceIndex, displaced>>
    BY <1>5 DEF CreateNetworkInterfacePermission, SetDeleteOnTermination, WaitForAttachment,
                DetachNetworkInterfaceFromInstance, WaitForDetachment, DeleteNetworkInterface
  <2>3. \/ call[j].next = "permission" /\ call' = [call EXCEPT ![j].next = "attach"]
        \/ \E x \in {"delete", "detach", "wait", "waitDetached"} : call' = [call EXCEPT ![j].next = x]
        \/ returns(j)
    BY <1>5 DEF CreateNetworkInterfacePermission, SetDeleteOnTermination, WaitForAttachment,
                DetachNetworkInterfaceFromInstance, WaitForDetachment, DeleteNetworkInterface
  <2>4. \A k \in Job : creating(call'[k]) => creating(call[k]) /\ call'[k].unused = call[k].unused
    BY <1>0, <2>3 DEF returns, creating, Call, NoCall
  <2> QED
    BY <2>1, <2>2, <2>4, OneTrunkKept
<1> QED
  BY <1>1, <1>2, <1>3, <1>4, <1>5 DEF CreateAndAttachNetworkInterface

\* A step keeps the trunk unique.
LEMMA OneTrunkStep ==
  ASSUME TypeOK, OneTrunkInv, [Next]_vars
  PROVE  OneTrunkInv'
<1> USE TypeParts
<1>0. EC2Type /\ CleanerType /\ call \in [Job -> Call]
  BY DEF HelperType, CallType
<1>1. ASSUME attached' \subseteq attached, UNCHANGED <<deviceIndex, helper>> PROVE OneTrunkInv'
  BY <1>1, OneTrunkKept DEF helper
<1>2. CASE DeleteLeakedResources
  <2>1. PICK e \in cycle.todo : ec2Deletes(e) \/ UNCHANGED status
    BY <1>2 DEF DeleteLeakedResources
  <2>2. attached' \subseteq attached
    BY <1>0, <2>1, DeletionAttachesNothing DEF CleanerType, attached
  <2> QED
    BY <1>1, <1>2, <2>2 DEF DeleteLeakedResources
<1>3. CASE NodeTerminationCleaner
  <2>1. UNCHANGED status \/ \E e \in nodeCleaner.todo : ec2Deletes(e)
    BY <1>3 DEF NodeTerminationCleaner
  <2>2. attached' \subseteq attached
    BY <1>0, <2>1, DeletionAttachesNothing DEF CleanerType, attached
  <2> QED
    BY <1>1, <1>3, <2>2 DEF NodeTerminationCleaner
<1>4. CASE InstanceTerminates
  <2>1. attached' \subseteq attached
    BY <1>0, <1>4 DEF InstanceTerminates, attached, EC2Type
  <2> QED
    BY <1>1, <1>4, <2>1 DEF InstanceTerminates
<1>5. CASE NodeRemoved
  <2>1. \A j \in Job : call'[j].next = call[j].next /\ call'[j].unused = call[j].unused
    BY <1>0, <1>5 DEF NodeRemoved, Call
  <2> QED
    BY <1>5, <2>1, OneTrunkKept DEF NodeRemoved, creating, attached, ec2
<1>6. CASE DescribeNetworkInterfaces \/ UpdateAvailableENIsIfNeeded \/ CreateCNINodeIfNotExisting \/ CNINodeReconciler
           \/ NodeRegisters \/ CNINodeDeleted \/ GarbageCollected \/ UNCHANGED vars
  <2>1. UNCHANGED <<ec2, helper>>
    BY <1>6 DEF DescribeNetworkInterfaces, UpdateAvailableENIsIfNeeded, CreateCNINodeIfNotExisting, CNINodeReconciler,
                Reconcile, Patch, RemoveFinalizer, WaitTillCNINodeDeleted, CreateCNINodeFromObj, NodeRegisters,
                CNINodeDeleted, GarbageCollected, vars
  <2> QED
    BY <1>1, <2>1 DEF ec2, attached
<1> QED
  BY <1>2, <1>3, <1>4, <1>5, <1>6, OneTrunkHelper DEF Next, Environment, ClusterENICleaner

\* An instance never has two trunks attached, whichever of the helper's calls
\* failed before InitTrunk was tried again and however the jobs of a removed
\* and a re-added node overlap, unless a job met the other's trunk when it
\* loaded the instance and no longer when it described it.
THEOREM OneTrunkAttached == Spec => []OneTrunk
<1>1. Init => OneTrunkInv
  BY DEF Init, OneTrunkInv, attached, creating, NoCall
<1>2. TypeOK /\ OneTrunkInv /\ [Next]_vars => OneTrunkInv'
  BY OneTrunkStep
<1>3. OneTrunkInv => OneTrunk
  BY PairwiseEqual
<1> QED
  BY <1>1, <1>2, <1>3, TypeCorrect, PTL DEF Spec

-----------------------------------------------------------------------------
(***************************************************************************)
(* The cluster's cleaner leaves the interface alone that the helper is     *)
(* creating: what the cleaner remembers from its last cycle exists, while  *)
(* InitTrunk makes a new interface, and a cycle starts only when the call  *)
(* it would meet is younger than the last one.                             *)
(***************************************************************************)
KeepInv ==
  /\ cycle.pc = "running" => \A j \in Job : call[j].eni \notin availableENIs
  /\ cycle.pc = "asleep" => cycle.todo = {}
  /\ \A e \in availableENIs \cup cycle.todo \cup cycle.seen : status[e] # "unmade"

\* An interface that was made is never unmade.
LEMMA MadeStaysMade ==
  ASSUME TypeOK, [Next]_vars, NEW e \in ENI, status[e] # "unmade"
  PROVE  status'[e] # "unmade"
<1> USE TypeParts
<1>0. EC2Type /\ HelperType /\ CleanerType
  OBVIOUS
<1>1. ASSUME NEW x \in ENI, ec2Deletes(x) PROVE status'[e] # "unmade"
  BY <1>0, <1>1 DEF ec2Deletes, EC2Type
<1>2. ASSUME NEW j \in Job, LoadDetails(j) \/ InitTrunk(j) \/ CreateAndAttachNetworkInterface(j) PROVE status'[e] # "unmade"
  <2>1. UNCHANGED status \/ \E f \in ENI \cup {NoENI}, x \in {"in-use", "available", "gone"} : status' = [status EXCEPT ![f] = x]
    BY <1>0, <1>2
    DEF LoadDetails, InitTrunk, CreateAndAttachNetworkInterface, CreateNetworkInterface, CreateNetworkInterfacePermission,
        AttachNetworkInterfaceToInstance, SetDeleteOnTermination, WaitForAttachment, DetachNetworkInterfaceFromInstance,
        WaitForDetachment, DeleteNetworkInterface, HelperType, CallType, Call
  <2> QED
    BY <1>0, <2>1 DEF EC2Type
<1>4. CASE DeleteLeakedResources
  BY <1>0, <1>1, <1>4 DEF DeleteLeakedResources, CleanerType
<1>5. CASE NodeTerminationCleaner
  BY <1>0, <1>1, <1>5 DEF NodeTerminationCleaner, CleanerType
<1>6. CASE InstanceTerminates
  BY <1>0, <1>6 DEF InstanceTerminates, EC2Type
<1>7. CASE DescribeNetworkInterfaces \/ UpdateAvailableENIsIfNeeded \/ CreateCNINodeIfNotExisting \/ CNINodeReconciler
           \/ NodeRegisters \/ NodeRemoved \/ CNINodeDeleted \/ GarbageCollected \/ UNCHANGED vars
  BY <1>7 DEF DescribeNetworkInterfaces, UpdateAvailableENIsIfNeeded, CreateCNINodeIfNotExisting, CNINodeReconciler,
              Reconcile, Patch, RemoveFinalizer, WaitTillCNINodeDeleted, CreateCNINodeFromObj, NodeRegisters,
              NodeRemoved, CNINodeDeleted, GarbageCollected, vars, ec2
<1> QED
  BY <1>2, <1>4, <1>5, <1>6, <1>7 DEF Next, Environment, ClusterENICleaner

\* A call of the helper that makes no interface keeps its own, or ends.
LEMMA CallChanges ==
  ASSUME TypeOK, [Next]_vars, NEW k \in Job, \A j \in Job : ~CreateNetworkInterface(j)
  PROVE  call'[k].eni \in {call[k].eni, NoENI}
<1> USE TypeParts
<1>0. call \in [Job -> Call]
  BY DEF HelperType, CallType
<1>1. ASSUME NEW j \in Job, LoadDetails(j) \/ InitTrunk(j)
      PROVE  call'[k].eni \in {call[k].eni, NoENI}
  <2>1. CASE LoadDetails(j)
    BY <1>0, <2>1 DEF LoadDetails, NoCall, Call
  <2>2. CASE InitTrunk(j)
    <3>1. \/ returns(j)
          \/ call' = [call EXCEPT ![j] = IF @.unused = {} THEN NoCall ELSE [@ EXCEPT !.next = "create"]]
      BY <2>2 DEF InitTrunk
    <3> QED
      BY <1>0, <3>1 DEF returns, NoCall, Call
  <2> QED
    BY <1>1, <2>1, <2>2
<1>3. ASSUME NEW j \in Job, CreateAndAttachNetworkInterface(j)
      PROVE  call'[k].eni \in {call[k].eni, NoENI}
  <2>1. \/ returns(j)
        \/ \E x \in HelperCall : call' = [call EXCEPT ![j].next = x]
        \/ \E x \in HelperCall : call' = [call EXCEPT ![j] = [@ EXCEPT !.next = x, !.unused = {}]]
    BY <1>3 DEF CreateAndAttachNetworkInterface, CreateNetworkInterfacePermission, AttachNetworkInterfaceToInstance,
                SetDeleteOnTermination, WaitForAttachment, DetachNetworkInterfaceFromInstance, WaitForDetachment,
                DeleteNetworkInterface, HelperCall
  <2>2. CASE returns(j)
    BY <1>0, <2>2 DEF returns, NoCall, Call
  <2>3. ASSUME NEW x \in HelperCall,
               \/ call' = [call EXCEPT ![j].next = x]
               \/ call' = [call EXCEPT ![j] = [@ EXCEPT !.next = x, !.unused = {}]]
        PROVE  call'[k].eni = call[k].eni
    <3>1. call[j] \in Call /\ (k # j => call'[k] = call[k])
      BY <1>0, <2>3
    <3>2. call'[j] = [call[j] EXCEPT !.next = x] \/ call'[j] = [call[j] EXCEPT !.next = x, !.unused = {}]
      BY <1>0, <2>3
    <3>3. call'[j].eni = call[j].eni
      BY <3>1, <3>2 DEF Call
    <3> QED
      BY <3>1, <3>3
  <2> QED
    BY <2>1, <2>2, <2>3
<1>4. CASE NodeRemoved
  BY <1>0, <1>4 DEF NodeRemoved, Call
<1>5. CASE ClusterENICleaner \/ NodeTerminationCleaner \/ CreateCNINodeIfNotExisting \/ CNINodeReconciler
           \/ NodeRegisters \/ InstanceTerminates \/ CNINodeDeleted \/ GarbageCollected \/ UNCHANGED vars
  <2>1. UNCHANGED call
    BY <1>5 DEF ClusterENICleaner, NodeTerminationCleaner, DescribeNetworkInterfaces, DeleteLeakedResources,
                UpdateAvailableENIsIfNeeded, CreateCNINodeIfNotExisting, CNINodeReconciler, Reconcile, Patch,
                RemoveFinalizer, WaitTillCNINodeDeleted, CreateCNINodeFromObj, NodeRegisters, InstanceTerminates,
                CNINodeDeleted, GarbageCollected, vars, helper
  <2> QED
    BY <2>1
<1> QED
  BY <1>1, <1>3, <1>4, <1>5 DEF Next, Environment

\* A call of the helper keeps its interface, ends, or makes a new one.
LEMMA CallKeepsInterface ==
  ASSUME TypeOK, [Next]_vars, NEW k \in Job
  PROVE  \/ call'[k].eni \in {call[k].eni, NoENI}
         \/ call'[k].eni \in ENI /\ status[call'[k].eni] = "unmade" /\ UNCHANGED cleaners
<1>1. call \in [Job -> Call]
  BY TypeParts DEF HelperType, CallType
<1>2. ASSUME NEW j \in Job, CreateNetworkInterface(j)
      PROVE  \/ call'[k].eni \in {call[k].eni, NoENI}
             \/ call'[k].eni \in ENI /\ status[call'[k].eni] = "unmade" /\ UNCHANGED cleaners
  <2>1. CASE returns(j)
    BY <1>1, <2>1 DEF returns, NoCall
  <2>2. ASSUME NEW e \in ENI, call' = [call EXCEPT ![j] = [@ EXCEPT !.next = "permission", !.eni = e]]
        PROVE  call'[k].eni = IF k = j THEN e ELSE call[k].eni
    <3>1. call[j] \in Call /\ (k # j => call'[k] = call[k]) /\ call'[j] = [call[j] EXCEPT !.next = "permission", !.eni = e]
      BY <1>1, <2>2
    <3> QED
      BY <3>1 DEF Call
  <2> QED
    BY <1>2, <2>1, <2>2 DEF CreateNetworkInterface, callUnchanged
<1> QED
  BY <1>2, CallChanges

\* A step keeps the cleaner's memory and the helper's call apart.
LEMMA KeepStep ==
  ASSUME TypeOK, KeepInv, [Next]_vars
  PROVE  KeepInv'
<1> USE TypeParts
<1>0. EC2Type /\ HelperType /\ CleanerType
  OBVIOUS
<1> DEFINE known == availableENIs \cup cycle.todo \cup cycle.seen
<1>1. known \subseteq ENI /\ \A e \in known : status'[e] # "unmade"
  BY <1>0, MadeStaysMade DEF CleanerType, KeepInv
<1>2. CASE UNCHANGED <<availableENIs, cycle>>
  <2>1. cycle.pc = "running" => \A j \in Job : call'[j].eni \notin availableENIs
    BY <1>0, CallKeepsInterface, NoENIDiffers DEF KeepInv, CleanerType
  <2> QED
    BY <1>1, <1>2, <2>1 DEF KeepInv
<1>3. CASE DescribeNetworkInterfaces
  <2>1. availableENIs' = availableENIs /\ call' = call /\ status' = status
    BY <1>3 DEF DescribeNetworkInterfaces, helper, ec2
  <2>2. CASE cycle' = [pc |-> "running", todo |-> available, seen |-> {}]
    BY <1>3, <2>1, <2>2 DEF DescribeNetworkInterfaces, longInterval, available, KeepInv
  <2>3. CASE UNCHANGED cycle
    BY <1>2, <2>1, <2>3
  <2> QED
    BY <1>3, <2>2, <2>3 DEF DescribeNetworkInterfaces
<1>4. CASE DeleteLeakedResources
  <2>1. PICK e \in cycle.todo :
          /\ \/ cycle' = [cycle EXCEPT !.todo = @ \ {e}]
             \/ cycle' = [cycle EXCEPT !.todo = @ \ {e}, !.seen = @ \cup {e}]
          /\ UNCHANGED <<availableENIs, call>>
    BY <1>4 DEF DeleteLeakedResources, helper
  <2>2. cycle'.pc = cycle.pc /\ cycle'.todo \subseteq cycle.todo /\ cycle'.seen \subseteq cycle.seen \cup cycle.todo
    <3>1. CASE cycle' = [cycle EXCEPT !.todo = @ \ {e}]
      BY <1>0, <3>1 DEF CleanerType
    <3>2. CASE cycle' = [cycle EXCEPT !.todo = @ \ {e}, !.seen = @ \cup {e}]
      BY <1>0, <3>2 DEF CleanerType
    <3> QED
      BY <2>1, <3>1, <3>2
  <2> QED
    BY <1>1, <2>1, <2>2 DEF KeepInv
<1>5. CASE UpdateAvailableENIsIfNeeded
  BY <1>1, <1>5 DEF UpdateAvailableENIsIfNeeded, Asleep, KeepInv
<1>6. ASSUME NEW j \in Job, LoadDetails(j) \/ InitTrunk(j) \/ CreateAndAttachNetworkInterface(j)
      PROVE  UNCHANGED <<availableENIs, cycle>>
  BY <1>6 DEF LoadDetails, InitTrunk, CreateAndAttachNetworkInterface, CreateNetworkInterface,
              CreateNetworkInterfacePermission, AttachNetworkInterfaceToInstance, SetDeleteOnTermination,
              WaitForAttachment, DetachNetworkInterfaceFromInstance, WaitForDetachment, DeleteNetworkInterface,
              callUnchanged, cleaners
<1>7. CASE NodeTerminationCleaner \/ CreateCNINodeIfNotExisting \/ CNINodeReconciler \/ Environment \/ GarbageCollected
           \/ UNCHANGED vars
  <2>1. UNCHANGED <<availableENIs, cycle>>
    BY <1>7 DEF NodeTerminationCleaner, CreateCNINodeIfNotExisting, CNINodeReconciler, Reconcile, Patch,
                RemoveFinalizer, WaitTillCNINodeDeleted, CreateCNINodeFromObj, Environment, NodeRegisters, NodeRemoved,
                InstanceTerminates, CNINodeDeleted, GarbageCollected, vars, cleaners
  <2> QED
    BY <1>2, <2>1
<1> QED
  BY <1>2, <1>3, <1>4, <1>5, <1>6, <1>7 DEF Next, ClusterENICleaner

\* No two calls have the same interface, and a call's interface exists.
OwnInterface ==
  /\ \A j \in Job : call[j].eni # NoENI => status[call[j].eni] # "unmade"
  /\ \A j, k \in Job : call[j].eni = call[k].eni /\ call[j].eni # NoENI => j = k

\* A step keeps the interfaces of the calls apart.
LEMMA OwnInterfaceStep ==
  ASSUME TypeOK, OwnInterface, [Next]_vars
  PROVE  OwnInterface'
<1> USE TypeParts
<1>0. EC2Type /\ call \in [Job -> Call]
  BY DEF HelperType, CallType
<1>1. \A j \in Job : call[j].eni \in ENI \cup {NoENI}
  BY <1>0 DEF Call
<1>2. ASSUME \A k \in Job : call'[k].eni \in {call[k].eni, NoENI} PROVE OwnInterface'
  BY <1>1, <1>2, MadeStaysMade DEF OwnInterface
<1>3. ASSUME NEW j \in Job, CreateNetworkInterface(j) PROVE OwnInterface'
  <2>1. CASE returns(j)
    BY <1>0, <1>2, <2>1 DEF returns, NoCall, Call
  <2>2. ASSUME NEW e \in ENI, status[e] = "unmade", status' = [status EXCEPT ![e] = "available"],
               call' = [call EXCEPT ![j] = [@ EXCEPT !.next = "permission", !.eni = e]]
        PROVE  OwnInterface'
    <3>1. \A k \in Job : call'[k].eni = IF k = j THEN e ELSE call[k].eni
      BY <1>0, <2>2 DEF Call
    <3>2. status'[e] = "available" /\ \A k \in Job : call[k].eni # e
      BY <1>0, <2>2, NoENIDiffers DEF EC2Type, OwnInterface
    <3> QED
      BY <1>1, <3>1, <3>2, MadeStaysMade DEF OwnInterface
  <2> QED
    BY <1>3, <2>1, <2>2 DEF CreateNetworkInterface
<1>4. ASSUME NEW k \in Job, \A j \in Job : ~CreateNetworkInterface(j) PROVE call'[k].eni \in {call[k].eni, NoENI}
  BY <1>4, CallChanges
<1> QED
  BY <1>2, <1>3, <1>4

\* An interface goes because the helper, the node's termination cleaner or the
\* cluster's cleaner deletes it, or with its instance, to which it was attached.
LEMMA WhoDeletes ==
  ASSUME TypeOK, KeepInv, [Next]_vars, NEW e \in ENI, NEW k \in Job,
         status[e] = "available", status'[e] = "gone", call[k].eni = e, nodeCleaner.pc = "asleep", OwnInterface
  PROVE  call'[k] = NoCall
<1> USE TypeParts
<1>0. EC2Type /\ call \in [Job -> Call] /\ CleanerType
  BY DEF HelperType, CallType
<1>1. ASSUME NEW j \in Job, LoadDetails(j) \/ InitTrunk(j) \/ CreateAndAttachNetworkInterface(j) PROVE call'[k] = NoCall
  <2>1. CASE DeleteNetworkInterface(j)
    <3>1. call[j].eni = e
      BY <1>0, <2>1 DEF DeleteNetworkInterface, EC2Type, Call
    <3> QED
      BY <1>0, <2>1, <3>1, NoENIDiffers DEF DeleteNetworkInterface, returns, OwnInterface
  <2>2. CASE LoadDetails(j) \/ InitTrunk(j) \/ CreateNetworkInterfacePermission(j) \/ SetDeleteOnTermination(j)
             \/ WaitForAttachment(j) \/ WaitForDetachment(j)
    BY <2>2 DEF LoadDetails, InitTrunk, CreateNetworkInterfacePermission, SetDeleteOnTermination, WaitForAttachment,
                WaitForDetachment
  <2>3. CASE CreateNetworkInterface(j) \/ AttachNetworkInterfaceToInstance(j) \/ DetachNetworkInterfaceFromInstance(j)
    <3>1. CASE CreateNetworkInterface(j)
      BY <1>0, <3>1 DEF CreateNetworkInterface, EC2Type
    <3>2. CASE AttachNetworkInterfaceToInstance(j)
      BY <1>0, <3>2 DEF AttachNetworkInterfaceToInstance, EC2Type
    <3>3. CASE DetachNetworkInterfaceFromInstance(j)
      BY <1>0, <3>3 DEF DetachNetworkInterfaceFromInstance, EC2Type
    <3> QED
      BY <2>3, <3>1, <3>2, <3>3
  <2> QED
    BY <1>1, <2>1, <2>2, <2>3 DEF CreateAndAttachNetworkInterface
<1>6. CASE DeleteLeakedResources
  <2>1. PICK x \in cycle.todo : (x \in availableENIs /\ ec2Deletes(x)) \/ UNCHANGED status
    BY <1>6 DEF DeleteLeakedResources, ShouldDeleteENI
  <2>2. cycle.pc = "running" /\ x \in ENI
    BY <1>0, <2>1 DEF KeepInv, CleanerType
  <2>3. e \notin availableENIs
    BY <2>2 DEF KeepInv
  <2>4. UNCHANGED status \/ (x # e /\ status' = [status EXCEPT ![x] = "gone"])
    BY <2>1, <2>3 DEF ec2Deletes
  <2> QED
    BY <1>0, <2>2, <2>4 DEF EC2Type
<1>7. CASE NodeTerminationCleaner
  BY <1>7 DEF NodeTerminationCleaner
<1>8. CASE InstanceTerminates
  BY <1>0, <1>8 DEF InstanceTerminates, EC2Type
<1>9. CASE DescribeNetworkInterfaces \/ UpdateAvailableENIsIfNeeded \/ CreateCNINodeIfNotExisting \/ CNINodeReconciler
           \/ NodeRegisters \/ NodeRemoved \/ CNINodeDeleted \/ GarbageCollected \/ UNCHANGED vars
  <2>1. UNCHANGED status
    BY <1>9 DEF DescribeNetworkInterfaces, UpdateAvailableENIsIfNeeded, CreateCNINodeIfNotExisting, CNINodeReconciler,
                Reconcile, Patch, RemoveFinalizer, WaitTillCNINodeDeleted, CreateCNINodeFromObj, NodeRegisters,
                NodeRemoved, CNINodeDeleted, GarbageCollected, vars, ec2
  <2> QED
    BY <2>1
<1> QED
  BY <1>1, <1>6, <1>7, <1>8, <1>9 DEF Next, Environment, ClusterENICleaner

\* While its node is in the cluster and has no termination cleaner running,
\* nobody but the helper deletes the interface the helper is creating.
THEOREM CreatorKeepsItsInterface == Spec => CreatorKeepsInterface
<1>1. Init => KeepInv /\ OwnInterface
  BY DEF Init, KeepInv, OwnInterface, NoCall, Asleep
<1>2. TypeOK /\ KeepInv /\ OwnInterface /\ [Next]_vars => KeepInv' /\ OwnInterface'
  BY KeepStep, OwnInterfaceStep
<1>3. TypeOK /\ KeepInv /\ OwnInterface /\ [Next]_vars =>
        [\A e \in ENI, j \in Job : /\ status[e] = "available" /\ status'[e] = "gone"
                                   /\ call[j].eni = e /\ node /\ nodeCleaner.pc = "asleep"
                                   => call'[j] = NoCall]_vars
  BY WhoDeletes
<1> QED
  BY <1>1, <1>2, <1>3, TypeCorrect, PTL DEF Spec, CreatorKeepsInterface
=============================================================================
