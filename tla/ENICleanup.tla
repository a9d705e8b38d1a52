----------------------------- MODULE ENICleanup -----------------------------
(***************************************************************************)
(* What becomes of interfaces nobody uses: the EC2 helper creates a node's *)
(* trunk in several calls and rolls back when one fails; the cluster's     *)
(* cleaner deletes the interfaces it has seen available twice; the CNINode *)
(* controller finalizes a node's CNINode and starts a cleaner for the      *)
(* node.                                                                   *)
(*                                                                         *)
(* Source: pkg/aws/ec2/api/helper.go, pkg/aws/ec2/api/cleanup,             *)
(* controllers/crds/cninode_controller.go, InitTrunk of trunk.go and       *)
(* CreateCNINodeIfNotExisting of the node manager.                         *)
(*                                                                         *)
(* One Linux node and the trunks made for it.  A call that is retried with *)
(* back-off inside the helper is one step that succeeds or fails.          *)
(***************************************************************************)
EXTENDS Naturals, FiniteSets

CONSTANTS
  MaxENI,       \* bound on the interfaces created
  MaxJobs,      \* bound on the Init jobs under way at the same time
  MaxIndex,     \* the last device index of the instance
  MaxEvents,    \* bound on the changes of the cluster
  MaxFailures   \* bound on the failing calls

ASSUME CleanupAssumption == {MaxENI, MaxJobs, MaxIndex, MaxEvents, MaxFailures} \subseteq Nat

ENI == 1 .. MaxENI
NoENI == 0
Job == 1 .. MaxJobs
DeviceIndex == 0 .. MaxIndex

\* orphan: the owner reference names a Node object that is gone.
NoCNINode == [state |-> "none", labelled |-> FALSE, nodeID |-> FALSE, orphan |-> FALSE]
CNINode == [state : {"live", "deleting"}, labelled : BOOLEAN, nodeID : BOOLEAN, orphan : BOOLEAN]

VARIABLES
  \* EC2.
  status,          \* of the network interfaces
  deviceIndex,     \* at which they were attached last
  onTermination,   \* the interfaces EC2 deletes with the instance
  instance,        \* the node's instance runs
  \* The helper, called by InitTrunk.
  call,            \* each job's next EC2 call, its interface, the indexes it loaded, its node removed
  trunkENIId,
  displaced,       \* a job creates a trunk after it met another job's and saw it go
  \* The cleaners.
  availableENIs,   \* the interfaces of the last cycle
  cycle,           \* the cluster cleaner: its interfaces to go and those it will remember
  nodeCleaner,     \* the node termination cleaner, which holds the delete pool
  \* The CNINode and its controller.
  node,            \* the Node object exists
  adding,          \* the node manager has to add the node
  cniNode,
  reconcile,       \* CNINodeReconciler: its next call, the object it read and the one it writes
  lost,            \* the controller gave up recreating the CNINode
  events, failures

ec2 == <<status, deviceIndex, onTermination, instance>>
helper == <<call, trunkENIId, displaced>>
cleaners == <<availableENIs, cycle, nodeCleaner>>
crd == <<cniNode, reconcile, lost>>
vars == <<ec2, helper, cleaners, node, adding, crd, events, failures>>

NoCall == [next |-> "none", eni |-> NoENI, unused |-> {}, removed |-> FALSE]
Asleep == [pc |-> "asleep", todo |-> {}, seen |-> {}]
Done == [pc |-> "none", read |-> NoCNINode, write |-> NoCNINode]

TypeOK ==
  /\ status \in [ENI -> {"unmade", "available", "in-use", "gone"}]
  /\ deviceIndex \in [ENI -> DeviceIndex] /\ onTermination \in SUBSET ENI /\ instance \in BOOLEAN
  /\ call \in [Job -> [next : {"none", "describe", "create", "permission", "attach", "setTermination", "wait", "detach",
                               "waitDetached", "delete"},
                       eni : ENI \cup {NoENI}, unused : SUBSET DeviceIndex, removed : BOOLEAN]]
  /\ \A j \in Job : call[j].next \in {"none", "describe", "create"} <=> call[j].eni = NoENI
  /\ trunkENIId \in ENI \cup {NoENI}
  /\ availableENIs \in SUBSET ENI
  /\ cycle \in [pc : {"asleep", "running"}, todo : SUBSET ENI, seen : SUBSET ENI]
  /\ cycle.todo \cap cycle.seen = {}
  /\ nodeCleaner \in [pc : {"asleep", "describe", "running"}, todo : SUBSET ENI, seen : {{}}]
  /\ {node, adding, lost, displaced} \subseteq BOOLEAN
  /\ cniNode \in CNINode \cup {NoCNINode}
  /\ reconcile \in [pc : {"none", "patch", "finalize", "release", "waitDeleted", "create"},
                    read : CNINode \cup {NoCNINode}, write : CNINode \cup {NoCNINode}]
  /\ events \in 0 .. MaxEvents /\ failures \in 0 .. MaxFailures

\* The controller starts with a running instance whose node it does not know.
Init ==
  /\ status = [e \in ENI |-> "unmade"] /\ deviceIndex = [e \in ENI |-> 0] /\ onTermination = {} /\ instance = TRUE
  /\ call = [j \in Job |-> NoCall] /\ trunkENIId = NoENI /\ displaced = FALSE
  /\ availableENIs = {} /\ cycle = Asleep /\ nodeCleaner = Asleep
  /\ node = TRUE /\ adding = TRUE
  /\ cniNode = NoCNINode /\ reconcile = Done /\ lost = FALSE
  /\ events = 0 /\ failures = 0

happens == events < MaxEvents /\ events' = events + 1

fails == failures < MaxFailures /\ failures' = failures + 1

-----------------------------------------------------------------------------
(***************************************************************************)
(* The trunk: InitTrunk and CreateAndAttachNetworkInterface, run by the    *)
(* Init job of a Node object.  The job of a removed object goes on beside  *)
(* the one of its successor, and knows nothing of it.                      *)
(***************************************************************************)
attached == {e \in ENI : status[e] = "in-use"}

\* Mutant: a call that has ended is not forgotten.
returnsKeeping(j) == call' = [call EXCEPT ![j].next = "none"]

returns(j) == call' = [call EXCEPT ![j] = NoCall]

callUnchanged == UNCHANGED <<instance, cleaners, node, adding, crd, events>>

\* IPAMD takes the first indexes, so that only trunks occupy the last ones.
unusedIndexes == DeviceIndex \ {deviceIndex[e] : e \in attached}

\* The job starts: LoadDetails keeps the device indexes in use at that time.
LoadDetails(j) ==
  /\ node /\ ~adding /\ instance /\ trunkENIId = NoENI
  /\ call[j] = NoCall /\ \A k \in 1 .. j - 1 : call[k] # NoCall
  /\ \A k \in Job : call[k] = NoCall \/ call[k].removed
  /\ call' = [call EXCEPT ![j] = [NoCall EXCEPT !.next = "describe", !.unused = unusedIndexes]]
  /\ UNCHANGED <<status, deviceIndex, onTermination, trunkENIId, displaced, failures>> /\ callUnchanged

\* The trunk a removed Node object initializes is not its successor's.
initialized(j, e) == IF call[j].removed THEN UNCHANGED trunkENIId ELSE trunkENIId' = e

\* Mutant: the interfaces of the instance are not looked at.
InitTrunkAlwaysCreating(j) ==
  /\ call[j].next = "describe" /\ call' = [call EXCEPT ![j].next = "create"]
  /\ displaced' = (displaced \/ (attached = {} /\ call[j].unused # DeviceIndex))
  /\ UNCHANGED <<status, deviceIndex, onTermination, trunkENIId, failures>> /\ callUnchanged

\* An attached trunk is kept, otherwise one is created.
InitTrunk(j) ==
  /\ call[j].next = "describe"
  /\ \/ \E e \in attached : initialized(j, e) /\ returns(j) /\ UNCHANGED <<displaced, failures>>
     \/ /\ attached = {}
        /\ call' = [call EXCEPT ![j] = IF @.unused = {} THEN NoCall ELSE [@ EXCEPT !.next = "create"]]
        /\ displaced' = (displaced \/ call[j].unused # DeviceIndex)
        /\ UNCHANGED <<trunkENIId, failures>>
     \/ returns(j) /\ fails /\ UNCHANGED <<trunkENIId, displaced>>
  /\ UNCHANGED <<status, deviceIndex, onTermination>> /\ callUnchanged

\* An error may hide that the interface was made.
CreateNetworkInterface(j) ==
  /\ call[j].next = "create"
  /\ \/ \E e \in ENI :
          /\ status[e] = "unmade" /\ \A f \in 1 .. e - 1 : status[f] # "unmade"
          /\ status' = [status EXCEPT ![e] = "available"]
          /\ \/ call' = [call EXCEPT ![j] = [@ EXCEPT !.next = "permission", !.eni = e]] /\ UNCHANGED failures
             \/ returns(j) /\ fails
     \/ returns(j) /\ fails /\ UNCHANGED status
  /\ UNCHANGED <<deviceIndex, onTermination, trunkENIId, displaced>> /\ callUnchanged

CreateNetworkInterfacePermission(j) ==
  /\ call[j].next = "permission"
  /\ \/ status[call[j].eni] = "available" /\ call' = [call EXCEPT ![j].next = "attach"] /\ UNCHANGED failures
     \/ status[call[j].eni] # "available" /\ call' = [call EXCEPT ![j].next = "delete"] /\ UNCHANGED failures
     \/ call' = [call EXCEPT ![j].next = "delete"] /\ fails
  /\ UNCHANGED <<status, deviceIndex, onTermination, trunkENIId, displaced>> /\ callUnchanged

\* An error may hide that the interface was attached.
AttachNetworkInterfaceToInstance(j) ==
  /\ call[j].next = "attach"
  /\ \E i \in call[j].unused :
       /\ \A k \in call[j].unused : k <= i
       /\ LET possible == status[call[j].eni] = "available" /\ instance /\ i \in unusedIndexes
              attaches == /\ status' = [status EXCEPT ![call[j].eni] = "in-use"]
                          /\ deviceIndex' = [deviceIndex EXCEPT ![call[j].eni] = i]
              rollBack == call' = [call EXCEPT ![j] = [@ EXCEPT !.next = "delete", !.unused = {}]] IN
          \/ possible /\ attaches /\ call' = [call EXCEPT ![j] = [@ EXCEPT !.next = "setTermination", !.unused = {}]] /\ UNCHANGED failures
          \/ ~possible /\ rollBack /\ UNCHANGED <<status, deviceIndex, failures>>
          \/ rollBack /\ fails /\ UNCHANGED <<status, deviceIndex>>
          \/ possible /\ attaches /\ rollBack /\ fails
  /\ UNCHANGED <<onTermination, trunkENIId, displaced>> /\ callUnchanged

SetDeleteOnTermination(j) ==
  /\ call[j].next = "setTermination"
  /\ LET possible == status[call[j].eni] = "in-use"
         rollBack == call' = [call EXCEPT ![j].next = "detach"] /\ UNCHANGED onTermination IN
     \/ /\ possible
        /\ onTermination' = onTermination \cup {call[j].eni}
        /\ call' = [call EXCEPT ![j].next = "wait"]
        /\ UNCHANGED failures
     \/ ~possible /\ rollBack /\ UNCHANGED failures
     \/ rollBack /\ fails
  /\ UNCHANGED <<status, deviceIndex, trunkENIId, displaced>> /\ callUnchanged

\* WaitForNetworkInterfaceStatusChange, for the attachment.
WaitForAttachment(j) ==
  /\ call[j].next = "wait"
  /\ LET possible == status[call[j].eni] = "in-use"
         rollBack == call' = [call EXCEPT ![j].next = "detach"] /\ UNCHANGED trunkENIId IN
     \/ possible /\ initialized(j, call[j].eni) /\ returns(j) /\ UNCHANGED failures
     \/ ~possible /\ rollBack /\ UNCHANGED failures
     \/ rollBack /\ fails
  /\ UNCHANGED <<status, deviceIndex, onTermination, displaced>> /\ callUnchanged

DetachNetworkInterfaceFromInstance(j) ==
  /\ call[j].next = "detach"
  /\ \/ /\ status[call[j].eni] = "in-use"
        /\ status' = [status EXCEPT ![call[j].eni] = "available"]
        /\ call' = [call EXCEPT ![j].next = "waitDetached"]
        /\ UNCHANGED failures
     \/ status[call[j].eni] # "in-use" /\ returns(j) /\ UNCHANGED <<status, failures>>
     \/ returns(j) /\ fails /\ UNCHANGED status
  /\ UNCHANGED <<deviceIndex, onTermination, trunkENIId, displaced>> /\ callUnchanged

\* EC2 may never show the attachment as detached: it drops it altogether.
WaitForDetachment(j) ==
  /\ call[j].next = "waitDetached"
  /\ call' = [call EXCEPT ![j].next = "delete"] \/ returns(j)
  /\ UNCHANGED <<status, deviceIndex, onTermination, trunkENIId, displaced, failures>> /\ callUnchanged

DeleteNetworkInterface(j) ==
  /\ call[j].next = "delete" /\ returns(j)
  /\ \/ /\ status[call[j].eni] = "available"
        /\ status' = [status EXCEPT ![call[j].eni] = "gone"]
        /\ UNCHANGED failures
     \/ status[call[j].eni] # "available" /\ UNCHANGED <<status, failures>>
     \/ fails /\ UNCHANGED status
  /\ UNCHANGED <<deviceIndex, onTermination, trunkENIId, displaced>> /\ callUnchanged

CreateAndAttachNetworkInterface(j) ==
  \/ CreateNetworkInterface(j) \/ CreateNetworkInterfacePermission(j) \/ AttachNetworkInterfaceToInstance(j) \/ SetDeleteOnTermination(j)
  \/ WaitForAttachment(j) \/ DetachNetworkInterfaceFromInstance(j) \/ WaitForDetachment(j) \/ DeleteNetworkInterface(j)

-----------------------------------------------------------------------------
(***************************************************************************)
(* DeleteLeakedResources of the cluster's cleaner.  The interval between   *)
(* its cycles (ENICleanUpInterval, 30 minutes) is longer than a call of    *)
(* the helper.                                                             *)
(***************************************************************************)
available == {e \in ENI : status[e] = "available"}

longInterval == \A j \in Job : call[j].eni \notin availableENIs

\* A failing description ends the cycle and leaves the last one's memory.
DescribeNetworkInterfaces ==
  /\ cycle.pc = "asleep" /\ longInterval
  /\ available # {} \/ availableENIs # {}
  /\ \/ cycle' = [pc |-> "running", todo |-> available, seen |-> {}] /\ UNCHANGED failures
     \/ fails /\ UNCHANGED cycle
  /\ UNCHANGED <<ec2, helper, availableENIs, nodeCleaner, node, adding, crd, events>>

\* Mutant: an interface is deleted when it is first seen.
ShouldDeleteAny(e) == TRUE

ShouldDeleteENI(e) == e \in availableENIs

\* EC2 deletes what is available, and refuses what is in use.
ec2Deletes(e) ==
  \/ status[e] = "available" /\ status' = [status EXCEPT ![e] = "gone"] /\ UNCHANGED failures
  \/ status[e] # "available" /\ UNCHANGED <<status, failures>>
  \/ fails /\ UNCHANGED status

\* A failed deletion is not remembered.
DeleteLeakedResources ==
  \E e \in cycle.todo :
    /\ \/ /\ ShouldDeleteENI(e) /\ ec2Deletes(e)
          /\ cycle' = [cycle EXCEPT !.todo = @ \ {e}]
       \/ /\ ~ShouldDeleteENI(e)
          /\ cycle' = [cycle EXCEPT !.todo = @ \ {e}, !.seen = @ \cup {e}]
          /\ UNCHANGED <<status, failures>>
    /\ UNCHANGED <<deviceIndex, onTermination, instance, helper, availableENIs, nodeCleaner, node, adding, crd, events>>

\* Mutant: the interfaces of the cycle are not remembered.
forgetNothing ==
  /\ cycle.pc = "running" /\ cycle.todo = {}
  /\ cycle' = Asleep
  /\ UNCHANGED <<ec2, helper, availableENIs, nodeCleaner, node, adding, crd, events, failures>>

UpdateAvailableENIsIfNeeded ==
  /\ cycle.pc = "running" /\ cycle.todo = {}
  /\ availableENIs' = cycle.seen /\ cycle' = Asleep
  /\ UNCHANGED <<ec2, helper, nodeCleaner, node, adding, crd, events, failures>>

ClusterENICleaner == DescribeNetworkInterfaces \/ DeleteLeakedResources \/ UpdateAvailableENIsIfNeeded

\* The cleaner of a removed node deletes all it finds; its errors are logged.
NodeTerminationCleaner ==
  /\ \/ /\ nodeCleaner.pc = "describe"
        /\ nodeCleaner' = [nodeCleaner EXCEPT !.pc = "running", !.todo = available]
        /\ UNCHANGED <<status, failures>>
     \/ nodeCleaner.pc = "describe" /\ nodeCleaner' = Asleep /\ fails /\ UNCHANGED status
     \/ /\ nodeCleaner.pc = "running"
        /\ \E e \in nodeCleaner.todo : ec2Deletes(e) /\ nodeCleaner' = [nodeCleaner EXCEPT !.todo = @ \ {e}]
     \/ nodeCleaner.pc = "running" /\ nodeCleaner.todo = {} /\ nodeCleaner' = Asleep /\ UNCHANGED <<status, failures>>
  /\ UNCHANGED <<deviceIndex, onTermination, instance, helper, availableENIs, cycle, node, adding, crd, events>>

-----------------------------------------------------------------------------
(***************************************************************************)
(* The cluster.                                                            *)
(***************************************************************************)
NodeRegisters ==
  /\ ~node /\ instance /\ happens
  /\ node' = TRUE /\ adding' = TRUE
  /\ UNCHANGED <<ec2, helper, cleaners, crd, failures>>

orphaned(c) == [c EXCEPT !.orphan = c # NoCNINode]

\* The Node object is deleted; the node manager forgets the trunk.
NodeRemoved ==
  /\ node /\ happens
  /\ node' = FALSE /\ adding' = FALSE /\ trunkENIId' = NoENI
  /\ call' = [j \in Job |-> [call[j] EXCEPT !.removed = call[j] # NoCall]]
  /\ cniNode' = orphaned(cniNode)
  /\ reconcile' = [reconcile EXCEPT !.read = orphaned(@), !.write = orphaned(@)]
  /\ UNCHANGED <<ec2, displaced, cleaners, lost, failures>>

InstanceTerminates ==
  /\ instance /\ happens
  /\ instance' = FALSE
  /\ status' = [e \in ENI |-> IF status[e] # "in-use" THEN status[e]
                              ELSE IF e \in onTermination THEN "gone" ELSE "available"]
  /\ UNCHANGED <<deviceIndex, onTermination, helper, cleaners, node, adding, crd, failures>>

\* The garbage collector, or a user, deletes the CNINode, which its finalizer
\* holds back.
deleteCNINode == cniNode.state = "live" /\ cniNode' = [cniNode EXCEPT !.state = "deleting"]

GarbageCollected ==
  /\ cniNode.orphan /\ deleteCNINode
  /\ UNCHANGED <<ec2, helper, cleaners, node, adding, reconcile, lost, events, failures>>

CNINodeDeleted ==
  /\ ~cniNode.orphan /\ deleteCNINode /\ happens
  /\ UNCHANGED <<ec2, helper, cleaners, node, adding, reconcile, lost, failures>>

-----------------------------------------------------------------------------
(***************************************************************************)
(* The CNINode.                                                            *)
(***************************************************************************)
\* AddNode: a CNINode that is being deleted counts as existing.
CreateCNINodeIfNotExisting ==
  /\ adding /\ adding' = FALSE
  /\ cniNode' = IF cniNode # NoCNINode THEN cniNode
                ELSE [state |-> "live", labelled |-> TRUE, nodeID |-> TRUE, orphan |-> FALSE]
  /\ lost' = (reconcile.pc = "finalize")
  /\ UNCHANGED <<ec2, helper, cleaners, node, reconcile, events, failures>>

\* Of a node that is not found the label is empty and the id unknown.
ensureTagsAndLabels(c) == [c EXCEPT !.labelled = node, !.nodeID = @ \/ node]

reconciling(pc, write) == reconcile' = [pc |-> pc, read |-> cniNode, write |-> write]

\* The delete pool limits the cleaners; a full one has the request wait.
Finalize ==
  /\ cniNode.state = "deleting" /\ ~node
  /\ \/ cniNode.labelled /\ cniNode.nodeID /\ nodeCleaner.pc = "asleep" /\ nodeCleaner' = [Asleep EXCEPT !.pc = "describe"]
     \/ ~(cniNode.labelled /\ cniNode.nodeID) /\ UNCHANGED nodeCleaner
  /\ reconciling("finalize", NoCNINode)

\* The copy keeps the owner and the tags, not the labels.
recreated(old) == [old EXCEPT !.state = "live", !.labelled = FALSE]

Reconcile ==
  /\ reconcile = Done
  /\ \/ LET c == ensureTagsAndLabels(cniNode) IN
        cniNode.state = "live" /\ c # cniNode /\ reconciling("patch", c) /\ UNCHANGED nodeCleaner
     \/ Finalize
     \/ cniNode.state = "deleting" /\ node /\ reconciling("release", recreated(cniNode)) /\ UNCHANGED nodeCleaner
  /\ UNCHANGED <<ec2, helper, availableENIs, cycle, node, adding, cniNode, lost, events, failures>>

\* Patches carry an optimistic lock: they fail when the object has changed.
current == reconcile.read = cniNode

Patch ==
  /\ reconcile.pc = "patch" /\ reconcile' = Done
  /\ \/ current /\ cniNode' = reconcile.write
     \/ ~current /\ UNCHANGED cniNode
  /\ UNCHANGED <<ec2, helper, cleaners, node, adding, lost, events, failures>>

\* Mutant: the CNINode of a node that exists is not recreated.
RemoveFinalizerOnly ==
  /\ reconcile.pc \in {"finalize", "release"} /\ reconcile' = Done
  /\ \/ current /\ cniNode' = NoCNINode
     \/ ~current /\ UNCHANGED cniNode
  /\ UNCHANGED <<ec2, helper, cleaners, node, adding, lost, events, failures>>

RemoveFinalizer ==
  /\ reconcile.pc \in {"finalize", "release"}
  /\ \/ /\ current /\ cniNode' = NoCNINode
        /\ reconcile' = IF reconcile.pc = "release" THEN [reconcile EXCEPT !.pc = "waitDeleted"] ELSE Done
     \/ ~current /\ reconcile' = Done /\ UNCHANGED cniNode
  /\ UNCHANGED <<ec2, helper, cleaners, node, adding, lost, events, failures>>

\* After the timeout the request is retried, and finds no CNINode.
WaitTillCNINodeDeleted ==
  /\ reconcile.pc = "waitDeleted"
  /\ \/ cniNode = NoCNINode /\ reconcile' = [reconcile EXCEPT !.pc = "create"] /\ UNCHANGED <<lost, failures>>
     \/ cniNode # NoCNINode /\ reconcile' = Done /\ UNCHANGED <<lost, failures>>
     \/ reconcile' = Done /\ lost' = TRUE /\ fails
  /\ UNCHANGED <<ec2, helper, cleaners, node, adding, cniNode, events>>

\* An error is swallowed.
CreateCNINodeFromObj ==
  /\ reconcile.pc = "create" /\ reconcile' = Done
  /\ \/ cniNode = NoCNINode /\ cniNode' = reconcile.write /\ UNCHANGED <<lost, failures>>
     \/ cniNode # NoCNINode /\ UNCHANGED <<cniNode, lost, failures>>
     \/ fails /\ lost' = TRUE /\ UNCHANGED cniNode
  /\ UNCHANGED <<ec2, helper, cleaners, node, adding, events>>

CNINodeReconciler == Reconcile \/ Patch \/ RemoveFinalizer \/ WaitTillCNINodeDeleted \/ CreateCNINodeFromObj

-----------------------------------------------------------------------------
Environment == NodeRegisters \/ NodeRemoved \/ InstanceTerminates \/ CNINodeDeleted

Next ==
  \/ Environment \/ GarbageCollected
  \/ \E j \in Job : LoadDetails(j) \/ InitTrunk(j) \/ CreateAndAttachNetworkInterface(j)
  \/ ClusterENICleaner \/ NodeTerminationCleaner
  \/ CreateCNINodeIfNotExisting \/ CNINodeReconciler

Spec == Init /\ [][Next]_vars

(***************************************************************************)
(* The garbage collector, the cleaners, the reconciler and the node        *)
(* manager, which retries a failed InitTrunk, keep running.                *)
(***************************************************************************)
Fairness ==
  /\ WF_vars(GarbageCollected)
  /\ WF_vars(\E j \in Job : LoadDetails(j))
  /\ \A j \in Job : WF_vars(InitTrunk(j)) /\ WF_vars(CreateAndAttachNetworkInterface(j))
  /\ WF_vars(ClusterENICleaner) /\ WF_vars(NodeTerminationCleaner)
  /\ WF_vars(CreateCNINodeIfNotExisting) /\ WF_vars(CNINodeReconciler)

FairSpec == Spec /\ Fairness

-----------------------------------------------------------------------------
(***************************************************************************)
(* Properties.                                                             *)
(***************************************************************************)

\* An instance never has two trunks attached, whichever of the helper's calls
\* failed before InitTrunk was tried again and however the jobs of a removed
\* and a re-added node overlap, unless a job loaded the instance while the
\* other's trunk was attached and described it once that was detached again:
\* its free index is another one, which EC2 does not refuse.
OneTrunk == displaced \/ Cardinality(attached) <= 1

\* While its node is in the cluster and has no termination cleaner running,
\* nobody but the helper deletes the interface the helper is creating.
CreatorKeepsInterface ==
  [][\A e \in ENI, j \in Job :
       /\ status[e] = "available" /\ status'[e] = "gone"
       /\ call[j].eni = e /\ node /\ nodeCleaner.pc = "asleep"
       => call'[j] = NoCall]_vars

\* Every interface that is not attached is deleted in the end, whatever
\* roll-back failed and whatever the cleaners' own failures.
LeaksCollected == <>[](available = {})

\* A node that stays has a live CNINode again and again, unless the
\* controller gave up: the create call failed, the wait for the old object
\* timed out, or AddNode met the object that was being finalized for a
\* predecessor of the node.  It carries its label and its node's id again,
\* unless it is owned by that predecessor: such a CNINode is recreated with
\* its old owner and collected once more, perhaps before it is patched.
CNINodeRestored ==
  LET usable == cniNode.state = "live" /\ (cniNode.orphan \/ (cniNode.labelled /\ cniNode.nodeID)) IN
  []<>(node /\ ~lost => usable)
=============================================================================
