------------------------- MODULE TrunkENILeakProofs -------------------------
(***************************************************************************)
(* No branch interface is lost, whatever fails, stops, arrives, moves or   *)
(* restarts in between: NoUnaccountedENI for every instance of TrunkENI.   *)
(* And none is deleted early: NoEarlyDeletion, under the contract below.   *)
(***************************************************************************)
EXTENDS TrunkENIProofs

Popped == IF workerPc = "popped" THEN {workerENI} ELSE {}

\* Where a create job's interfaces can be besides the job's own list.
Placed(p) == uidToBranchENIMap[p] \cup Queued \cup Popped

\* What the create jobs know of their pods' cache entries: none before it is
\* written, and afterwards at most their own interfaces, the rest having moved on
\* to the delete queue.
CreateJobInv ==
  \A p \in Pod :
    /\ podPhase[p] = "absent" => jobPc[p] = "none"
    /\ \A e \in newENIs[p] : niStatus[e] # "none"
    /\ trunk # "up" => jobPc[p] \in {"none", "queued"}
    /\ jobPc[p] \in {"none", "queued", "fetched"} => newENIs[p] = {}
    /\ jobPc[p] \in {"assign", "create", "associate", "cache", "failed"} => uidToBranchENIMap[p] = {}
    /\ jobPc[p] \in {"annotate", "annotateFailed"} =>
         /\ uidToBranchENIMap[p] \subseteq newENIs[p]
         /\ \A e \in newENIs[p] : e \in Live \ leaked => e \in Placed(p)

\* NoUnaccountedENI in terms of the places an interface can be in.
Known == Queued \cup Popped \cup UNION {HeldFor(p) : p \in Pod}
Accounted == trunk = "up" => Live \ leaked \subseteq Known

AccountedInv == TypeOK /\ CreateJobInv /\ Accounted

-----------------------------------------------------------------------------
\* The invariant implies the property.
LEMMA AccountedImplies == Accounted => NoUnaccountedENI
<1>1. \A e \in Known :
        \/ \E p \in Pod : e \in newENIs[p] \cup uidToBranchENIMap[p]
        \/ e \in Range(deleteQueue)
        \/ workerPc = "popped" /\ workerENI = e
  BY DEF Known, Queued, Popped, HeldFor
<1> QED
  BY <1>1 DEF Accounted, NoUnaccountedENI, InMemory

\* An action that only takes interfaces out of use, or moves them between
\* places, keeps them accounted for.
LEMMA AccountedFrame ==
  ASSUME Accounted, trunk' = trunk, Live' \ leaked' \subseteq Live \ leaked,
         (Live' \ leaked') \cap (Queued \cup Popped) \subseteq Queued' \cup Popped',
         \A p \in Pod : (Live' \ leaked') \cap HeldFor(p) \subseteq HeldFor(p)' \cup Queued' \cup Popped'
  PROVE  Accounted'
<1> SUFFICES ASSUME trunk = "up", NEW e \in Live' \ leaked'
             PROVE  e \in Known'
  BY DEF Accounted
<1>1. e \in Known
  BY DEF Accounted
<1>2. CASE e \in Queued \cup Popped
  BY <1>2 DEF Known
<1>3. ASSUME NEW p \in Pod, e \in HeldFor(p)
      PROVE  e \in Known'
  BY <1>3 DEF Known
<1> QED
  BY <1>1, <1>2, <1>3 DEF Known

\* An action of nobody's create job that only moves cached interfaces on.
LEMMA CreateJobFrame ==
  ASSUME CreateJobInv, trunk' = trunk, UNCHANGED <<podPhase, jobPc, newENIs>>,
         Live' \ leaked' \subseteq Live \ leaked,
         \A p \in Pod :
           /\ \A e \in newENIs[p] : niStatus[e] # "none" => niStatus'[e] # "none"
           /\ uidToBranchENIMap'[p] \subseteq uidToBranchENIMap[p]
           /\ (Live' \ leaked') \cap Placed(p) \subseteq Placed(p)'
  PROVE  CreateJobInv'
  BY DEF CreateJobInv

\* The places an interface can be in depend on the queue and the worker alone.
LEMMA PlaceFrames ==
  /\ UNCHANGED deleteQueue => Queued' = Queued
  /\ UNCHANGED workerVars => Popped' = Popped
  /\ UNCHANGED niStatus => Live' = Live
  BY DEF Queued, Popped, Live, workerVars

\* At the start no interface exists.
LEMMA InitAccounted == Init => AccountedInv
<1> SUFFICES ASSUME Init PROVE AccountedInv
  OBVIOUS
<1>1. CreateJobInv
  BY DEF Init, CreateJobInv
<1>2. Accounted
  BY DEF Init, Accounted
<1> QED
  BY <1>1, <1>2, InitType DEF AccountedInv

\* No step of a job, a failed call or a restart loses track of an interface.
LEMMA NextAccounted == AccountedInv /\ [Next]_vars => AccountedInv'
<1> SUFFICES ASSUME AccountedInv, [Next]_vars PROVE AccountedInv'
  OBVIOUS
<1>t. TypeOK /\ TypeOK'
  BY NextType DEF AccountedInv
<1>i. CreateJobInv /\ Accounted
  BY DEF AccountedInv
<1> DEFINE Goal == CreateJobInv' /\ Accounted'
<1> USE DEF HeldFor, trunkVars, createVars, workerVars, listVars, podVars, ec2Vars
<1>1. ASSUME NEW p \in Pod, PodScheduled(p) PROVE Goal
  <2>1. Queued' = Queued /\ Popped' = Popped /\ Live' = Live
    BY <1>1, PlaceFrames DEF PodScheduled
  <2>2. CreateJobInv'
    BY <1>t, <1>i, <1>1, <2>1 DEF CreateJobInv, PodScheduled, TypeOK, Placed
  <2>3. Accounted'
    BY <1>i, <1>1, <2>1, AccountedFrame DEF PodScheduled
  <2> QED
    BY <2>2, <2>3
<1>2. ASSUME NEW p \in Pod, NEW phase \in {"completed", "gone"}, PodStops(p, phase) PROVE Goal
  <2>1. Queued' = Queued /\ Popped' = Popped /\ Live' = Live
    BY <1>2, PlaceFrames DEF PodStops
  <2>2. CreateJobInv'
    BY <1>t, <1>i, <1>2, <2>1 DEF CreateJobInv, PodStops, TypeOK, Placed
  <2>3. Accounted'
    BY <1>i, <1>2, <2>1, AccountedFrame DEF PodStops
  <2> QED
    BY <2>2, <2>3
<1>3. ASSUME NEW p \in Pod, CreateFetch(p) PROVE Goal
  <2>1. Queued' = Queued /\ Popped' = Popped /\ Live' = Live
    BY <1>3, PlaceFrames DEF CreateFetch
  <2>2. CreateJobInv'
    BY <1>t, <1>i, <1>3, <2>1 DEF CreateJobInv, CreateFetch, TypeOK, Placed
  <2>3. Accounted'
    BY <1>i, <1>3, <2>1, AccountedFrame DEF CreateFetch
  <2> QED
    BY <2>2, <2>3
<1>4. ASSUME NEW p \in Pod, CreateAdmit(p) PROVE Goal
  <2>1. Queued' = Queued /\ Popped' = Popped /\ Live' = Live
    BY <1>4, PlaceFrames DEF CreateAdmit
  <2>2. CreateJobInv'
    BY <1>t, <1>i, <1>4, <2>1 DEF CreateJobInv, CreateAdmit, jobFails, TypeOK, Placed
  <2>3. Accounted'
    BY <1>i, <1>4, <2>1, AccountedFrame DEF CreateAdmit
  <2> QED
    BY <2>2, <2>3
<1>5. ASSUME NEW p \in Pod, AssignVlanId(p) PROVE Goal
  <2>1. Queued' = Queued /\ Popped' = Popped /\ Live' = Live
    BY <1>5, PlaceFrames DEF AssignVlanId
  <2>2. \E pc \in {"failed", "create"} : jobPc' = [jobPc EXCEPT ![p] = pc]
    BY <1>5 DEF AssignVlanId
  <2>3. CreateJobInv'
    BY <1>t, <1>i, <1>5, <2>1, <2>2 DEF CreateJobInv, AssignVlanId, TypeOK, Placed
  <2>4. Accounted'
    BY <1>i, <1>5, <2>1, AccountedFrame DEF AssignVlanId
  <2> QED
    BY <2>3, <2>4
<1>6. ASSUME NEW p \in Pod, CreateNetworkInterface(p) PROVE Goal
  <2>1. PICK e \in ENI : ec2Creates(e, vlanID[p]) /\ newENIs' = [newENIs EXCEPT ![p] = @ \cup {e}]
    BY <1>6 DEF CreateNetworkInterface
  <2>2. Queued' = Queued /\ Popped' = Popped
    BY <1>6, PlaceFrames DEF CreateNetworkInterface
  <2>3. Live' = Live \cup {e} /\ e \notin Live
    BY <1>t, <2>1 DEF Live, ec2Creates, TypeOK
  <2>4. CreateJobInv'
    <3>1. \A q \in Pod : e \notin newENIs[q]
      BY <1>i, <2>1 DEF CreateJobInv, ec2Creates
    <3> QED
      BY <1>t, <1>i, <1>6, <2>1, <2>2, <2>3, <3>1
      DEF CreateJobInv, CreateNetworkInterface, ec2Creates, TypeOK, Placed
  <2>5. Accounted'
    <3>1. Known \cup {e} \subseteq Known'
      BY <1>t, <1>6, <2>1, <2>2 DEF Known, CreateNetworkInterface, TypeOK
    <3> QED
      BY <1>i, <1>6, <2>3, <3>1 DEF Accounted, CreateNetworkInterface
  <2> QED
    BY <2>4, <2>5
<1>7. ASSUME NEW p \in Pod, CreateNetworkInterfaceFails(p) PROVE Goal
  <2>1. Queued' = Queued /\ Popped' = Popped /\ Live' \ leaked' \subseteq Live \ leaked
    BY <1>t, <1>7, PlaceFrames DEF CreateNetworkInterfaceFails, ec2Creates, Live, TypeOK
  <2>2. \A e \in ENI : niStatus[e] # "none" => niStatus'[e] # "none"
    BY <1>t, <1>7 DEF CreateNetworkInterfaceFails, ec2Creates, TypeOK
  <2>3. CreateJobInv'
    BY <1>t, <1>i, <1>7, <2>1, <2>2 DEF CreateJobInv, CreateNetworkInterfaceFails, TypeOK, Placed
  <2>4. Accounted'
    BY <1>i, <1>7, <2>1, AccountedFrame DEF CreateNetworkInterfaceFails
  <2> QED
    BY <2>3, <2>4
<1>8. ASSUME NEW p \in Pod, AssociateBranchToTrunk(p) PROVE Goal
  <2>1. Queued' = Queued /\ Popped' = Popped /\ Live' = Live
    BY <1>8, PlaceFrames DEF AssociateBranchToTrunk
  <2>2. \E pc \in {"failed", "assign", "cache"} : jobPc' = [jobPc EXCEPT ![p] = pc]
    BY <1>8 DEF AssociateBranchToTrunk
  <2>3. CreateJobInv'
    BY <1>t, <1>i, <1>8, <2>1, <2>2 DEF CreateJobInv, AssociateBranchToTrunk, TypeOK, Placed
  <2>4. Accounted'
    BY <1>i, <1>8, <2>1, AccountedFrame DEF AssociateBranchToTrunk
  <2> QED
    BY <2>3, <2>4
<1>9. ASSUME NEW p \in Pod, CreateFails(p) PROVE Goal
  <2>1. Queued' = newENIs[p] \cup Queued
    BY <1>t, <1>9, PushToFrontFacts DEF CreateFails, TypeOK, Queued
  <2>2. Popped' = Popped /\ Live' = Live
    BY <1>9, PlaceFrames DEF CreateFails
  <2>3. CreateJobInv'
    BY <1>t, <1>i, <1>9, <2>1, <2>2 DEF CreateJobInv, CreateFails, jobFails, TypeOK, Placed
  <2>4. Accounted'
    BY <1>t, <1>i, <1>9, <2>1, <2>2, AccountedFrame DEF CreateFails, TypeOK
  <2> QED
    BY <2>3, <2>4
<1>10. ASSUME NEW p \in Pod, AddBranchToCache(p) PROVE Goal
  <2>1. Queued' = Queued /\ Popped' = Popped /\ Live' = Live
    BY <1>10, PlaceFrames DEF AddBranchToCache
  <2>2. uidToBranchENIMap' = [uidToBranchENIMap EXCEPT ![p] = newENIs[p]]
    BY <1>t, <1>i, <1>10 DEF AddBranchToCache, CreateJobInv, TypeOK
  <2>3. CreateJobInv'
    BY <1>t, <1>i, <1>10, <2>1, <2>2 DEF CreateJobInv, AddBranchToCache, TypeOK, Placed
  <2>4. Accounted'
    BY <1>t, <1>i, <1>10, <2>1, <2>2, AccountedFrame DEF AddBranchToCache, TypeOK, CreateJobInv
  <2> QED
    BY <2>3, <2>4
<1>11. ASSUME NEW p \in Pod, AnnotatePod(p) PROVE Goal
  <2>1. Queued' = Queued /\ Popped' = Popped /\ Live' = Live
    BY <1>11, PlaceFrames DEF AnnotatePod
  <2>2. CreateJobInv'
    BY <1>t, <1>i, <1>11, <2>1 DEF CreateJobInv, AnnotatePod, TypeOK, Placed
  <2>3. Accounted'
    <3>1. (Live \ leaked) \cap newENIs[p] \subseteq Placed(p)
      BY <1>i, <1>11 DEF CreateJobInv, AnnotatePod
    <3> QED
      BY <1>t, <1>i, <1>11, <2>1, <3>1, AccountedFrame DEF AnnotatePod, TypeOK, Placed
  <2> QED
    BY <2>2, <2>3
<1>12. ASSUME NEW p \in Pod, AnnotatePodErrs(p) PROVE Goal
  <2>1. Queued' = Queued /\ Popped' = Popped /\ Live' = Live
    BY <1>12, PlaceFrames DEF AnnotatePodErrs
  <2>2. CreateJobInv'
    BY <1>t, <1>i, <1>12, <2>1 DEF CreateJobInv, AnnotatePodErrs, TypeOK, Placed
  <2>3. Accounted'
    BY <1>i, <1>12, <2>1, AccountedFrame DEF AnnotatePodErrs
  <2> QED
    BY <2>2, <2>3
<1>13. ASSUME NEW p \in Pod, AnnotateFails(p) PROVE Goal
  <2>1. Queued' = newENIs[p] \cup Queued
    BY <1>t, <1>13, PushToFrontFacts DEF AnnotateFails, TypeOK, Queued
  <2>2. Popped' = Popped /\ Live' = Live
    BY <1>13, PlaceFrames DEF AnnotateFails
  <2>3. CreateJobInv'
    BY <1>t, <1>i, <1>13, <2>1, <2>2 DEF CreateJobInv, AnnotateFails, jobFails, TypeOK, Placed
  <2>4. Accounted'
    BY <1>t, <1>i, <1>13, <2>1, <2>2, AccountedFrame DEF AnnotateFails, TypeOK, CreateJobInv
  <2> QED
    BY <2>3, <2>4
<1>14. ASSUME NEW p \in Pod, DeleteBranchUsedByPods(p) PROVE Goal
  <2>1. Popped' = Popped /\ Live' = Live
    BY <1>14, PlaceFrames DEF DeleteBranchUsedByPods
  <2>2. CASE trunk = "up"
    <3>1. pushToCoolDown(uidToBranchENIMap[p]) /\ uidToBranchENIMap' = [uidToBranchENIMap EXCEPT ![p] = {}]
      BY <1>14, <2>2 DEF DeleteBranchUsedByPods
    <3>2. Queued' = uidToBranchENIMap[p] \cup Queued
      BY <1>t, <3>1, PushToCoolDownFacts DEF TypeOK, Queued
    <3>3. CreateJobInv'
      BY <1>t, <1>i, <1>14, <2>1, <3>1, <3>2, CreateJobFrame DEF DeleteBranchUsedByPods, TypeOK, Placed
    <3>4. Accounted'
      BY <1>t, <1>i, <1>14, <2>1, <3>1, <3>2, AccountedFrame DEF DeleteBranchUsedByPods, TypeOK
    <3> QED
      BY <3>3, <3>4
  <2>3. CASE trunk # "up"
    <3>1. Queued' = Queued /\ UNCHANGED uidToBranchENIMap
      BY <1>14, <2>3, PlaceFrames DEF DeleteBranchUsedByPods
    <3>2. CreateJobInv'
      BY <1>i, <1>14, <2>1, <3>1, CreateJobFrame DEF DeleteBranchUsedByPods, Placed
    <3>3. Accounted'
      BY <1>i, <1>14, <2>1, <3>1, AccountedFrame DEF DeleteBranchUsedByPods
    <3> QED
      BY <3>2, <3>3
  <2> QED
    BY <2>2, <2>3
<1>15. ASSUME PopENIFromDeleteQueue PROVE Goal
  <2>1. Queued = {Head(deleteQueue)} \cup Queued'
    BY <1>t, <1>15, PopFacts DEF PopENIFromDeleteQueue, TypeOK, Queued
  <2>2. Live' = Live /\ Popped' = {Head(deleteQueue)} /\ Popped = {}
    BY <1>15, PlaceFrames DEF PopENIFromDeleteQueue, Popped
  <2>3. CreateJobInv'
    BY <1>i, <1>15, <2>1, <2>2, CreateJobFrame DEF PopENIFromDeleteQueue, Placed
  <2>4. Accounted'
    BY <1>i, <1>15, <2>1, <2>2, AccountedFrame DEF PopENIFromDeleteQueue
  <2> QED
    BY <2>3, <2>4
<1>16. ASSUME StillCoolingDown PROVE Goal
  <2>1. Queued' = {workerENI} \cup Queued
    <3>1. deleteQueue \in Seq(ENI) /\ {workerENI} \in SUBSET ENI /\ pushToFront({workerENI})
      BY <1>t, <1>16 DEF StillCoolingDown, TypeOK
    <3> QED
      BY <3>1, PushToFrontFacts DEF Queued
  <2>2. Live' = Live /\ Popped' = {} /\ Popped = {workerENI}
    BY <1>16, PlaceFrames DEF StillCoolingDown, workerDone, Popped
  <2>3. CreateJobInv'
    BY <1>i, <1>16, <2>1, <2>2, CreateJobFrame DEF StillCoolingDown, Placed
  <2>4. Accounted'
    BY <1>i, <1>16, <2>1, <2>2, AccountedFrame DEF StillCoolingDown
  <2> QED
    BY <2>3, <2>4
<1>17. ASSUME DeleteNetworkInterface PROVE Goal
  <2>1. Queued' = Queued /\ Popped' = {} /\ Popped = {workerENI}
    BY <1>17, PlaceFrames DEF DeleteNetworkInterface, Popped
  <2>2. /\ Live' \ leaked' \subseteq Live \ leaked /\ workerENI \notin Live'
        /\ \A e \in ENI : niStatus[e] # "none" => niStatus'[e] # "none"
    BY <1>t, <1>17 DEF DeleteNetworkInterface, Live, TypeOK
  <2>3. CreateJobInv'
    BY <1>t, <1>i, <1>17, <2>1, <2>2, CreateJobFrame DEF DeleteNetworkInterface, Placed, TypeOK
  <2>4. Accounted'
    BY <1>i, <1>17, <2>1, <2>2, AccountedFrame DEF DeleteNetworkInterface
  <2> QED
    BY <2>3, <2>4
<1>18. ASSUME DeleteNetworkInterfaceFails PROVE Goal
  <2>1. workerENI \in ENI /\ niStatus' \in {niStatus, [niStatus EXCEPT ![workerENI] = "gone"]}
    BY <1>t, <1>18 DEF DeleteNetworkInterfaceFails, TypeOK
  <2>2. Live' \subseteq Live /\ \A e \in ENI : niStatus[e] # "none" => niStatus'[e] # "none"
    BY <1>t, <2>1 DEF Live, TypeOK
  <2>3. Popped' = {} /\ Popped = {workerENI}
    BY <1>18 DEF DeleteNetworkInterfaceFails, workerDone, Popped
  <2>4. /\ Live' \ leaked' \subseteq Live \ leaked
        /\ Queued \subseteq Queued' /\ (workerENI \in Queued' \/ workerENI \notin Live' \ leaked')
    <3>1. CASE /\ leaked' = (leaked \cup {workerENI}) \cap {e \in ENI : niStatus'[e] = "live"}
               /\ UNCHANGED deleteQueue
      BY <2>2, <3>1, PlaceFrames DEF Live
    <3>2. CASE pushToFront({workerENI}) /\ UNCHANGED leaked
      <4>1. deleteQueue \in Seq(ENI) /\ {workerENI} \in SUBSET ENI
        BY <1>t, <2>1 DEF TypeOK
      <4>2. Queued' = {workerENI} \cup Queued
        BY <3>2, <4>1, PushToFrontFacts DEF Queued
      <4> QED
        BY <2>2, <3>2, <4>2
    <3> QED
      BY <1>18, <3>1, <3>2 DEF DeleteNetworkInterfaceFails
  <2>5. CreateJobInv'
    BY <1>t, <1>i, <1>18, <2>2, <2>3, <2>4, CreateJobFrame DEF DeleteNetworkInterfaceFails, Placed, TypeOK
  <2>6. Accounted'
    BY <1>i, <1>18, <2>3, <2>4, AccountedFrame DEF DeleteNetworkInterfaceFails
  <2> QED
    BY <2>5, <2>6
<1>19. ASSUME FreeVlanId PROVE Goal
  <2>1. Queued' = Queued /\ Live' = Live /\ Popped' = {} /\ Popped = {}
    BY <1>19, PlaceFrames DEF FreeVlanId, workerDone, Popped
  <2>2. CreateJobInv'
    BY <1>i, <1>19, <2>1, CreateJobFrame DEF FreeVlanId, Placed
  <2>3. Accounted'
    BY <1>i, <1>19, <2>1, AccountedFrame DEF FreeVlanId
  <2> QED
    BY <2>2, <2>3
<1>20. ASSUME ReconcileList PROVE Goal
  <2>1. Queued' = Queued /\ Popped' = Popped /\ Live' = Live
    BY <1>20, PlaceFrames DEF ReconcileList
  <2>2. CreateJobInv'
    BY <1>i, <1>20, <2>1, CreateJobFrame DEF ReconcileList, Placed
  <2>3. Accounted'
    BY <1>i, <1>20, <2>1, AccountedFrame DEF ReconcileList
  <2> QED
    BY <2>2, <2>3
<1>21. ASSUME Reconcile PROVE Goal
  <2> DEFINE S == UNION {uidToBranchENIMap[p] : p \in Pod \ podList}
  <2>1. S \in SUBSET ENI /\ pushToCoolDown(S)
    BY <1>t, <1>21 DEF TypeOK, Reconcile
  <2>2. \A p \in Pod :
          /\ uidToBranchENIMap'[p] \subseteq uidToBranchENIMap[p]
          /\ uidToBranchENIMap[p] \subseteq uidToBranchENIMap'[p] \cup S
    BY <1>21 DEF Reconcile
  <2> HIDE DEF S
  <2>3. Queued' = S \cup Queued
    BY <1>t, <2>1, PushToCoolDownFacts DEF TypeOK, Queued
  <2>4. Popped' = Popped /\ Live' = Live
    BY <1>21, PlaceFrames DEF Reconcile
  <2>5. CreateJobInv'
    BY <1>i, <1>21, <2>2, <2>3, <2>4, CreateJobFrame DEF Reconcile, Placed
  <2>6. Accounted'
    BY <1>i, <1>21, <2>2, <2>3, <2>4, AccountedFrame DEF Reconcile
  <2> QED
    BY <2>5, <2>6
<1>22. ASSUME InitResource PROVE Goal
  <2>1. Queued' = Queued /\ Popped' = Popped /\ Live' = Live
    BY <1>22, PlaceFrames DEF InitResource
  <2>2. CreateJobInv'
    BY <1>i, <1>22, <2>1 DEF CreateJobInv, InitResource, Placed
  <2>3. Accounted'
    BY <1>22 DEF Accounted, InitResource
  <2> QED
    BY <2>2, <2>3
<1>23. ASSUME InitTrunk PROVE Goal
  <2> DEFINE found == associatedBranchInterfaces
             owned(p) == IF p \in initPods THEN annotation[p] \cap found ELSE {}
             orphans == found \ UNION {owned(p) : p \in Pod}
  <2>1. /\ uidToBranchENIMap' = [p \in Pod |-> owned(p)]
        /\ deleteQueue' \in SetToSeqs(orphans)
        /\ leaked' = Live \ found
    BY <1>23 DEF InitTrunk
  <2>2. found \in SUBSET ENI /\ orphans \in SUBSET ENI
    BY DEF associatedBranchInterfaces, Live
  <2>3. Queued' = orphans
    BY <2>1, <2>2, OrderingFacts DEF Queued
  <2>4. CreateJobInv'
    BY <1>i, <1>23 DEF CreateJobInv, InitTrunk
  <2>5. Live' = Live
    BY <1>23, PlaceFrames DEF InitTrunk
  <2>6. Accounted'
    <3>1. \A p \in Pod : owned(p) \subseteq HeldFor(p)'
      BY <2>1
    <3>2. found \subseteq Known'
      BY <2>3, <3>1 DEF Known
    <3> QED
      BY <2>1, <2>5, <3>2 DEF Accounted
  <2> QED
    BY <2>4, <2>6
<1>24. ASSUME Crash PROVE Goal
  <2>1. CreateJobInv'
    BY <1>24 DEF CreateJobInv, Crash
  <2>2. Accounted'
    BY <1>24 DEF Accounted, Crash
  <2> QED
    BY <2>1, <2>2
<1>25. ASSUME SubnetChange PROVE Goal
  <2>1. Queued' = Queued /\ Popped' = Popped /\ Live' = Live
    BY <1>25, PlaceFrames DEF SubnetChange
  <2>2. CreateJobInv'
    BY <1>i, <1>25, <2>1, CreateJobFrame DEF SubnetChange, Placed
  <2>3. Accounted'
    BY <1>i, <1>25, <2>1, AccountedFrame DEF SubnetChange
  <2> QED
    BY <2>2, <2>3
<1>26. ASSUME Tick PROVE Goal
  <2>1. Queued' = Queued /\ Popped' = Popped /\ Live' = Live
    BY <1>26, PlaceFrames DEF Tick
  <2>2. CreateJobInv'
    BY <1>i, <1>26, <2>1, CreateJobFrame DEF Tick, Placed
  <2>3. Accounted'
    BY <1>i, <1>26, <2>1, AccountedFrame DEF Tick
  <2> QED
    BY <2>2, <2>3
<1>27. ASSUME UNCHANGED vars PROVE Goal
  <2>1. Queued' = Queued /\ Popped' = Popped /\ Live' = Live
    BY <1>27, PlaceFrames DEF vars
  <2>2. CreateJobInv'
    BY <1>i, <1>27, <2>1, CreateJobFrame DEF vars, Placed
  <2>3. Accounted'
    BY <1>i, <1>27, <2>1, AccountedFrame DEF vars
  <2> QED
    BY <2>2, <2>3
<1>28. ASSUME NEW p \in Pod, PodUpdated(p) PROVE Goal
  <2>1. Queued' = Queued /\ Popped' = Popped /\ Live' = Live
    BY <1>28, PlaceFrames DEF PodUpdated
  <2>2. CreateJobInv'
    BY <1>t, <1>i, <1>28, <2>1 DEF CreateJobInv, PodUpdated, TypeOK, Placed
  <2>3. Accounted'
    BY <1>i, <1>28, <2>1, AccountedFrame DEF PodUpdated
  <2> QED
    BY <2>2, <2>3
<1>29. Goal
  BY <1>1, <1>2, <1>3, <1>4, <1>5, <1>6, <1>7, <1>8, <1>9, <1>10, <1>11, <1>12, <1>13, <1>14, <1>15, <1>16,
     <1>17, <1>18, <1>19, <1>20, <1>21, <1>22, <1>23, <1>24, <1>25, <1>26, <1>27, <1>28
  DEF Next, CreateStep, DeleteQueueStep
<1> QED
  BY <1>t, <1>29 DEF AccountedInv

\* Every existing interface of the trunk stays where the controller will find
\* it, or is one it knowingly gave up on or could never learn of; no assumption
\* on pods, EC2, the API server or restarts is needed.
THEOREM NoInterfaceLost == Spec => []NoUnaccountedENI
<1>1. Init => AccountedInv
  BY InitAccounted
<1>2. AccountedInv /\ [Next]_vars => AccountedInv'
  BY NextAccounted
<1>3. AccountedInv => NoUnaccountedENI
  BY AccountedImplies DEF AccountedInv
<1> QED
  BY <1>1, <1>2, <1>3, PTL DEF Spec

-----------------------------------------------------------------------------
(***************************************************************************)
(* No announced interface is deleted early.  The property is about two     *)
(* clocks, that of the interface's deletionTimeStamp and that of the pod's *)
(* end, so the invariant relates them from the moment the interface is     *)
(* queued: it is never queued unstamped while a pod announces it, and      *)
(* never stamped before the pod stopped.                                   *)
(***************************************************************************)

\* The two things the environment must not do: apply an annotation and answer
\* with an error (the job then deletes what it announced), and slip a whole
\* create job in between ReconcileNode's listing and its lock.
CoolDownContract == "LostAnnotate" \notin Faults /\ "ArriveDuringList" \notin Faults

\* The interfaces a pod announces or is about to, and all that are its own.
Announced(p) == newENIs[p] \cup annotation[p]
OwnedBy(p) == HeldFor(p) \cup annotation[p]

\* The interfaces on their way to deletion.
Doomed == Queued \cup InHand

\* What the jobs that queue interfaces know of the pods: their owner has stopped.
StopInv ==
  /\ \A p \in Pod :
       /\ podPhase[p] \in {"completed", "gone"} => stoppedFor[p] # NoTime
       /\ p \in deletedJobs => podPhase[p] \in {"completed", "gone"}
       /\ podPhase[p] = "absent" => OwnedBy(p) = {}
       /\ jobPc[p] \notin {"none", "queued"} => annotation[p] = {}
       /\ listPc = "listed" /\ p \notin podList => podPhase[p] \in {"absent", "gone"}
       /\ trunk = "listed" /\ p \notin initPods /\ annotation[p] # {} => podPhase[p] \in {"completed", "gone"}
  /\ trunk # "up" => deleteQueue = <<>> /\ workerPc = "idle" /\ listPc = "idle"

\* An interface belongs to one pod, and EC2 knows it.
OwnerInv ==
  /\ \A p \in Pod : \A e \in OwnedBy(p) : niStatus[e] # "none"
  /\ \A p, q \in Pod : p # q => OwnedBy(p) \cap OwnedBy(q) = {}
  /\ \A e \in Doomed : niStatus[e] # "none"

\* The interface's clock started no earlier than the pod's.
ClockInv ==
  \A p \in Pod : \A e \in Announced(p) :
    /\ e \in Doomed => deletionTimeStamp[e] # NoTime /\ deletionTimeStamp[e] <= stoppedFor[p]
    /\ niStatus[e] = "gone" => stoppedFor[p] > CoolDownPeriod

CoolDownInv == AccountedInv /\ StopInv /\ OwnerInv /\ ClockInv

\* An action that gives no pod a new interface keeps each with its owner.
LEMMA OwnerFrame ==
  ASSUME OwnerInv, \A p \in Pod : OwnedBy(p)' \subseteq OwnedBy(p),
         \A e \in Doomed' : niStatus[e] # "none",
         \A e \in Doomed' \cup UNION {OwnedBy(p) : p \in Pod} : niStatus[e] # "none" => niStatus'[e] # "none"
  PROVE  OwnerInv'
<1>1. \A p \in Pod : \A e \in OwnedBy(p)' : niStatus'[e] # "none"
  <2> SUFFICES ASSUME NEW p \in Pod, NEW e \in OwnedBy(p)' PROVE niStatus'[e] # "none"
    OBVIOUS
  <2>1. e \in OwnedBy(p) /\ e \in UNION {OwnedBy(q) : q \in Pod}
    OBVIOUS
  <2> QED
    BY <2>1 DEF OwnerInv
<1>2. \A p, q \in Pod : p # q => OwnedBy(p)' \cap OwnedBy(q)' = {}
  <2> SUFFICES ASSUME NEW p \in Pod, NEW q \in Pod, p # q PROVE OwnedBy(p)' \cap OwnedBy(q)' = {}
    OBVIOUS
  <2>1. OwnedBy(p) \cap OwnedBy(q) = {}
    BY DEF OwnerInv
  <2> QED
    BY <2>1
<1>3. \A e \in Doomed' : niStatus'[e] # "none"
  OBVIOUS
<1> QED
  BY <1>1, <1>2, <1>3 DEF OwnerInv

\* An action that announces and queues nothing new and stops no clock.
LEMMA ClockFrame ==
  ASSUME ClockInv, UNCHANGED <<deletionTimeStamp, stoppedFor>>,
         \A p \in Pod : Announced(p)' \subseteq Announced(p),
         \A p \in Pod : \A e \in Announced(p)' : e \in Doomed' => e \in Doomed,
         \A p \in Pod : \A e \in Announced(p)' : niStatus'[e] = "gone" => niStatus[e] = "gone"
  PROVE  ClockInv'
<1> SUFFICES ASSUME NEW p \in Pod, NEW e \in Announced(p)'
             PROVE  /\ e \in Doomed' => deletionTimeStamp[e] # NoTime /\ deletionTimeStamp[e] <= stoppedFor[p]
                    /\ niStatus'[e] = "gone" => stoppedFor[p] > CoolDownPeriod
  BY DEF ClockInv
<1>1. e \in Announced(p)
  OBVIOUS
<1> QED
  BY <1>1 DEF ClockInv

\* An action that touches neither queue nor worker.
LEMMA DoomedFrame == UNCHANGED <<deleteQueue, workerVars>> => Doomed' = Doomed
  BY DEF Doomed, Queued, InHand, workerVars

\* An action that moves no interface of anyone.
LEMMA QuietFrame ==
  ASSUME OwnerInv, ClockInv,
         UNCHANGED <<deleteQueue, workerVars, newENIs, uidToBranchENIMap, annotation, niStatus,
                     deletionTimeStamp, stoppedFor>>
  PROVE  OwnerInv' /\ ClockInv'
<1>1. Doomed' = Doomed
  BY DoomedFrame
<1>2. \A p \in Pod : Announced(p)' = Announced(p) /\ OwnedBy(p)' = OwnedBy(p)
  BY DEF Announced, OwnedBy, HeldFor
<1>3. OwnerInv'
  BY <1>1, <1>2 DEF OwnerInv
<1>4. ClockInv'
  BY <1>1, <1>2, ClockFrame
<1> QED
  BY <1>3, <1>4

\* At the start there is no interface and no pod.
LEMMA InitCoolDown == Init => CoolDownInv
<1> SUFFICES ASSUME Init PROVE CoolDownInv
  OBVIOUS
<1>1. Doomed = {} /\ \A p \in Pod : OwnedBy(p) = {} /\ Announced(p) = {}
  BY EmptyQueueFacts DEF Init, Doomed, Queued, InHand, OwnedBy, HeldFor, Announced
<1>2. StopInv
  BY <1>1 DEF Init, StopInv
<1>3. OwnerInv /\ ClockInv
  BY <1>1 DEF OwnerInv, ClockInv
<1> QED
  BY <1>2, <1>3, InitAccounted DEF CoolDownInv

\* No step queues an announced interface before its pod has stopped.
LEMMA NextCoolDown == CoolDownContract /\ CoolDownInv /\ [Next]_vars => CoolDownInv'
<1> SUFFICES ASSUME CoolDownContract, CoolDownInv, [Next]_vars PROVE CoolDownInv'
  OBVIOUS
<1>a. AccountedInv'
  BY NextAccounted DEF CoolDownInv
<1>t. TypeOK /\ TypeOK' /\ CreateJobInv
  BY NextType DEF CoolDownInv, AccountedInv
<1>i. StopInv /\ OwnerInv /\ ClockInv
  BY DEF CoolDownInv
<1>c. "LostAnnotate" \notin Faults /\ "ArriveDuringList" \notin Faults
  BY DEF CoolDownContract
<1>n. \A p \in Pod : podPhase[p] \in {"completed", "gone"} => stoppedFor[p] \in Nat
  BY <1>t, <1>i DEF TypeOK, StopInv, Age, NoTime
<1> DEFINE Goal == StopInv' /\ OwnerInv' /\ ClockInv'
<1> USE DEF trunkVars, createVars, workerVars, listVars, podVars, ec2Vars
<1>1. ASSUME NEW p \in Pod, PodScheduled(p) PROVE Goal
  <2>1. StopInv'
    BY <1>t, <1>i, <1>1, <1>c DEF StopInv, CreateJobInv, OwnedBy, HeldFor, TypeOK, PodScheduled
  <2>2. OwnerInv' /\ ClockInv'
    BY <1>i, <1>1, QuietFrame DEF PodScheduled
  <2> QED
    BY <2>1, <2>2
<1>2. ASSUME NEW p \in Pod, NEW phase \in {"completed", "gone"}, PodStops(p, phase) PROVE Goal
  <2>1. StopInv'
    BY <1>t, <1>i, <1>2 DEF StopInv, OwnedBy, HeldFor, TypeOK, PodStops, NoTime
  <2>2. Doomed' = Doomed /\ \A q \in Pod : Announced(q)' = Announced(q) /\ OwnedBy(q)' = OwnedBy(q)
    BY <1>2, DoomedFrame DEF PodStops, Announced, OwnedBy, HeldFor
  <2>3. OwnerInv'
    BY <1>i, <1>2, <2>2 DEF PodStops, OwnerInv
  <2>4. \A q \in Pod : stoppedFor[q] # NoTime => stoppedFor'[q] = stoppedFor[q]
    BY <1>t, <1>2 DEF PodStops, TypeOK
  <2>5. ClockInv'
    <3> SUFFICES ASSUME NEW q \in Pod, NEW e \in Announced(q)
                 PROVE  /\ e \in Doomed => deletionTimeStamp[e] # NoTime /\ deletionTimeStamp[e] <= stoppedFor'[q]
                        /\ niStatus[e] = "gone" => stoppedFor'[q] > CoolDownPeriod
      BY <1>2, <2>2 DEF ClockInv, PodStops
    <3>1. e \in ENI
      BY <1>t DEF TypeOK, Announced
    <3>2. e \in Doomed \/ niStatus[e] = "gone" => stoppedFor[q] # NoTime
      BY <1>t, <1>i, <3>1, TrunkAssumption DEF ClockInv, TypeOK, Age, NoTime
    <3> QED
      BY <1>i, <2>4, <3>2 DEF ClockInv
  <2> QED
    BY <2>1, <2>3, <2>5
<1>3. ASSUME NEW p \in Pod, CreateFetch(p) PROVE Goal
  <2>1. StopInv'
    BY <1>t, <1>i, <1>3 DEF StopInv, CreateJobInv, OwnedBy, HeldFor, TypeOK, CreateFetch
  <2>2. OwnerInv' /\ ClockInv'
    BY <1>i, <1>3, QuietFrame DEF CreateFetch
  <2> QED
    BY <2>1, <2>2
<1>4. ASSUME NEW p \in Pod, CreateAdmit(p) PROVE Goal
  <2>1. StopInv'
    BY <1>t, <1>i, <1>4 DEF StopInv, CreateJobInv, OwnedBy, HeldFor, TypeOK, CreateAdmit, jobFails
  <2>2. OwnerInv' /\ ClockInv'
    BY <1>i, <1>4, QuietFrame DEF CreateAdmit, jobFails
  <2> QED
    BY <2>1, <2>2
<1>5. ASSUME NEW p \in Pod, AssignVlanId(p) PROVE Goal
  <2>1. StopInv'
    BY <1>t, <1>i, <1>5 DEF StopInv, CreateJobInv, OwnedBy, HeldFor, TypeOK, AssignVlanId
  <2>2. OwnerInv' /\ ClockInv'
    BY <1>i, <1>5, QuietFrame DEF AssignVlanId
  <2> QED
    BY <2>1, <2>2
<1>6. ASSUME NEW p \in Pod, CreateNetworkInterface(p) PROVE Goal
  <2>1. PICK e \in ENI : ec2Creates(e, vlanID[p]) /\ newENIs' = [newENIs EXCEPT ![p] = @ \cup {e}]
    BY <1>6 DEF CreateNetworkInterface
  <2>2. niStatus[e] = "none" /\ niStatus' = [niStatus EXCEPT ![e] = "live"]
    BY <2>1 DEF ec2Creates
  <2>3. Doomed' = Doomed /\ e \notin Doomed /\ \A q \in Pod : e \notin OwnedBy(q)
    BY <1>i, <1>6, <2>2, DoomedFrame DEF CreateNetworkInterface, OwnerInv
  <2>4. \A q \in Pod : /\ OwnedBy(q)' = IF q = p THEN OwnedBy(q) \cup {e} ELSE OwnedBy(q)
                       /\ Announced(q)' = IF q = p THEN Announced(q) \cup {e} ELSE Announced(q)
    BY <1>t, <1>6, <2>1 DEF CreateNetworkInterface, OwnedBy, Announced, HeldFor, TypeOK
  <2>5. StopInv'
    BY <1>t, <1>i, <1>6, <2>4 DEF StopInv, CreateJobInv, TypeOK, CreateNetworkInterface
  <2>6. OwnerInv'
    <3>1. \A f \in Doomed' : niStatus'[f] # "none"
      BY <1>t, <1>i, <2>2, <2>3 DEF OwnerInv, TypeOK
    <3>2. \A q \in Pod : \A f \in OwnedBy(q)' : niStatus'[f] # "none"
      <4> SUFFICES ASSUME NEW q \in Pod, NEW f \in OwnedBy(q)' PROVE niStatus'[f] # "none"
        OBVIOUS
      <4>1. CASE f = e
        BY <1>t, <2>2, <4>1 DEF TypeOK
      <4>2. CASE f # e
        <5>1. f \in OwnedBy(q) /\ f \in ENI
          BY <1>t, <2>4, <4>2 DEF OwnedBy, HeldFor, TypeOK
        <5> QED
          BY <1>t, <1>i, <2>2, <4>2, <5>1 DEF OwnerInv, TypeOK
      <4> QED
        BY <4>1, <4>2
    <3>3. \A q, r \in Pod : q # r => OwnedBy(q)' \cap OwnedBy(r)' = {}
      BY <1>i, <2>3, <2>4 DEF OwnerInv
    <3> QED
      BY <3>1, <3>2, <3>3 DEF OwnerInv
  <2>7. ClockInv'
    <3> SUFFICES ASSUME NEW q \in Pod, NEW f \in Announced(q)'
                 PROVE  /\ f \in Doomed => deletionTimeStamp[f] # NoTime /\ deletionTimeStamp[f] <= stoppedFor[q]
                        /\ niStatus'[f] = "gone" => stoppedFor[q] > CoolDownPeriod
      BY <1>6, <2>3 DEF ClockInv, CreateNetworkInterface
    <3>1. CASE f = e
      BY <1>t, <2>2, <2>3, <3>1 DEF TypeOK
    <3>2. CASE f # e
      <4>1. f \in Announced(q) /\ niStatus'[f] = niStatus[f]
        BY <1>t, <2>2, <2>4, <3>2 DEF TypeOK, Announced
      <4> QED
        BY <1>i, <4>1 DEF ClockInv
    <3> QED
      BY <3>1, <3>2
  <2> QED
    BY <2>5, <2>6, <2>7
<1>7. ASSUME NEW p \in Pod, CreateNetworkInterfaceFails(p) PROVE Goal
  <2>1. StopInv'
    BY <1>t, <1>i, <1>7 DEF StopInv, OwnedBy, HeldFor, TypeOK, CreateNetworkInterfaceFails
  <2>2. Doomed' = Doomed /\ \A q \in Pod : Announced(q)' = Announced(q) /\ OwnedBy(q)' = OwnedBy(q)
    BY <1>7, DoomedFrame DEF CreateNetworkInterfaceFails, Announced, OwnedBy, HeldFor
  <2>3. \/ UNCHANGED niStatus
        \/ \E e \in ENI : niStatus[e] = "none" /\ niStatus' = [niStatus EXCEPT ![e] = "live"]
    BY <1>7 DEF CreateNetworkInterfaceFails, ec2Creates
  <2>4. \A e \in ENI : niStatus[e] # "none" => niStatus'[e] = niStatus[e]
    BY <1>t, <2>3 DEF TypeOK
  <2>5. Doomed \subseteq ENI /\ \A q \in Pod : OwnedBy(q) \subseteq ENI /\ Announced(q) \subseteq OwnedBy(q)
    BY <1>t, RangeOfSeq DEF TypeOK, Doomed, Queued, InHand, Range, OwnedBy, HeldFor, Announced
  <2>6. OwnerInv' /\ \A q \in Pod : \A e \in Announced(q) : niStatus'[e] = niStatus[e]
    BY <1>i, <2>2, <2>4, <2>5 DEF OwnerInv
  <2>7. ClockInv'
    BY <1>i, <1>7, <2>2, <2>6, ClockFrame DEF CreateNetworkInterfaceFails
  <2> QED
    BY <2>1, <2>6, <2>7
<1>8. ASSUME NEW p \in Pod, AssociateBranchToTrunk(p) PROVE Goal
  <2>1. StopInv'
    BY <1>t, <1>i, <1>8 DEF StopInv, CreateJobInv, OwnedBy, HeldFor, TypeOK, AssociateBranchToTrunk
  <2>2. OwnerInv' /\ ClockInv'
    BY <1>i, <1>8, QuietFrame DEF AssociateBranchToTrunk
  <2> QED
    BY <2>1, <2>2
<1>9. ASSUME NEW p \in Pod, CreateFails(p) PROVE Goal
  <2>1. Queued' = newENIs[p] \cup Queued
    BY <1>t, <1>9, PushToFrontFacts DEF CreateFails, TypeOK, Queued
  <2>2. Doomed' = Doomed \cup newENIs[p]
    BY <1>9, <2>1 DEF CreateFails, Doomed, InHand
  <2>3. annotation[p] = {} /\ trunk = "up"
    BY <1>t, <1>i, <1>9 DEF CreateFails, StopInv, CreateJobInv
  <2>4. \A q \in Pod : OwnedBy(q)' \subseteq OwnedBy(q) /\ Announced(q)' \subseteq Announced(q)
    BY <1>t, <1>9 DEF CreateFails, OwnedBy, HeldFor, Announced, TypeOK
  <2>5. Announced(p)' = {}
    BY <1>t, <1>9, <2>3 DEF CreateFails, Announced, TypeOK
  <2>6. StopInv'
    BY <1>t, <1>i, <1>9, <2>3, <2>4 DEF StopInv, CreateFails, jobFails, TypeOK
  <2>7. newENIs[p] \subseteq OwnedBy(p) /\ \A e \in Doomed' : niStatus[e] # "none"
    BY <1>i, <2>2 DEF OwnerInv, OwnedBy, HeldFor
  <2>8. OwnerInv'
    BY <1>i, <1>9, <2>4, <2>7, OwnerFrame DEF CreateFails
  <2>9. \A q \in Pod : \A e \in Announced(q)' : e \in Doomed' => e \in Doomed
    <3> SUFFICES ASSUME NEW q \in Pod, NEW e \in Announced(q)', e \in newENIs[p] PROVE e \in Doomed
      BY <2>2
    <3>1. q # p /\ e \in OwnedBy(q) /\ e \in OwnedBy(p)
      BY <2>4, <2>5, <2>7 DEF Announced, OwnedBy, HeldFor
    <3> QED
      BY <1>i, <3>1 DEF OwnerInv
  <2>10. ClockInv'
    BY <1>i, <1>9, <2>4, <2>9, ClockFrame DEF CreateFails
  <2> QED
    BY <2>6, <2>8, <2>10
<1>10. ASSUME NEW p \in Pod, AddBranchToCache(p) PROVE Goal
  <2>1. \A q \in Pod : OwnedBy(q)' \subseteq OwnedBy(q) /\ Announced(q)' = Announced(q)
    BY <1>t, <1>10 DEF AddBranchToCache, OwnedBy, HeldFor, Announced, TypeOK
  <2>2. Doomed' = Doomed
    BY <1>10, DoomedFrame DEF AddBranchToCache
  <2>3. StopInv'
    BY <1>t, <1>i, <1>10, <2>1 DEF StopInv, TypeOK, AddBranchToCache
  <2>4. \A e \in Doomed' : niStatus[e] # "none"
    BY <1>i, <2>2 DEF OwnerInv
  <2>5. OwnerInv'
    BY <1>i, <1>10, <2>1, <2>4, OwnerFrame DEF AddBranchToCache
  <2>6. ClockInv'
    BY <1>i, <1>10, <2>1, <2>2, ClockFrame DEF AddBranchToCache
  <2> QED
    BY <2>3, <2>5, <2>6
<1>11. ASSUME NEW p \in Pod, AnnotatePod(p) PROVE Goal
  <2>1. \A q \in Pod : OwnedBy(q)' \subseteq OwnedBy(q) /\ Announced(q)' \subseteq Announced(q)
    BY <1>t, <1>11 DEF AnnotatePod, OwnedBy, HeldFor, Announced, TypeOK
  <2>2. Doomed' = Doomed
    BY <1>11, DoomedFrame DEF AnnotatePod
  <2>3. trunk = "up" /\ trunk' = "up"
    BY <1>t, <1>11 DEF CreateJobInv, AnnotatePod
  <2>4. StopInv'
    BY <1>t, <1>i, <1>11, <2>1, <2>3 DEF StopInv, TypeOK, AnnotatePod
  <2>5. \A e \in Doomed' : niStatus[e] # "none"
    BY <1>i, <2>2 DEF OwnerInv
  <2>6. OwnerInv'
    BY <1>i, <1>11, <2>1, <2>5, OwnerFrame DEF AnnotatePod
  <2>7. ClockInv'
    BY <1>i, <1>11, <2>1, <2>2, ClockFrame DEF AnnotatePod
  <2> QED
    BY <2>4, <2>6, <2>7
<1>12. ASSUME NEW p \in Pod, AnnotatePodErrs(p) PROVE Goal
  <2>0. UNCHANGED annotation
    BY <1>c, <1>12 DEF AnnotatePodErrs
  <2>1. StopInv'
    BY <1>t, <1>i, <1>12, <2>0 DEF StopInv, OwnedBy, HeldFor, TypeOK, AnnotatePodErrs
  <2>2. OwnerInv' /\ ClockInv'
    BY <1>i, <1>12, <2>0, QuietFrame DEF AnnotatePodErrs
  <2> QED
    BY <2>1, <2>2
<1>13. ASSUME NEW p \in Pod, AnnotateFails(p) PROVE Goal
  <2>1. Queued' = newENIs[p] \cup Queued
    BY <1>t, <1>13, PushToFrontFacts DEF AnnotateFails, TypeOK, Queued
  <2>2. Doomed' = Doomed \cup newENIs[p]
    BY <1>13, <2>1 DEF AnnotateFails, Doomed, InHand
  <2>3. annotation[p] = {} /\ trunk = "up"
    BY <1>t, <1>i, <1>13 DEF AnnotateFails, StopInv, CreateJobInv
  <2>4. \A q \in Pod : OwnedBy(q)' \subseteq OwnedBy(q) /\ Announced(q)' \subseteq Announced(q)
    BY <1>t, <1>13 DEF AnnotateFails, OwnedBy, HeldFor, Announced, TypeOK
  <2>5. Announced(p)' = {}
    BY <1>t, <1>13, <2>3 DEF AnnotateFails, Announced, TypeOK
  <2>6. StopInv'
    BY <1>t, <1>i, <1>13, <2>3, <2>4 DEF StopInv, AnnotateFails, jobFails, TypeOK
  <2>7. newENIs[p] \subseteq OwnedBy(p) /\ \A e \in Doomed' : niStatus[e] # "none"
    BY <1>i, <2>2 DEF OwnerInv, OwnedBy, HeldFor
  <2>8. OwnerInv'
    BY <1>i, <1>13, <2>4, <2>7, OwnerFrame DEF AnnotateFails
  <2>9. \A q \in Pod : \A e \in Announced(q)' : e \in Doomed' => e \in Doomed
    <3> SUFFICES ASSUME NEW q \in Pod, NEW e \in Announced(q)', e \in newENIs[p] PROVE e \in Doomed
      BY <2>2
    <3>1. q # p /\ e \in OwnedBy(q) /\ e \in OwnedBy(p)
      BY <2>4, <2>5, <2>7 DEF Announced, OwnedBy, HeldFor
    <3> QED
      BY <1>i, <3>1 DEF OwnerInv
  <2>10. ClockInv'
    BY <1>i, <1>13, <2>4, <2>9, ClockFrame DEF AnnotateFails
  <2> QED
    BY <2>6, <2>8, <2>10
<1>14. ASSUME NEW p \in Pod, DeleteBranchUsedByPods(p) PROVE Goal
  <2>1. CASE trunk = "up"
    <3>1. pushToCoolDown(uidToBranchENIMap[p]) /\ uidToBranchENIMap' = [uidToBranchENIMap EXCEPT ![p] = {}]
      BY <1>14, <2>1 DEF DeleteBranchUsedByPods
    <3>2. Queued' = uidToBranchENIMap[p] \cup Queued
      BY <1>t, <3>1, PushToCoolDownFacts DEF TypeOK, Queued
    <3>3. Doomed' = Doomed \cup uidToBranchENIMap[p]
      BY <1>14, <3>2 DEF DeleteBranchUsedByPods, Doomed, InHand
    <3>4. \A q \in Pod : OwnedBy(q)' \subseteq OwnedBy(q) /\ Announced(q)' = Announced(q)
      BY <1>t, <1>14, <3>1 DEF DeleteBranchUsedByPods, OwnedBy, HeldFor, Announced, TypeOK
    <3>5. StopInv'
      BY <1>t, <1>i, <1>14, <2>1, <3>4 DEF StopInv, TypeOK, DeleteBranchUsedByPods
    <3>6. uidToBranchENIMap[p] \subseteq OwnedBy(p) /\ \A e \in Doomed' : niStatus[e] # "none"
      BY <1>i, <3>3 DEF OwnerInv, OwnedBy, HeldFor
    <3>7. OwnerInv'
      BY <1>i, <1>14, <3>4, <3>6, OwnerFrame DEF DeleteBranchUsedByPods
    <3>8. stoppedFor[p] \in Nat
      BY <1>i, <1>n, <1>14 DEF StopInv, DeleteBranchUsedByPods
    <3>9. ClockInv'
      <4> SUFFICES ASSUME NEW q \in Pod, NEW e \in Announced(q)
                   PROVE  /\ e \in Doomed' => deletionTimeStamp'[e] # NoTime /\ deletionTimeStamp'[e] <= stoppedFor[q]
                          /\ niStatus[e] = "gone" => stoppedFor[q] > CoolDownPeriod
        BY <1>14, <3>4 DEF ClockInv, DeleteBranchUsedByPods
      <4>1. e \in ENI /\ e \in OwnedBy(q)
        BY <1>t DEF TypeOK, Announced, OwnedBy, HeldFor
      <4>2. CASE e \in uidToBranchENIMap[p]
        <5>1. q = p
          BY <1>i, <3>6, <4>1, <4>2 DEF OwnerInv
        <5>2. deletionTimeStamp'[e] = 0
          BY <3>1, <4>1, <4>2 DEF pushToCoolDown
        <5> QED
          BY <1>i, <3>8, <5>1, <5>2 DEF ClockInv, NoTime
      <4>3. CASE e \notin uidToBranchENIMap[p]
        <5>1. deletionTimeStamp'[e] = deletionTimeStamp[e]
          BY <3>1, <4>1, <4>3 DEF pushToCoolDown
        <5> QED
          BY <1>i, <3>3, <4>3, <5>1 DEF ClockInv
      <4> QED
        BY <4>2, <4>3
    <3> QED
      BY <3>5, <3>7, <3>9
  <2>2. CASE trunk # "up"
    <3>1. StopInv'
      BY <1>t, <1>i, <1>14, <2>2 DEF StopInv, OwnedBy, HeldFor, TypeOK, DeleteBranchUsedByPods
    <3>2. OwnerInv' /\ ClockInv'
      BY <1>i, <1>14, <2>2, QuietFrame DEF DeleteBranchUsedByPods
    <3> QED
      BY <3>1, <3>2
  <2> QED
    BY <2>1, <2>2
<1>15. ASSUME PopENIFromDeleteQueue PROVE Goal
  <2>1. Queued = {Head(deleteQueue)} \cup Queued'
    BY <1>t, <1>15, PopFacts DEF PopENIFromDeleteQueue, TypeOK, Queued
  <2>2. Doomed' = Doomed
    BY <1>15, <2>1 DEF PopENIFromDeleteQueue, Doomed, InHand
  <2>3. trunk = "up" /\ \A p \in Pod : OwnedBy(p)' = OwnedBy(p) /\ Announced(p)' = Announced(p)
    BY <1>t, <1>i, <1>15 DEF PopENIFromDeleteQueue, StopInv, OwnedBy, HeldFor, Announced, TypeOK
  <2>4. StopInv'
    BY <1>i, <1>15, <2>3 DEF StopInv, PopENIFromDeleteQueue
  <2>5. \A e \in Doomed' : niStatus[e] # "none"
    BY <1>i, <2>2 DEF OwnerInv
  <2>6. OwnerInv'
    BY <1>i, <1>15, <2>3, <2>5, OwnerFrame DEF PopENIFromDeleteQueue
  <2>7. ClockInv'
    BY <1>i, <1>15, <2>2, <2>3, ClockFrame DEF PopENIFromDeleteQueue
  <2> QED
    BY <2>4, <2>6, <2>7
<1>16. ASSUME StillCoolingDown PROVE Goal
  <2>1. Queued' = {workerENI} \cup Queued
    <3>1. deleteQueue \in Seq(ENI) /\ {workerENI} \in SUBSET ENI /\ pushToFront({workerENI})
      BY <1>t, <1>16 DEF StillCoolingDown, TypeOK
    <3> QED
      BY <3>1, PushToFrontFacts DEF Queued
  <2>2. Doomed' = Doomed
    BY <1>16, <2>1 DEF StillCoolingDown, workerDone, Doomed, InHand
  <2>3. trunk = "up" /\ \A p \in Pod : OwnedBy(p)' = OwnedBy(p) /\ Announced(p)' = Announced(p)
    BY <1>t, <1>i, <1>16 DEF StillCoolingDown, StopInv, OwnedBy, HeldFor, Announced, TypeOK
  <2>4. StopInv'
    BY <1>i, <1>16, <2>3 DEF StopInv, StillCoolingDown
  <2>5. \A e \in Doomed' : niStatus[e] # "none"
    BY <1>i, <2>2 DEF OwnerInv
  <2>6. OwnerInv'
    BY <1>i, <1>16, <2>3, <2>5, OwnerFrame DEF StillCoolingDown
  <2>7. ClockInv'
    BY <1>i, <1>16, <2>2, <2>3, ClockFrame DEF StillCoolingDown
  <2> QED
    BY <2>4, <2>6, <2>7
<1>17. ASSUME DeleteNetworkInterface PROVE Goal
  <2>0. workerENI \in Doomed /\ cooledDown(workerENI)
    BY <1>17 DEF DeleteNetworkInterface, Doomed, InHand
  <2>1. workerENI \in ENI /\ niStatus' \in {niStatus, [niStatus EXCEPT ![workerENI] = "gone"]}
    BY <1>t, <1>17 DEF DeleteNetworkInterface, TypeOK
  <2>2. Doomed' \subseteq Doomed
    BY <1>17 DEF DeleteNetworkInterface, Doomed, Queued, InHand
  <2>3. trunk = "up" /\ \A p \in Pod : OwnedBy(p)' = OwnedBy(p) /\ Announced(p)' = Announced(p)
    BY <1>t, <1>i, <1>17 DEF DeleteNetworkInterface, StopInv, OwnedBy, HeldFor, Announced, TypeOK
  <2>4. StopInv'
    BY <1>i, <1>17, <2>3 DEF StopInv, DeleteNetworkInterface
  <2>5. \A e \in Doomed' : niStatus[e] # "none"
    BY <1>i, <2>2 DEF OwnerInv
  <2>6. \A e \in ENI : niStatus[e] # "none" => niStatus'[e] # "none"
    BY <1>t, <2>1 DEF TypeOK
  <2>7. Doomed' \subseteq ENI /\ \A p \in Pod : OwnedBy(p) \subseteq ENI
    BY <1>t, <2>2, RangeOfSeq DEF TypeOK, Doomed, Queued, InHand, Range, OwnedBy, HeldFor
  <2>8. OwnerInv'
    BY <1>i, <2>3, <2>5, <2>6, <2>7, OwnerFrame
  <2>9. ClockInv'
    <3> SUFFICES ASSUME NEW p \in Pod, NEW e \in Announced(p)
                 PROVE  /\ e \in Doomed => deletionTimeStamp[e] # NoTime /\ deletionTimeStamp[e] <= stoppedFor[p]
                        /\ niStatus'[e] = "gone" => stoppedFor[p] > CoolDownPeriod
      BY <1>17, <2>2, <2>3 DEF ClockInv, DeleteNetworkInterface
    <3>1. e \in ENI
      BY <1>t DEF TypeOK, Announced
    <3>2. CASE e = workerENI
      <4>1. deletionTimeStamp[e] # NoTime /\ deletionTimeStamp[e] <= stoppedFor[p]
        BY <1>i, <2>0, <3>2 DEF ClockInv
      <4>2. deletionTimeStamp[e] > CoolDownPeriod
        BY <2>0, <3>2, <4>1 DEF cooledDown
      <4>3. deletionTimeStamp[e] \in Int /\ stoppedFor[p] \in Int /\ CoolDownPeriod \in Int
        BY <1>t, <3>1, TrunkAssumption DEF TypeOK, Age, NoTime
      <4> QED
        BY <4>1, <4>2, <4>3
    <3>3. CASE e # workerENI
      <4>1. niStatus'[e] = niStatus[e]
        BY <1>t, <2>1, <3>1, <3>3 DEF TypeOK
      <4> QED
        BY <1>i, <4>1 DEF ClockInv
    <3> QED
      BY <3>2, <3>3
  <2> QED
    BY <2>4, <2>8, <2>9
<1>18. ASSUME DeleteNetworkInterfaceFails PROVE Goal
  <2>0. workerENI \in Doomed /\ cooledDown(workerENI)
    BY <1>18 DEF DeleteNetworkInterfaceFails, Doomed, InHand
  <2>1. workerENI \in ENI /\ niStatus' \in {niStatus, [niStatus EXCEPT ![workerENI] = "gone"]}
    BY <1>t, <1>18 DEF DeleteNetworkInterfaceFails, TypeOK
  <2>2. Doomed' \subseteq Doomed
    <3>1. InHand' = {}
      BY <1>18 DEF DeleteNetworkInterfaceFails, workerDone, InHand
    <3>2. CASE UNCHANGED deleteQueue
      BY <3>1, <3>2 DEF Doomed, Queued
    <3>3. CASE pushToFront({workerENI})
      <4>1. deleteQueue \in Seq(ENI) /\ {workerENI} \in SUBSET ENI
        BY <1>t, <2>1 DEF TypeOK
      <4>2. Queued' = {workerENI} \cup Queued
        BY <3>3, <4>1, PushToFrontFacts DEF Queued
      <4> QED
        BY <2>0, <3>1, <4>2 DEF Doomed
    <3> QED
      BY <1>18, <3>2, <3>3 DEF DeleteNetworkInterfaceFails
  <2>3. trunk = "up" /\ \A p \in Pod : OwnedBy(p)' = OwnedBy(p) /\ Announced(p)' = Announced(p)
    BY <1>t, <1>i, <1>18 DEF DeleteNetworkInterfaceFails, StopInv, OwnedBy, HeldFor, Announced, TypeOK
  <2>4. StopInv'
    BY <1>i, <1>18, <2>3 DEF StopInv, DeleteNetworkInterfaceFails
  <2>5. \A e \in Doomed' : niStatus[e] # "none"
    BY <1>i, <2>2 DEF OwnerInv
  <2>6. \A e \in ENI : niStatus[e] # "none" => niStatus'[e] # "none"
    BY <1>t, <2>1 DEF TypeOK
  <2>7. Doomed' \subseteq ENI /\ \A p \in Pod : OwnedBy(p) \subseteq ENI
    BY <1>t, <2>2, RangeOfSeq DEF TypeOK, Doomed, Queued, InHand, Range, OwnedBy, HeldFor
  <2>8. OwnerInv'
    BY <1>i, <2>3, <2>5, <2>6, <2>7, OwnerFrame
  <2>9. ClockInv'
    <3> SUFFICES ASSUME NEW p \in Pod, NEW e \in Announced(p)
                 PROVE  /\ e \in Doomed => deletionTimeStamp[e] # NoTime /\ deletionTimeStamp[e] <= stoppedFor[p]
                        /\ niStatus'[e] = "gone" => stoppedFor[p] > CoolDownPeriod
      BY <1>18, <2>2, <2>3 DEF ClockInv, DeleteNetworkInterfaceFails
    <3>1. e \in ENI
      BY <1>t DEF TypeOK, Announced
    <3>2. CASE e = workerENI
      <4>1. deletionTimeStamp[e] # NoTime /\ deletionTimeStamp[e] <= stoppedFor[p]
        BY <1>i, <2>0, <3>2 DEF ClockInv
      <4>2. deletionTimeStamp[e] > CoolDownPeriod
        BY <2>0, <3>2, <4>1 DEF cooledDown
      <4>3. deletionTimeStamp[e] \in Int /\ stoppedFor[p] \in Int /\ CoolDownPeriod \in Int
        BY <1>t, <3>1, TrunkAssumption DEF TypeOK, Age, NoTime
      <4> QED
        BY <4>1, <4>2, <4>3
    <3>3. CASE e # workerENI
      <4>1. niStatus'[e] = niStatus[e]
        BY <1>t, <2>1, <3>1, <3>3 DEF TypeOK
      <4> QED
        BY <1>i, <4>1 DEF ClockInv
    <3> QED
      BY <3>2, <3>3
  <2> QED
    BY <2>4, <2>8, <2>9
<1>19. ASSUME FreeVlanId PROVE Goal
  <2>2. Doomed' \subseteq Doomed
    BY <1>19 DEF FreeVlanId, workerDone, Doomed, Queued, InHand
  <2>3. trunk = "up" /\ \A p \in Pod : OwnedBy(p)' = OwnedBy(p) /\ Announced(p)' = Announced(p)
    BY <1>t, <1>i, <1>19 DEF FreeVlanId, StopInv, OwnedBy, HeldFor, Announced, TypeOK
  <2>4. StopInv'
    BY <1>i, <1>19, <2>3 DEF StopInv, FreeVlanId
  <2>5. \A e \in Doomed' : niStatus[e] # "none"
    BY <1>i, <2>2 DEF OwnerInv
  <2>6. OwnerInv'
    BY <1>i, <1>19, <2>3, <2>5, OwnerFrame DEF FreeVlanId
  <2>7. ClockInv'
    BY <1>i, <1>19, <2>2, <2>3, ClockFrame DEF FreeVlanId
  <2> QED
    BY <2>4, <2>6, <2>7
<1>20. ASSUME ReconcileList PROVE Goal
  <2>1. StopInv'
    BY <1>t, <1>i, <1>20 DEF StopInv, CreateJobInv, OwnedBy, HeldFor, TypeOK, ReconcileList
  <2>2. OwnerInv' /\ ClockInv'
    BY <1>i, <1>20, QuietFrame DEF ReconcileList
  <2> QED
    BY <2>1, <2>2
<1>21. ASSUME Reconcile PROVE Goal
  <2> DEFINE S == UNION {uidToBranchENIMap[p] : p \in Pod \ podList}
  <2>1. S \in SUBSET ENI /\ pushToCoolDown(S)
    BY <1>t, <1>21 DEF TypeOK, Reconcile
  <2>2. \A e \in S : \E q \in Pod \ podList : e \in uidToBranchENIMap[q]
    OBVIOUS
  <2> HIDE DEF S
  <2>3. Queued' = S \cup Queued
    BY <1>t, <2>1, PushToCoolDownFacts DEF TypeOK, Queued
  <2>4. Doomed' = Doomed \cup S
    BY <1>21, <2>3 DEF Reconcile, Doomed, InHand
  <2>5. \A q \in Pod : OwnedBy(q)' \subseteq OwnedBy(q) /\ Announced(q)' = Announced(q)
    BY <1>21 DEF Reconcile, OwnedBy, HeldFor, Announced
  <2>6. StopInv'
    BY <1>t, <1>i, <1>21, <2>5 DEF StopInv, TypeOK, Reconcile
  <2>7. \A e \in Doomed' : niStatus[e] # "none"
    BY <1>i, <2>2, <2>4 DEF OwnerInv, OwnedBy, HeldFor
  <2>8. OwnerInv'
    BY <1>i, <1>21, <2>5, <2>7, OwnerFrame DEF Reconcile
  <2>9. ClockInv'
    <3> SUFFICES ASSUME NEW p \in Pod, NEW e \in Announced(p)
                 PROVE  /\ e \in Doomed' => deletionTimeStamp'[e] # NoTime /\ deletionTimeStamp'[e] <= stoppedFor[p]
                        /\ niStatus[e] = "gone" => stoppedFor[p] > CoolDownPeriod
      BY <1>21, <2>5 DEF ClockInv, Reconcile
    <3>1. e \in ENI /\ e \in OwnedBy(p)
      BY <1>t DEF TypeOK, Announced, OwnedBy, HeldFor
    <3>2. CASE e \in S
      <4>1. PICK q \in Pod \ podList : e \in uidToBranchENIMap[q]
        BY <2>2, <3>2
      <4>2. e \in OwnedBy(q)
        BY <4>1 DEF OwnedBy, HeldFor
      <4>3. q = p
        BY <1>i, <3>1, <4>2 DEF OwnerInv
      <4>4. podPhase[p] = "gone"
        BY <1>i, <1>21, <3>1, <4>1, <4>3 DEF StopInv, Reconcile
      <4>5. deletionTimeStamp'[e] = 0
        BY <2>1, <3>1, <3>2 DEF pushToCoolDown
      <4> QED
        BY <1>i, <1>n, <4>4, <4>5 DEF ClockInv, NoTime
    <3>3. CASE e \notin S
      <4>1. deletionTimeStamp'[e] = deletionTimeStamp[e]
        BY <2>1, <3>1, <3>3 DEF pushToCoolDown
      <4> QED
        BY <1>i, <2>4, <3>3, <4>1 DEF ClockInv
    <3> QED
      BY <3>2, <3>3
  <2> QED
    BY <2>6, <2>8, <2>9
<1>22. ASSUME InitResource PROVE Goal
  <2>1. StopInv'
    BY <1>t, <1>i, <1>22 DEF StopInv, OwnedBy, HeldFor, TypeOK, InitResource
  <2>2. OwnerInv' /\ ClockInv'
    BY <1>i, <1>22, QuietFrame DEF InitResource
  <2> QED
    BY <2>1, <2>2
<1>23. ASSUME InitTrunk PROVE Goal
  <2> DEFINE found == associatedBranchInterfaces
             owned(p) == IF p \in initPods THEN annotation[p] \cap found ELSE {}
             orphans == found \ UNION {owned(p) : p \in Pod}
  <2>1. /\ uidToBranchENIMap' = [p \in Pod |-> owned(p)]
        /\ deleteQueue' \in SetToSeqs(orphans)
        /\ deletionTimeStamp' = [e \in ENI |-> IF e \in orphans THEN 0 ELSE NoTime]
    BY <1>23 DEF InitTrunk
  <2>2. found \in SUBSET Live /\ orphans \in SUBSET ENI /\ orphans \subseteq found
    BY DEF associatedBranchInterfaces, Live
  <2>3. Queued' = orphans
    BY <2>1, <2>2, OrderingFacts DEF Queued
  <2>4. workerPc = "idle" /\ Doomed' = orphans
    BY <1>i, <1>23, <2>3 DEF InitTrunk, StopInv, Doomed, InHand
  <2>5. \A p \in Pod : owned(p) \subseteq annotation[p] /\ (p \in initPods => annotation[p] \cap orphans = {})
    OBVIOUS
  <2> HIDE DEF found, owned, orphans
  <2>6. \A p \in Pod : OwnedBy(p)' \subseteq OwnedBy(p) /\ Announced(p)' = Announced(p)
    BY <1>23, <2>1, <2>5 DEF InitTrunk, OwnedBy, HeldFor, Announced
  <2>7. StopInv'
    BY <1>i, <1>23, <2>6 DEF StopInv, InitTrunk
  <2>8. \A e \in Doomed' : niStatus[e] # "none"
    BY <2>2, <2>4 DEF Live
  <2>9. OwnerInv'
    BY <1>i, <1>23, <2>6, <2>8, OwnerFrame DEF InitTrunk
  <2>10. ClockInv'
    <3> SUFFICES ASSUME NEW p \in Pod, NEW e \in Announced(p)
                 PROVE  /\ e \in orphans => deletionTimeStamp'[e] # NoTime /\ deletionTimeStamp'[e] <= stoppedFor[p]
                        /\ niStatus[e] = "gone" => stoppedFor[p] > CoolDownPeriod
      BY <1>23, <2>4, <2>6 DEF ClockInv, InitTrunk
    <3>1. ASSUME e \in orphans PROVE deletionTimeStamp'[e] # NoTime /\ deletionTimeStamp'[e] <= stoppedFor[p]
      <4>1. newENIs[p] = {} /\ e \in annotation[p]
        BY <1>t, <1>23 DEF CreateJobInv, InitTrunk, Announced
      <4>2. p \notin initPods
        BY <2>5, <3>1, <4>1
      <4>3. stoppedFor[p] \in Nat
        BY <1>i, <1>n, <1>23, <4>1, <4>2 DEF StopInv, InitTrunk
      <4>4. deletionTimeStamp'[e] = 0
        BY <2>1, <2>2, <3>1
      <4> QED
        BY <4>3, <4>4 DEF NoTime
    <3> QED
      BY <1>i, <3>1 DEF ClockInv
  <2> QED
    BY <2>7, <2>9, <2>10
<1>24. ASSUME Crash PROVE Goal
  <2>1. Doomed' = {}
    BY <1>24, EmptyQueueFacts DEF Crash, workerDone, Doomed, Queued, InHand
  <2>2. \A p \in Pod : OwnedBy(p)' \subseteq OwnedBy(p) /\ Announced(p)' \subseteq Announced(p)
    BY <1>24 DEF Crash, OwnedBy, HeldFor, Announced
  <2>3. StopInv'
    BY <1>i, <1>24, <2>2 DEF StopInv, Crash, workerDone
  <2>4. OwnerInv'
    BY <1>i, <1>24, <2>1, <2>2, OwnerFrame DEF Crash
  <2>5. ClockInv'
    BY <1>i, <1>24, <2>1, <2>2 DEF ClockInv, Crash
  <2> QED
    BY <2>3, <2>4, <2>5
<1>25. ASSUME SubnetChange PROVE Goal
  <2>1. StopInv'
    BY <1>t, <1>i, <1>25 DEF StopInv, CreateJobInv, OwnedBy, HeldFor, TypeOK, SubnetChange
  <2>2. OwnerInv' /\ ClockInv'
    BY <1>i, <1>25, QuietFrame DEF SubnetChange
  <2> QED
    BY <2>1, <2>2
<1>26. ASSUME Tick PROVE Goal
  <2>1. Doomed' = Doomed /\ \A p \in Pod : Announced(p)' = Announced(p) /\ OwnedBy(p)' = OwnedBy(p)
    BY <1>26, DoomedFrame DEF Tick, Announced, OwnedBy, HeldFor
  <2>2. \A a \in Age : a # NoTime => older(a) # NoTime
    BY TrunkAssumption DEF Age, older, NoTime
  <2>3. \A p \in Pod : stoppedFor[p] # NoTime => stoppedFor'[p] # NoTime
    BY <1>t, <1>26, <2>2 DEF Tick, TypeOK
  <2>4. StopInv'
    BY <1>i, <1>26, <2>1, <2>3 DEF StopInv, Tick
  <2>5. OwnerInv'
    BY <1>i, <1>26, <2>1 DEF OwnerInv, Tick
  <2>6. ClockInv'
    <3> SUFFICES ASSUME NEW p \in Pod, NEW e \in Announced(p)
                 PROVE  /\ e \in Doomed => deletionTimeStamp'[e] # NoTime /\ deletionTimeStamp'[e] <= stoppedFor'[p]
                        /\ niStatus[e] = "gone" => stoppedFor'[p] > CoolDownPeriod
      BY <1>26, <2>1 DEF ClockInv, Tick
    <3>1. e \in ENI
      BY <1>t DEF TypeOK, Announced
    <3>2. /\ deletionTimeStamp'[e] = older(deletionTimeStamp[e]) /\ stoppedFor'[p] = older(stoppedFor[p])
          /\ deletionTimeStamp[e] \in Age /\ stoppedFor[p] \in Age
      BY <1>t, <1>26, <3>1 DEF Tick, TypeOK
    <3>3. \A a, b \in Age : a # NoTime /\ a <= b => older(a) # NoTime /\ older(a) <= older(b)
      BY TrunkAssumption DEF Age, older, NoTime
    <3>4. \A b \in Age : b > CoolDownPeriod => older(b) > CoolDownPeriod
      BY DEF older
    <3> QED
      BY <1>i, <3>2, <3>3, <3>4 DEF ClockInv
  <2> QED
    BY <2>4, <2>5, <2>6
<1>27. ASSUME UNCHANGED vars PROVE Goal
  <2>1. StopInv'
    BY <1>t, <1>i, <1>27 DEF StopInv, OwnedBy, HeldFor, vars
  <2>2. OwnerInv' /\ ClockInv'
    BY <1>i, <1>27, QuietFrame DEF vars
  <2> QED
    BY <2>1, <2>2
<1>28. ASSUME NEW p \in Pod, PodUpdated(p) PROVE Goal
  <2>1. StopInv'
    BY <1>t, <1>i, <1>28 DEF StopInv, CreateJobInv, OwnedBy, HeldFor, TypeOK, PodUpdated
  <2>2. OwnerInv' /\ ClockInv'
    BY <1>i, <1>28, QuietFrame DEF PodUpdated
  <2> QED
    BY <2>1, <2>2
<1>29. Goal
  BY <1>1, <1>2, <1>3, <1>4, <1>5, <1>6, <1>7, <1>8, <1>9, <1>10, <1>11, <1>12, <1>13, <1>14, <1>15, <1>16,
     <1>17, <1>18, <1>19, <1>20, <1>21, <1>22, <1>23, <1>24, <1>25, <1>26, <1>27, <1>28
  DEF Next, CreateStep, DeleteQueueStep
<1> QED
  BY <1>a, <1>29 DEF CoolDownInv

\* An interface that a pod's annotation announces outlives the pod by more than
\* the cool-down period, whether the pod stops while its create job runs, EC2's
\* answers are lost, the subnet moves or the controller restarts and stamps
\* afresh what it finds.
THEOREM AnnouncedOutlivesPod == ASSUME CoolDownContract PROVE Spec => []NoEarlyDeletion
<1>1. Init => CoolDownInv
  BY InitCoolDown
<1>2. CoolDownInv /\ [Next]_vars => CoolDownInv'
  BY NextCoolDown
<1>3. CoolDownInv => NoEarlyDeletion
  BY DEF CoolDownInv, ClockInv, NoEarlyDeletion, Announced
<1> QED
  BY <1>1, <1>2, <1>3, PTL DEF Spec
=============================================================================
