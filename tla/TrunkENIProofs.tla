--------------------------- MODULE TrunkENIProofs ---------------------------
(***************************************************************************)
(* Theorems about TrunkENI, for any number of pods, interfaces, VLAN ids,  *)
(* retries and restarts.                                                   *)
(***************************************************************************)
EXTENDS TrunkENI, SequenceTheorems, FiniteSetTheorems, TLAPS

-----------------------------------------------------------------------------
(***************************************************************************)
(* The delete queue as a sequence.                                         *)
(***************************************************************************)

\* An ordering of a set of interfaces lists each of them exactly once.
LEMMA OrderingFacts ==
  ASSUME NEW S \in SUBSET ENI, NEW s \in SetToSeqs(S)
  PROVE  s \in Seq(ENI) /\ Range(s) = S /\ IsInjective(s)
<1>1. IsFiniteSet(S)
  BY FS_Subset, TrunkAssumption
<1> DEFINE n == Cardinality(S)
<1>2. n \in Nat
  BY <1>1, FS_CardinalityType
<1>3. s \in [1..n -> S] /\ IsInjective(s)
  BY DEF SetToSeqs, IsInjective
<1>4. s \in Injection(1..n, S)
  BY <1>3 DEF Injection
<1>5. Cardinality(1..n) = n
  BY <1>2, FS_Interval
<1>6. s \in Surjection(1..n, S)
  BY <1>1, <1>4, <1>5, FS_Injection
<1>7. Range(s) = S
  BY <1>6 DEF Surjection, Range
<1>8. s \in Seq(ENI)
  BY <1>2, <1>3, SeqDef
<1> QED
  BY <1>3, <1>7, <1>8

\* Concatenating two duplicate-free sequences without common elements.
LEMMA ConcatFacts ==
  ASSUME NEW s \in Seq(ENI), NEW t \in Seq(ENI)
  PROVE  /\ s \o t \in Seq(ENI)
         /\ Range(s \o t) = Range(s) \cup Range(t)
         /\ IsInjective(s) /\ IsInjective(t) /\ Range(s) \cap Range(t) = {} => IsInjective(s \o t)
<1>1. s \o t \in Seq(ENI) /\ Range(s \o t) = Range(s) \cup Range(t)
  BY ConcatProperties, RangeConcatenation
<1>2. ASSUME IsInjective(s), IsInjective(t), Range(s) \cap Range(t) = {}
      PROVE  IsInjective(s \o t)
  <2> DEFINE u == s \o t
  <2>1. /\ Len(s) \in Nat /\ Len(t) \in Nat
        /\ DOMAIN s = 1..Len(s) /\ DOMAIN t = 1..Len(t) /\ DOMAIN u = 1..(Len(s) + Len(t))
        /\ \A i \in 1..(Len(s) + Len(t)) : u[i] = IF i <= Len(s) THEN s[i] ELSE t[i - Len(s)]
    BY ConcatProperties, LenProperties
  <2> SUFFICES ASSUME NEW a \in DOMAIN u, NEW b \in DOMAIN u, u[a] = u[b]
               PROVE  a = b
    BY DEF IsInjective
  <2> HIDE DEF u
  <2>2. \A i \in DOMAIN s : s[i] \in Range(s)
    BY DEF Range
  <2>3. \A i \in DOMAIN t : t[i] \in Range(t)
    BY DEF Range
  <2>4. CASE a <= Len(s) /\ b <= Len(s)
    BY <1>2, <2>1, <2>4 DEF IsInjective
  <2>5. CASE a <= Len(s) /\ ~(b <= Len(s))
    <3>1. u[a] \in Range(s)
      BY <2>1, <2>2, <2>5
    <3>2. b - Len(s) \in DOMAIN t /\ u[b] = t[b - Len(s)]
      BY <2>1, <2>5
    <3> QED
      BY <1>2, <2>3, <3>1, <3>2
  <2>6. CASE ~(a <= Len(s)) /\ b <= Len(s)
    <3>1. u[b] \in Range(s)
      BY <2>1, <2>2, <2>6
    <3>2. a - Len(s) \in DOMAIN t /\ u[a] = t[a - Len(s)]
      BY <2>1, <2>6
    <3> QED
      BY <1>2, <2>3, <3>1, <3>2
  <2>7. CASE ~(a <= Len(s)) /\ ~(b <= Len(s))
    <3>1. a - Len(s) \in DOMAIN t /\ b - Len(s) \in DOMAIN t /\ t[a - Len(s)] = t[b - Len(s)]
      BY <2>1, <2>7
    <3>2. a - Len(s) = b - Len(s)
      BY <1>2, <3>1 DEF IsInjective
    <3> QED
      BY <2>1, <3>2
  <2> QED
    BY <2>4, <2>5, <2>6, <2>7
<1> QED
  BY <1>1, <1>2

\* Popping the head.
LEMMA PopFacts ==
  ASSUME NEW s \in Seq(ENI), s # <<>>
  PROVE  /\ Head(s) \in ENI /\ Tail(s) \in Seq(ENI)
         /\ Range(s) = {Head(s)} \cup Range(Tail(s))
         /\ IsInjective(s) => IsInjective(Tail(s)) /\ Head(s) \notin Range(Tail(s))
<1>1. /\ Len(s) \in Nat \ {0} /\ DOMAIN s = 1..Len(s)
      /\ Head(s) = s[1] /\ Head(s) \in ENI
      /\ Tail(s) \in Seq(ENI) /\ DOMAIN Tail(s) = 1..(Len(s) - 1)
      /\ \A i \in 1..(Len(s) - 1) : Tail(s)[i] = s[i + 1]
  BY EmptySeq, LenProperties, HeadTailProperties
<1>2. Range(s) = {Head(s)} \cup Range(Tail(s))
  <2>1. ASSUME NEW i \in DOMAIN s
        PROVE  s[i] \in {Head(s)} \cup Range(Tail(s))
    <3>1. CASE i = 1
      BY <1>1, <3>1
    <3>2. CASE i # 1
      <4>1. i - 1 \in DOMAIN Tail(s) /\ Tail(s)[i - 1] = s[i]
        BY <1>1, <3>2
      <4> QED
        BY <4>1 DEF Range
    <3> QED
      BY <3>1, <3>2
  <2>2. ASSUME NEW i \in DOMAIN Tail(s)
        PROVE  Tail(s)[i] \in Range(s)
    <3>1. i + 1 \in DOMAIN s /\ s[i + 1] = Tail(s)[i]
      BY <1>1
    <3> QED
      BY <3>1 DEF Range
  <2>3. Head(s) \in Range(s)
    BY <1>1 DEF Range
  <2> QED
    BY <2>1, <2>2, <2>3 DEF Range
<1>3. ASSUME IsInjective(s)
      PROVE  IsInjective(Tail(s)) /\ Head(s) \notin Range(Tail(s))
  <2>1. ASSUME NEW a \in DOMAIN Tail(s), NEW b \in DOMAIN Tail(s), Tail(s)[a] = Tail(s)[b]
        PROVE  a = b
    <3>1. a + 1 \in DOMAIN s /\ b + 1 \in DOMAIN s /\ s[a + 1] = s[b + 1]
      BY <1>1, <2>1
    <3>2. a + 1 = b + 1
      BY <1>3, <3>1 DEF IsInjective
    <3> QED
      BY <1>1, <3>2
  <2>2. ASSUME NEW a \in DOMAIN Tail(s), Tail(s)[a] = Head(s)
        PROVE  FALSE
    <3>1. a + 1 \in DOMAIN s /\ 1 \in DOMAIN s /\ s[a + 1] = s[1]
      BY <1>1, <2>2
    <3>2. a + 1 = 1
      BY <1>3, <3>1 DEF IsInjective
    <3> QED
      BY <1>1, <3>2
  <2> QED
    BY <2>1, <2>2 DEF IsInjective, Range
<1> QED
  BY <1>1, <1>2, <1>3

\* What the two ways of queueing interfaces do to the queue.
LEMMA PushToFrontFacts ==
  ASSUME deleteQueue \in Seq(ENI), NEW S \in SUBSET ENI, pushToFront(S)
  PROVE  /\ deleteQueue' \in Seq(ENI)
         /\ Range(deleteQueue') = S \cup Range(deleteQueue)
         /\ IsInjective(deleteQueue) /\ S \cap Range(deleteQueue) = {} => IsInjective(deleteQueue')
<1>1. PICK s \in SetToSeqs(S) : deleteQueue' = s \o deleteQueue
  BY DEF pushToFront
<1>2. s \in Seq(ENI) /\ Range(s) = S /\ IsInjective(s)
  BY OrderingFacts
<1> QED
  BY <1>1, <1>2, ConcatFacts

\* The same of appending, which also stamps the interfaces.
LEMMA PushToCoolDownFacts ==
  ASSUME deleteQueue \in Seq(ENI), NEW S \in SUBSET ENI, pushToCoolDown(S)
  PROVE  /\ deleteQueue' \in Seq(ENI)
         /\ Range(deleteQueue') = S \cup Range(deleteQueue)
         /\ IsInjective(deleteQueue) /\ S \cap Range(deleteQueue) = {} => IsInjective(deleteQueue')
<1>1. PICK s \in SetToSeqs(S) : deleteQueue' = deleteQueue \o s
  BY DEF pushToCoolDown
<1>2. s \in Seq(ENI) /\ Range(s) = S /\ IsInjective(s)
  BY OrderingFacts
<1> QED
  BY <1>1, <1>2, ConcatFacts

\* The empty queue.
LEMMA EmptyQueueFacts == <<>> \in Seq(ENI) /\ Range(<<>>) = {} /\ IsInjective(<<>>)
<1>1. <<>> \in Seq(ENI) /\ Len(<<>>) = 0
  BY EmptySeq
<1>2. DOMAIN <<>> = {}
  BY <1>1, LenProperties
<1> QED
  BY <1>1, <1>2 DEF Range, IsInjective

-----------------------------------------------------------------------------
(***************************************************************************)
(* Type correctness.                                                       *)
(***************************************************************************)
\* NewTrunkENI leaves a typed state.
LEMMA InitType == Init => TypeOK
<1> SUFFICES ASSUME Init PROVE TypeOK
  OBVIOUS
<1>1. 0 \in Vlan
  BY TrunkAssumption DEF Vlan
<1>2. NoTime \in Age /\ 0 \in 0 .. MaxCrashes
  BY TrunkAssumption DEF Age, NoTime
<1> QED
  BY <1>1, <1>2, EmptyQueueFacts DEF Init, TypeOK, CreatePc

\* A typed state has typed successors, whatever the environment does.
LEMMA NextType == TypeOK /\ [Next]_vars => TypeOK'
<1> SUFFICES ASSUME TypeOK, [Next]_vars PROVE TypeOK'
  OBVIOUS
<1> USE DEF CreatePc
<1>0. /\ 0 \in Vlan /\ NoTime \in Age /\ 0 \in Age
      /\ \A a \in Age : older(a) \in Age
  BY TrunkAssumption DEF Vlan, Age, NoTime, older
<1>1. ASSUME NEW p \in Pod, PodScheduled(p) PROVE TypeOK'
  BY <1>1 DEF TypeOK, PodScheduled, trunkVars, workerVars, listVars, ec2Vars
<1>2. ASSUME NEW p \in Pod, NEW phase \in {"completed", "gone"}, PodStops(p, phase) PROVE TypeOK'
  BY <1>0, <1>2 DEF TypeOK, PodStops, trunkVars, createVars, workerVars, listVars, ec2Vars
<1>3. ASSUME NEW p \in Pod, CreateFetch(p) PROVE TypeOK'
  BY <1>3 DEF TypeOK, CreateFetch, trunkVars, workerVars, listVars, podVars, ec2Vars
<1>4. ASSUME NEW p \in Pod, CreateAdmit(p) PROVE TypeOK'
  BY <1>4 DEF TypeOK, CreateAdmit, jobFails, trunkVars, workerVars, listVars, podVars, ec2Vars
<1>5. ASSUME NEW p \in Pod, AssignVlanId(p) PROVE TypeOK'
  <2>1. usedVlanIds' \in SUBSET Vlan /\ vlanID' \in [Pod -> Vlan] /\ jobPc' \in [Pod -> CreatePc]
    <3>1. CASE jobPc' = [jobPc EXCEPT ![p] = "failed"] /\ UNCHANGED <<usedVlanIds, vlanID>>
      BY <3>1 DEF TypeOK
    <3>2. ASSUME NEW v \in FreeVlans, usedVlanIds' = usedVlanIds \cup {v},
                 vlanID' = [vlanID EXCEPT ![p] = v], jobPc' = [jobPc EXCEPT ![p] = "create"]
          PROVE  usedVlanIds' \in SUBSET Vlan /\ vlanID' \in [Pod -> Vlan] /\ jobPc' \in [Pod -> CreatePc]
      BY <3>2 DEF TypeOK, FreeVlans
    <3> QED
      BY <1>5, <3>1, <3>2 DEF AssignVlanId
  <2> QED
    BY <1>5, <2>1 DEF TypeOK, AssignVlanId, workerVars, listVars, podVars, ec2Vars
<1>6. ASSUME NEW p \in Pod, CreateNetworkInterface(p) PROVE TypeOK'
  BY <1>0, <1>6 DEF TypeOK, CreateNetworkInterface, ec2Creates, trunkVars, workerVars, listVars, podVars
<1>7. ASSUME NEW p \in Pod, CreateNetworkInterfaceFails(p) PROVE TypeOK'
  <2>1. /\ niStatus' \in [ENI -> {"none", "live", "gone"}] /\ niVlan' \in [ENI -> Vlan]
        /\ niSubnet' \in [ENI -> Subnet] /\ leaked' \in SUBSET ENI
    <3>1. CASE UNCHANGED <<niStatus, niVlan, niSubnet, leaked>>
      BY <3>1 DEF TypeOK
    <3>2. CASE \E e \in ENI : ec2Creates(e, vlanID[p]) /\ leaked' = leaked \cup {e}
      BY <3>2 DEF TypeOK, ec2Creates
    <3> QED
      BY <1>7, <3>1, <3>2 DEF CreateNetworkInterfaceFails
  <2>2. /\ usedVlanIds' \in SUBSET Vlan /\ vlanID' \in [Pod -> Vlan]
        /\ jobPc' \in [Pod -> CreatePc]
    BY <1>0, <1>7 DEF TypeOK, CreateNetworkInterfaceFails, freeVlanId
  <2> QED
    BY <1>7, <2>1, <2>2 DEF TypeOK, CreateNetworkInterfaceFails, workerVars, listVars, podVars
<1>8. ASSUME NEW p \in Pod, AssociateBranchToTrunk(p) PROVE TypeOK'
  BY <1>8 DEF TypeOK, AssociateBranchToTrunk, trunkVars, workerVars, listVars, podVars, ec2Vars
<1>9. ASSUME NEW p \in Pod, CreateFails(p) PROVE TypeOK'
  <2>1. deleteQueue' \in Seq(ENI)
    BY <1>9, PushToFrontFacts DEF TypeOK, CreateFails
  <2> QED
    BY <1>9, <2>1 DEF TypeOK, CreateFails, jobFails, workerVars, listVars, podVars, ec2Vars
<1>10. ASSUME NEW p \in Pod, AddBranchToCache(p) PROVE TypeOK'
  BY <1>10 DEF TypeOK, AddBranchToCache, workerVars, listVars, podVars, ec2Vars
<1>11. ASSUME NEW p \in Pod, AnnotatePod(p) PROVE TypeOK'
  BY <1>11 DEF TypeOK, AnnotatePod, trunkVars, workerVars, listVars, ec2Vars
<1>12. ASSUME NEW p \in Pod, AnnotatePodErrs(p) PROVE TypeOK'
  BY <1>12 DEF TypeOK, AnnotatePodErrs, trunkVars, workerVars, listVars, ec2Vars
<1>13. ASSUME NEW p \in Pod, AnnotateFails(p) PROVE TypeOK'
  <2>1. deleteQueue' \in Seq(ENI)
    BY <1>13, PushToFrontFacts DEF TypeOK, AnnotateFails
  <2> QED
    BY <1>13, <2>1 DEF TypeOK, AnnotateFails, jobFails, workerVars, listVars, podVars, ec2Vars
<1>14. ASSUME NEW p \in Pod, DeleteBranchUsedByPods(p) PROVE TypeOK'
  <2>1. CASE trunk = "up"
    <3>1. pushToCoolDown(uidToBranchENIMap[p])
      BY <1>14, <2>1 DEF DeleteBranchUsedByPods
    <3>2. deleteQueue' \in Seq(ENI)
      BY <3>1, PushToCoolDownFacts DEF TypeOK
    <3>3. deletionTimeStamp' \in [ENI -> Age]
      BY <1>0, <3>1 DEF TypeOK, pushToCoolDown
    <3> QED
      BY <1>14, <2>1, <3>2, <3>3
      DEF TypeOK, DeleteBranchUsedByPods, createVars, workerVars, listVars, podVars, ec2Vars
  <2>2. CASE trunk # "up"
    BY <1>14, <2>2 DEF TypeOK, DeleteBranchUsedByPods, createVars, workerVars, listVars, podVars, ec2Vars
  <2> QED
    BY <2>1, <2>2
<1>15. ASSUME PopENIFromDeleteQueue PROVE TypeOK'
  <2>1. Head(deleteQueue) \in ENI /\ Tail(deleteQueue) \in Seq(ENI)
    BY <1>15, PopFacts DEF TypeOK, PopENIFromDeleteQueue
  <2> QED
    BY <1>15, <2>1 DEF TypeOK, PopENIFromDeleteQueue, createVars, listVars, podVars, ec2Vars
<1>16. ASSUME StillCoolingDown PROVE TypeOK'
  <2>1. deleteQueue' \in Seq(ENI)
    BY <1>16, PushToFrontFacts DEF TypeOK, StillCoolingDown
  <2> QED
    BY <1>16, <2>1 DEF TypeOK, StillCoolingDown, workerDone, createVars, listVars, podVars, ec2Vars
<1>17. ASSUME DeleteNetworkInterface PROVE TypeOK'
  BY <1>17 DEF TypeOK, DeleteNetworkInterface, trunkVars, createVars, listVars, podVars
<1>18. ASSUME DeleteNetworkInterfaceFails PROVE TypeOK'
  <2>1. workerENI \in ENI
    BY <1>18 DEF TypeOK, DeleteNetworkInterfaceFails
  <2>2. niStatus' \in [ENI -> {"none", "live", "gone"}] /\ deleteRetryCount' \in [ENI -> Nat]
    <3>1. deleteRetryCount' = [deleteRetryCount EXCEPT ![workerENI] = deleteRetryCount[workerENI] + 1]
      BY <1>18 DEF DeleteNetworkInterfaceFails
    <3>2. niStatus' = niStatus \/ niStatus' = [niStatus EXCEPT ![workerENI] = "gone"]
      BY <1>18 DEF DeleteNetworkInterfaceFails
    <3>3. deleteRetryCount' \in [ENI -> Nat]
      BY <2>1, <3>1 DEF TypeOK
    <3>4. niStatus' \in [ENI -> {"none", "live", "gone"}]
      BY <2>1, <3>2 DEF TypeOK
    <3> QED
      BY <3>3, <3>4
  <2>3. deleteQueue' \in Seq(ENI) /\ leaked' \in SUBSET ENI
    <3>1. CASE pushToFront({workerENI}) /\ UNCHANGED leaked
      BY <2>1, <3>1, PushToFrontFacts DEF TypeOK
    <3>2. CASE /\ leaked' = (leaked \cup {workerENI}) \cap {e \in ENI : niStatus'[e] = "live"}
               /\ UNCHANGED deleteQueue
      BY <3>2 DEF TypeOK
    <3> QED
      BY <1>18, <3>1, <3>2 DEF DeleteNetworkInterfaceFails
  <2> QED
    BY <1>18, <2>2, <2>3
    DEF TypeOK, DeleteNetworkInterfaceFails, workerDone, createVars, listVars, podVars
<1>19. ASSUME FreeVlanId PROVE TypeOK'
  BY <1>19 DEF TypeOK, FreeVlanId, freeVlanId, workerDone, createVars, listVars, podVars, ec2Vars
<1>20. ASSUME ReconcileList PROVE TypeOK'
  BY <1>20 DEF TypeOK, ReconcileList, trunkVars, createVars, workerVars, podVars, ec2Vars
<1>21. ASSUME Reconcile PROVE TypeOK'
  <2> DEFINE S == UNION {uidToBranchENIMap[p] : p \in Pod \ podList}
  <2>1. S \in SUBSET ENI /\ pushToCoolDown(S)
    BY <1>21 DEF TypeOK, Reconcile
  <2> HIDE DEF S
  <2>2. deleteQueue' \in Seq(ENI)
    BY <2>1, PushToCoolDownFacts DEF TypeOK
  <2>3. deletionTimeStamp' \in [ENI -> Age]
    BY <1>0, <2>1 DEF TypeOK, pushToCoolDown
  <2> QED
    BY <1>21, <2>2, <2>3 DEF TypeOK, Reconcile, createVars, workerVars, podVars, ec2Vars
<1>22. ASSUME InitResource PROVE TypeOK'
  BY <1>22 DEF TypeOK, InitResource, createVars, workerVars, listVars, podVars, ec2Vars
<1>23. ASSUME InitTrunk PROVE TypeOK'
  <2> DEFINE found == associatedBranchInterfaces
             owned(p) == IF p \in initPods THEN annotation[p] \cap found ELSE {}
             orphans == found \ UNION {owned(p) : p \in Pod}
  <2>1. found \in SUBSET ENI /\ orphans \in SUBSET ENI /\ Live \in SUBSET ENI
    BY DEF associatedBranchInterfaces, Live
  <2>2. \A p \in Pod : owned(p) \in SUBSET ENI
    BY <2>1
  <2>3. /\ uidToBranchENIMap' = [p \in Pod |-> owned(p)]
        /\ usedVlanIds' = markedVlans(found)
        /\ deleteQueue' \in SetToSeqs(orphans)
        /\ deletionTimeStamp' = [e \in ENI |-> IF e \in orphans THEN 0 ELSE NoTime]
        /\ leaked' = Live \ found
    BY <1>23 DEF InitTrunk
  <2>4. markedVlans(found) \in SUBSET Vlan
    BY <1>0, <2>1 DEF TypeOK, markedVlans
  <2> HIDE DEF found, owned, orphans
  <2>5. deleteQueue' \in Seq(ENI)
    BY <2>1, <2>3, OrderingFacts
  <2>6. /\ uidToBranchENIMap' \in [Pod -> SUBSET ENI]
        /\ usedVlanIds' \in SUBSET Vlan
        /\ deletionTimeStamp' \in [ENI -> Age]
        /\ leaked' \in SUBSET ENI
    BY <1>0, <2>1, <2>2, <2>3, <2>4
  <2> QED
    BY <1>23, <2>5, <2>6 DEF TypeOK, InitTrunk, createVars, workerVars, listVars, podVars, ec2Vars
<1>24. ASSUME Crash PROVE TypeOK'
  <2>1. crashes' \in 0 .. MaxCrashes
    BY <1>24, TrunkAssumption DEF TypeOK, Crash
  <2> QED
    BY <1>0, <1>24, <2>1, EmptyQueueFacts DEF TypeOK, Crash, workerDone, podVars, ec2Vars
<1>25. ASSUME SubnetChange PROVE TypeOK'
  BY <1>25 DEF TypeOK, SubnetChange, trunkVars, createVars, workerVars, listVars, podVars
<1>26. ASSUME Tick PROVE TypeOK'
  BY <1>0, <1>26 DEF TypeOK, Tick, createVars, workerVars, listVars, ec2Vars
<1>27. CASE UNCHANGED vars
  BY <1>27 DEF TypeOK, vars, trunkVars, createVars, workerVars, listVars, podVars, ec2Vars
<1>28. ASSUME NEW p \in Pod, PodUpdated(p) PROVE TypeOK'
  BY <1>28 DEF TypeOK, PodUpdated, trunkVars, workerVars, listVars, podVars, ec2Vars
<1> QED
  BY <1>1, <1>2, <1>3, <1>4, <1>5, <1>6, <1>7, <1>8, <1>9, <1>10, <1>11, <1>12, <1>13, <1>14, <1>15, <1>16,
     <1>17, <1>18, <1>19, <1>20, <1>21, <1>22, <1>23, <1>24, <1>25, <1>26, <1>27, <1>28
  DEF Next, CreateStep, DeleteQueueStep

\* The controller's memory, the API server's and EC2's records keep their types
\* through every interleaving of jobs, failures and restarts.
THEOREM TypeCorrect == Spec => []TypeOK
  BY InitType, NextType, PTL DEF Spec

-----------------------------------------------------------------------------
(***************************************************************************)
(* VLAN exclusivity, when pods stop only with no create job of theirs      *)
(* queued or running, no pod arrives within a reconciliation, created      *)
(* interfaces are always reported and the subnet stays.  The inductive     *)
(* invariant says that each interface is in one place at a time: this is   *)
(* what keeps a VLAN id from being freed twice.                            *)
(***************************************************************************)
Contract == Faults \subseteq {"LostAnnotate"}

HeldFor(p) == newENIs[p] \cup uidToBranchENIMap[p]
Queued == Range(deleteQueue)
InHand == IF workerPc = "idle" THEN {} ELSE {workerENI}
Holding == Live \cup Queued \cup InHand

JobInv ==
  \A p \in Pod :
    /\ podPhase[p] # "running" => jobPc[p] = "none"
    /\ p \in deletedJobs => podPhase[p] \in {"completed", "gone"}
    /\ listPc = "listed" /\ p \notin podList => podPhase[p] \in {"absent", "gone"}
    /\ jobPc[p] \in {"none", "queued", "fetched"} => newENIs[p] = {}
    /\ jobPc[p] \in {"assign", "create", "associate", "cache", "failed"} => uidToBranchENIMap[p] = {}
    /\ jobPc[p] \in {"annotate", "annotateFailed"} => newENIs[p] = uidToBranchENIMap[p]

DownInv ==
  trunk # "up" =>
    /\ deleteQueue = <<>> /\ workerPc = "idle" /\ listPc = "idle"
    /\ \A p \in Pod : HeldFor(p) = {} /\ jobPc[p] \in {"none", "queued"}

PlaceInv ==
  /\ IsInjective(deleteQueue)
  /\ InHand \cap Queued = {}
  /\ \A p \in Pod : HeldFor(p) \subseteq Live /\ HeldFor(p) \cap (Queued \cup InHand) = {}
  /\ \A p, q \in Pod : p # q => HeldFor(p) \cap HeldFor(q) = {}
  /\ \A e \in Queued \cup InHand : niStatus[e] # "none"
  /\ workerPc = "deleted" => niStatus[workerENI] = "gone"

AnnotationInv ==
  \A p \in Pod :
    /\ \A e \in annotation[p] : niStatus[e] # "none"
    /\ \A q \in Pod : p # q => annotation[p] \cap (annotation[q] \cup newENIs[q]) = {}

VlanInv ==
  /\ \A e, f \in Holding : niVlan[e] = niVlan[f] => e = f
  /\ trunk = "up" => \A e \in Holding : niVlan[e] \in usedVlanIds
  /\ \A p \in Pod : jobPc[p] = "create" =>
       /\ vlanID[p] \in usedVlanIds
       /\ \A e \in Holding : niVlan[e] # vlanID[p]
       /\ \A q \in Pod : jobPc[q] = "create" /\ vlanID[q] = vlanID[p] => q = p
  /\ \A e \in Live : niSubnet[e] = subnet

ExclusiveInv == TypeOK /\ JobInv /\ DownInv /\ PlaceInv /\ AnnotationInv /\ VlanInv

\* What VlanInv depends on, for the actions that touch none of it.
LEMMA Frames ==
  /\ UNCHANGED deleteQueue => Queued' = Queued /\ IsInjective(deleteQueue') = IsInjective(deleteQueue)
  /\ UNCHANGED workerVars => InHand' = InHand
  /\ UNCHANGED niStatus => Live' = Live
  BY DEF Queued, InHand, Live, workerVars

\* An action that moves no interface keeps each of them in one place.
LEMMA PlaceFrame ==
  PlaceInv /\ UNCHANGED <<deleteQueue, workerVars, newENIs, uidToBranchENIMap, niStatus>> => PlaceInv'
  BY Frames DEF PlaceInv, HeldFor, workerVars

\* An action of nobody's annotation or create job keeps AnnotationInv.
LEMMA AnnotationFrame ==
  AnnotationInv /\ UNCHANGED <<annotation, newENIs, niStatus>> => AnnotationInv'
  BY DEF AnnotationInv

\* An action that changes neither VLAN ids nor places keeps VlanInv.
LEMMA VlanFrame ==
  ASSUME VlanInv, Live' \subseteq Live, Queued' \cup InHand' \subseteq Holding,
         trunk' = trunk, UNCHANGED <<niVlan, niSubnet, subnet, usedVlanIds, vlanID>>,
         \A p \in Pod : jobPc'[p] = "create" => jobPc[p] = "create"
  PROVE  VlanInv'
<1>1. Holding' \subseteq Holding
  BY DEF Holding
<1> QED
  BY <1>1 DEF VlanInv

\* At the start no interface exists, so the invariant holds vacuously.
LEMMA InitExclusive == Init => ExclusiveInv
<1> SUFFICES ASSUME Init PROVE ExclusiveInv
  OBVIOUS
<1>1. TypeOK
  BY InitType
<1>2. Queued = {} /\ InHand = {} /\ Live = {} /\ IsInjective(deleteQueue)
  BY EmptyQueueFacts DEF Init, Queued, InHand, Live
<1>3. JobInv /\ DownInv
  BY DEF Init, JobInv, DownInv, HeldFor
<1>4. PlaceInv /\ AnnotationInv /\ VlanInv
  BY <1>2 DEF Init, PlaceInv, AnnotationInv, VlanInv, HeldFor, Holding
<1> QED
  BY <1>1, <1>3, <1>4 DEF ExclusiveInv

\* Each interface stays in one place, and each VLAN id with one interface or job.
LEMMA NextExclusive == Contract /\ ExclusiveInv /\ [Next]_vars => ExclusiveInv'
<1> SUFFICES ASSUME Contract, ExclusiveInv, [Next]_vars PROVE ExclusiveInv'
  OBVIOUS
<1>t. TypeOK /\ TypeOK'
  BY NextType DEF ExclusiveInv
<1>i. JobInv /\ DownInv /\ PlaceInv /\ AnnotationInv /\ VlanInv
  BY DEF ExclusiveInv
<1>c. /\ "StopDuringCreate" \notin Faults /\ "ArriveDuringList" \notin Faults
      /\ "LostCreate" \notin Faults /\ "SubnetChange" \notin Faults
  BY DEF Contract
<1> DEFINE Goal == JobInv' /\ DownInv' /\ PlaceInv' /\ AnnotationInv' /\ VlanInv'
<1> USE DEF HeldFor, trunkVars, createVars, workerVars, listVars, podVars, ec2Vars
<1>1. ASSUME NEW p \in Pod, PodScheduled(p) PROVE Goal
  <2>1. JobInv' /\ DownInv'
    BY <1>t, <1>i, <1>c, <1>1 DEF JobInv, DownInv, PodScheduled, TypeOK
  <2>2. PlaceInv' /\ AnnotationInv'
    BY <1>i, <1>1, PlaceFrame, AnnotationFrame DEF PodScheduled
  <2>3. VlanInv'
    BY <1>t, <1>i, <1>1, Frames, VlanFrame DEF PodScheduled, TypeOK, Holding
  <2> QED
    BY <2>1, <2>2, <2>3
<1>2. ASSUME NEW p \in Pod, NEW phase \in {"completed", "gone"}, PodStops(p, phase) PROVE Goal
  <2>1. JobInv' /\ DownInv'
    BY <1>t, <1>i, <1>c, <1>2 DEF JobInv, DownInv, PodStops, TypeOK
  <2>2. PlaceInv' /\ AnnotationInv'
    BY <1>i, <1>2, PlaceFrame, AnnotationFrame DEF PodStops
  <2>3. VlanInv'
    BY <1>i, <1>2, Frames, VlanFrame DEF PodStops, Holding
  <2> QED
    BY <2>1, <2>2, <2>3
<1>3. ASSUME NEW p \in Pod, CreateFetch(p) PROVE Goal
  <2>1. JobInv' /\ DownInv'
    BY <1>t, <1>i, <1>3 DEF JobInv, DownInv, CreateFetch, TypeOK
  <2>2. PlaceInv' /\ AnnotationInv'
    BY <1>i, <1>3, PlaceFrame, AnnotationFrame DEF CreateFetch
  <2>3. VlanInv'
    BY <1>t, <1>i, <1>3, Frames, VlanFrame DEF CreateFetch, TypeOK, Holding
  <2> QED
    BY <2>1, <2>2, <2>3
<1>4. ASSUME NEW p \in Pod, CreateAdmit(p) PROVE Goal
  <2>1. JobInv' /\ DownInv'
    BY <1>t, <1>i, <1>4 DEF JobInv, DownInv, CreateAdmit, jobFails, TypeOK
  <2>2. PlaceInv' /\ AnnotationInv'
    BY <1>i, <1>4, PlaceFrame, AnnotationFrame DEF CreateAdmit
  <2>3. VlanInv'
    BY <1>t, <1>i, <1>4, Frames, VlanFrame DEF CreateAdmit, jobFails, TypeOK, Holding
  <2> QED
    BY <2>1, <2>2, <2>3
<1>5. ASSUME NEW p \in Pod, AssignVlanId(p) PROVE Goal
  <2>1. JobInv' /\ DownInv'
    BY <1>t, <1>i, <1>5 DEF JobInv, DownInv, AssignVlanId, TypeOK
  <2>2. PlaceInv' /\ AnnotationInv'
    BY <1>i, <1>5, PlaceFrame, AnnotationFrame DEF AssignVlanId
  <2>3. Queued' = Queued /\ InHand' = InHand /\ Live' = Live /\ Holding' = Holding
    BY <1>5, Frames DEF AssignVlanId, Holding
  <2>4. ASSUME UNCHANGED <<usedVlanIds, vlanID>>, jobPc' = [jobPc EXCEPT ![p] = "failed"]
        PROVE  VlanInv'
    BY <1>t, <1>i, <1>5, <2>3, <2>4, VlanFrame DEF AssignVlanId, TypeOK, Holding
  <2>5. ASSUME NEW v \in FreeVlans, usedVlanIds' = usedVlanIds \cup {v},
               vlanID' = [vlanID EXCEPT ![p] = v], jobPc' = [jobPc EXCEPT ![p] = "create"]
        PROVE  VlanInv'
    <3>1. v \notin usedVlanIds /\ trunk = "up" /\ trunk' = trunk
      BY <1>i, <1>5 DEF FreeVlans, DownInv, AssignVlanId
    <3>2. \A e \in Holding : niVlan[e] \in usedVlanIds /\ niVlan[e] # v
      BY <1>i, <3>1 DEF VlanInv
    <3>3. \A q \in Pod : jobPc[q] = "create" => vlanID[q] # v
      BY <1>i, <3>1 DEF VlanInv
    <3> QED
      BY <1>t, <1>i, <1>5, <2>3, <2>5, <3>1, <3>2, <3>3 DEF VlanInv, AssignVlanId, TypeOK
  <2> QED
    BY <1>5, <2>1, <2>2, <2>4, <2>5 DEF AssignVlanId
<1>6. ASSUME NEW p \in Pod, CreateNetworkInterface(p) PROVE Goal
  <2>1. PICK e \in ENI : ec2Creates(e, vlanID[p]) /\ newENIs' = [newENIs EXCEPT ![p] = @ \cup {e}]
    BY <1>6 DEF CreateNetworkInterface
  <2>2. Queued' = Queued /\ InHand' = InHand /\ IsInjective(deleteQueue') = IsInjective(deleteQueue)
    BY <1>6, Frames DEF CreateNetworkInterface
  <2>3. Live' = Live \cup {e}
    BY <1>t, <2>1 DEF Live, ec2Creates, TypeOK
  <2>4. Live \subseteq ENI /\ Queued \subseteq ENI /\ InHand \subseteq ENI
    BY <1>t, RangeOfSeq DEF TypeOK, Live, Queued, InHand, Range
  <2>5. e \notin Live /\ e \notin Queued /\ e \notin InHand
    BY <1>i, <2>1 DEF Live, PlaceInv, ec2Creates
  <2>6. JobInv' /\ DownInv'
    BY <1>t, <1>i, <1>6, <2>1 DEF JobInv, DownInv, CreateNetworkInterface, TypeOK
  <2>7. PlaceInv'
    BY <1>t, <1>i, <1>6, <2>1, <2>2, <2>3, <2>4, <2>5 DEF PlaceInv, CreateNetworkInterface, ec2Creates, TypeOK
  <2>8. AnnotationInv'
    BY <1>t, <1>i, <1>6, <2>1 DEF AnnotationInv, CreateNetworkInterface, ec2Creates, TypeOK
  <2>9. VlanInv'
    <3>1. Holding' = Holding \cup {e} /\ e \notin Holding /\ Holding \subseteq ENI
      BY <2>2, <2>3, <2>4, <2>5 DEF Holding
    <3>2. vlanID[p] \in usedVlanIds /\ \A f \in Holding : niVlan[f] # vlanID[p]
      BY <1>i, <1>6 DEF VlanInv, CreateNetworkInterface
    <3>3. niVlan' = [niVlan EXCEPT ![e] = vlanID[p]] /\ niSubnet' = [niSubnet EXCEPT ![e] = subnet]
      BY <2>1 DEF ec2Creates
    <3> QED
      BY <1>t, <1>i, <1>6, <2>3, <2>4, <3>1, <3>2, <3>3 DEF VlanInv, CreateNetworkInterface, TypeOK
  <2> QED
    BY <2>6, <2>7, <2>8, <2>9
<1>7. ASSUME NEW p \in Pod, CreateNetworkInterfaceFails(p) PROVE Goal
  <2>1. UNCHANGED <<niStatus, niVlan, niSubnet>>
    BY <1>c, <1>7 DEF CreateNetworkInterfaceFails
  <2>2. JobInv' /\ DownInv'
    BY <1>t, <1>i, <1>7, <2>1 DEF JobInv, DownInv, CreateNetworkInterfaceFails, TypeOK
  <2>3. PlaceInv' /\ AnnotationInv'
    BY <1>i, <1>7, <2>1, PlaceFrame, AnnotationFrame DEF CreateNetworkInterfaceFails
  <2>4. Holding' = Holding /\ Live' = Live
    BY <1>7, <2>1, Frames DEF CreateNetworkInterfaceFails, Holding
  <2>5. VlanInv'
    BY <1>t, <1>i, <1>7, <2>1, <2>4 DEF VlanInv, CreateNetworkInterfaceFails, freeVlanId, TypeOK
  <2> QED
    BY <2>2, <2>3, <2>5
<1>8. ASSUME NEW p \in Pod, AssociateBranchToTrunk(p) PROVE Goal
  <2>1. JobInv' /\ DownInv'
    BY <1>t, <1>i, <1>8 DEF JobInv, DownInv, AssociateBranchToTrunk, TypeOK
  <2>2. PlaceInv' /\ AnnotationInv'
    BY <1>i, <1>8, PlaceFrame, AnnotationFrame DEF AssociateBranchToTrunk
  <2>3. VlanInv'
    BY <1>t, <1>i, <1>8, Frames, VlanFrame DEF AssociateBranchToTrunk, TypeOK, Holding
  <2> QED
    BY <2>1, <2>2, <2>3
<1>9. ASSUME NEW p \in Pod, CreateFails(p) PROVE Goal
  <2>1. /\ Queued' = newENIs[p] \cup Queued
        /\ IsInjective(deleteQueue) /\ newENIs[p] \cap Queued = {} => IsInjective(deleteQueue')
    BY <1>t, <1>9, PushToFrontFacts DEF CreateFails, TypeOK, Queued
  <2>2. InHand' = InHand /\ Live' = Live
    BY <1>9, Frames DEF CreateFails
  <2>3. JobInv' /\ DownInv'
    BY <1>t, <1>i, <1>9 DEF JobInv, DownInv, CreateFails, jobFails, TypeOK
  <2>4. PlaceInv'
    BY <1>t, <1>i, <1>9, <2>1, <2>2 DEF PlaceInv, CreateFails, TypeOK, JobInv, Live
  <2>5. AnnotationInv'
    BY <1>t, <1>i, <1>9 DEF AnnotationInv, CreateFails, TypeOK
  <2>6. VlanInv'
    BY <1>t, <1>i, <1>9, <2>1, <2>2, VlanFrame DEF CreateFails, jobFails, TypeOK, PlaceInv, Holding
  <2> QED
    BY <2>3, <2>4, <2>5, <2>6
<1>10. ASSUME NEW p \in Pod, AddBranchToCache(p) PROVE Goal
  <2>1. JobInv' /\ DownInv'
    BY <1>t, <1>i, <1>10 DEF JobInv, DownInv, AddBranchToCache, TypeOK
  <2>2. Queued' = Queued /\ InHand' = InHand /\ Live' = Live /\ IsInjective(deleteQueue') = IsInjective(deleteQueue)
    BY <1>10, Frames DEF AddBranchToCache
  <2>3. PlaceInv'
    BY <1>t, <1>i, <1>10, <2>2 DEF PlaceInv, AddBranchToCache, TypeOK
  <2>4. AnnotationInv'
    BY <1>i, <1>10, AnnotationFrame DEF AddBranchToCache
  <2>5. VlanInv'
    BY <1>t, <1>i, <1>10, <2>2, VlanFrame DEF AddBranchToCache, TypeOK, Holding
  <2> QED
    BY <2>1, <2>3, <2>4, <2>5
<1>11. ASSUME NEW p \in Pod, AnnotatePod(p) PROVE Goal
  <2>1. JobInv' /\ DownInv'
    BY <1>t, <1>i, <1>11 DEF JobInv, DownInv, AnnotatePod, TypeOK
  <2>2. Queued' = Queued /\ InHand' = InHand /\ Live' = Live /\ IsInjective(deleteQueue') = IsInjective(deleteQueue)
    BY <1>11, Frames DEF AnnotatePod
  <2>3. PlaceInv'
    BY <1>t, <1>i, <1>11, <2>2 DEF PlaceInv, AnnotatePod, TypeOK
  <2>4. AnnotationInv'
    <3>1. \A e \in newENIs[p] : niStatus[e] # "none"
      BY <1>i DEF PlaceInv, Live
    <3>2. \A q \in Pod : p # q => newENIs[p] \cap newENIs[q] = {}
      BY <1>i DEF PlaceInv
    <3> QED
      BY <1>t, <1>i, <1>11, <3>1, <3>2 DEF AnnotationInv, AnnotatePod, TypeOK
  <2>5. VlanInv'
    BY <1>t, <1>i, <1>11, <2>2, VlanFrame DEF AnnotatePod, TypeOK, Holding
  <2> QED
    BY <2>1, <2>3, <2>4, <2>5
<1>12. ASSUME NEW p \in Pod, AnnotatePodErrs(p) PROVE Goal
  <2>1. JobInv' /\ DownInv'
    BY <1>t, <1>i, <1>12 DEF JobInv, DownInv, AnnotatePodErrs, TypeOK
  <2>2. PlaceInv'
    BY <1>i, <1>12, PlaceFrame DEF AnnotatePodErrs
  <2>3. AnnotationInv'
    <3>1. \A e \in newENIs[p] : niStatus[e] # "none"
      BY <1>i DEF PlaceInv, Live
    <3>2. \A q \in Pod : p # q => newENIs[p] \cap newENIs[q] = {}
      BY <1>i DEF PlaceInv
    <3>3. CASE UNCHANGED annotation
      BY <1>i, <1>12, <3>3, AnnotationFrame DEF AnnotatePodErrs
    <3>4. CASE annotation' = [annotation EXCEPT ![p] = newENIs[p]]
      BY <1>t, <1>i, <1>12, <3>1, <3>2, <3>4 DEF AnnotationInv, AnnotatePodErrs, TypeOK
    <3> QED
      BY <1>12, <3>3, <3>4 DEF AnnotatePodErrs
  <2>4. VlanInv'
    BY <1>t, <1>i, <1>12, Frames, VlanFrame DEF AnnotatePodErrs, TypeOK, Holding
  <2> QED
    BY <2>1, <2>2, <2>3, <2>4
<1>13. ASSUME NEW p \in Pod, AnnotateFails(p) PROVE Goal
  <2>1. /\ Queued' = newENIs[p] \cup Queued
        /\ IsInjective(deleteQueue) /\ newENIs[p] \cap Queued = {} => IsInjective(deleteQueue')
    BY <1>t, <1>13, PushToFrontFacts DEF AnnotateFails, TypeOK, Queued
  <2>2. InHand' = InHand /\ Live' = Live
    BY <1>13, Frames DEF AnnotateFails
  <2>3. JobInv' /\ DownInv'
    BY <1>t, <1>i, <1>13 DEF JobInv, DownInv, AnnotateFails, jobFails, TypeOK
  <2>4. PlaceInv'
    BY <1>t, <1>i, <1>13, <2>1, <2>2 DEF PlaceInv, AnnotateFails, TypeOK, Live
  <2>5. AnnotationInv'
    BY <1>t, <1>i, <1>13 DEF AnnotationInv, AnnotateFails, TypeOK
  <2>6. VlanInv'
    BY <1>t, <1>i, <1>13, <2>1, <2>2, VlanFrame DEF AnnotateFails, jobFails, TypeOK, PlaceInv, Holding
  <2> QED
    BY <2>3, <2>4, <2>5, <2>6
<1>14. ASSUME NEW p \in Pod, DeleteBranchUsedByPods(p) PROVE Goal
  <2>0. jobPc[p] = "none" /\ newENIs[p] = {}
    BY <1>i, <1>14 DEF JobInv, DeleteBranchUsedByPods
  <2>1. InHand' = InHand /\ Live' = Live
    BY <1>14, Frames DEF DeleteBranchUsedByPods
  <2>2. AnnotationInv'
    BY <1>i, <1>14, AnnotationFrame DEF DeleteBranchUsedByPods
  <2>3. JobInv' /\ DownInv'
    BY <1>t, <1>i, <1>14, <2>0 DEF JobInv, DownInv, DeleteBranchUsedByPods, TypeOK
  <2>4. CASE trunk = "up"
    <3>1. pushToCoolDown(uidToBranchENIMap[p]) /\ uidToBranchENIMap' = [uidToBranchENIMap EXCEPT ![p] = {}]
      BY <1>14, <2>4 DEF DeleteBranchUsedByPods
    <3>2. /\ Queued' = uidToBranchENIMap[p] \cup Queued
          /\ IsInjective(deleteQueue) /\ uidToBranchENIMap[p] \cap Queued = {} => IsInjective(deleteQueue')
      BY <1>t, <3>1, PushToCoolDownFacts DEF TypeOK, Queued
    <3>3. PlaceInv'
      BY <1>t, <1>i, <1>14, <2>0, <2>1, <3>1, <3>2 DEF PlaceInv, DeleteBranchUsedByPods, TypeOK, Live
    <3>4. VlanInv'
      BY <1>t, <1>i, <1>14, <2>1, <3>2, VlanFrame DEF DeleteBranchUsedByPods, TypeOK, PlaceInv, Holding
    <3> QED
      BY <2>2, <2>3, <3>3, <3>4
  <2>5. CASE trunk # "up"
    <3>1. PlaceInv'
      BY <1>i, <1>14, <2>5, PlaceFrame DEF DeleteBranchUsedByPods
    <3>2. VlanInv'
      BY <1>i, <1>14, <2>5, Frames, VlanFrame DEF DeleteBranchUsedByPods, Holding
    <3> QED
      BY <2>2, <2>3, <3>1, <3>2
  <2> QED
    BY <2>4, <2>5
<1>15. ASSUME PopENIFromDeleteQueue PROVE Goal
  <2>1. /\ Queued = {Head(deleteQueue)} \cup Queued'
        /\ IsInjective(deleteQueue') /\ Head(deleteQueue) \notin Queued'
    BY <1>t, <1>i, <1>15, PopFacts DEF PopENIFromDeleteQueue, TypeOK, Queued, PlaceInv
  <2>2. Live' = Live /\ InHand' = {Head(deleteQueue)} /\ InHand = {}
    BY <1>15, Frames DEF PopENIFromDeleteQueue, InHand
  <2>3. JobInv' /\ DownInv'
    BY <1>i, <1>15 DEF JobInv, DownInv, PopENIFromDeleteQueue
  <2>4. PlaceInv'
    BY <1>t, <1>i, <1>15, <2>1, <2>2 DEF PlaceInv, PopENIFromDeleteQueue
  <2>5. AnnotationInv'
    BY <1>i, <1>15, AnnotationFrame DEF PopENIFromDeleteQueue
  <2>6. VlanInv'
    BY <1>i, <1>15, <2>1, <2>2, VlanFrame DEF PopENIFromDeleteQueue, Holding
  <2> QED
    BY <2>3, <2>4, <2>5, <2>6
<1>16. ASSUME StillCoolingDown PROVE Goal
  <2>1. /\ Queued' = {workerENI} \cup Queued
        /\ IsInjective(deleteQueue) /\ {workerENI} \cap Queued = {} => IsInjective(deleteQueue')
    <3>1. deleteQueue \in Seq(ENI) /\ {workerENI} \in SUBSET ENI /\ pushToFront({workerENI})
      BY <1>t, <1>16 DEF StillCoolingDown, TypeOK
    <3> QED
      BY <3>1, PushToFrontFacts DEF Queued
  <2>2. Live' = Live /\ InHand' = {} /\ InHand = {workerENI}
    BY <1>16, Frames DEF StillCoolingDown, workerDone, InHand
  <2>3. JobInv' /\ DownInv'
    BY <1>i, <1>16 DEF JobInv, DownInv, StillCoolingDown
  <2>4. PlaceInv'
    BY <1>i, <1>16, <2>1, <2>2 DEF PlaceInv, StillCoolingDown, workerDone
  <2>5. AnnotationInv'
    BY <1>i, <1>16, AnnotationFrame DEF StillCoolingDown
  <2>6. VlanInv'
    BY <1>i, <1>16, <2>1, <2>2, VlanFrame DEF StillCoolingDown, Holding
  <2> QED
    BY <2>3, <2>4, <2>5, <2>6
<1>17. ASSUME DeleteNetworkInterface PROVE Goal
  <2>1. Queued' = Queued /\ IsInjective(deleteQueue') = IsInjective(deleteQueue)
    BY <1>17, Frames DEF DeleteNetworkInterface
  <2>2. InHand' = {workerENI} /\ InHand = {workerENI}
    BY <1>17 DEF DeleteNetworkInterface, InHand
  <2>3. workerENI \in ENI /\ Live' = Live \ {workerENI}
    BY <1>t, <1>17 DEF DeleteNetworkInterface, Live, TypeOK
  <2>4. JobInv' /\ DownInv'
    BY <1>i, <1>17 DEF JobInv, DownInv, DeleteNetworkInterface
  <2>5. PlaceInv'
    BY <1>t, <1>i, <1>17, <2>1, <2>2, <2>3, RangeOfSeq DEF PlaceInv, DeleteNetworkInterface, TypeOK
  <2>6. AnnotationInv'
    BY <1>t, <1>i, <1>17, <2>3 DEF AnnotationInv, DeleteNetworkInterface, TypeOK
  <2>7. VlanInv'
    BY <1>i, <1>17, <2>1, <2>2, <2>3, VlanFrame DEF DeleteNetworkInterface, Holding
  <2> QED
    BY <2>4, <2>5, <2>6, <2>7
<1>18. ASSUME DeleteNetworkInterfaceFails PROVE Goal
  <2>1. workerENI \in ENI /\ niStatus' \in {niStatus, [niStatus EXCEPT ![workerENI] = "gone"]}
    BY <1>t, <1>18 DEF DeleteNetworkInterfaceFails, TypeOK
  <2>2. InHand' = {} /\ InHand = {workerENI}
    BY <1>18 DEF DeleteNetworkInterfaceFails, workerDone, InHand
  <2>3. Live' \subseteq Live /\ Live \subseteq Live' \cup {workerENI}
    BY <1>t, <2>1 DEF Live, TypeOK
  <2>4. /\ Queued' \subseteq {workerENI} \cup Queued
        /\ IsInjective(deleteQueue) /\ {workerENI} \cap Queued = {} => IsInjective(deleteQueue')
    <3>1. CASE UNCHANGED deleteQueue
      BY <3>1, Frames
    <3>2. CASE pushToFront({workerENI})
      <4>1. deleteQueue \in Seq(ENI) /\ {workerENI} \in SUBSET ENI
        BY <1>t, <2>1 DEF TypeOK
      <4> QED
        BY <3>2, <4>1, PushToFrontFacts DEF Queued
    <3> QED
      BY <1>18, <3>1, <3>2 DEF DeleteNetworkInterfaceFails
  <2>5. JobInv' /\ DownInv'
    BY <1>i, <1>18 DEF JobInv, DownInv, DeleteNetworkInterfaceFails
  <2>6. PlaceInv'
    <3>1. \A e \in ENI : niStatus[e] # "none" => niStatus'[e] # "none"
      BY <1>t, <2>1 DEF TypeOK
    <3>2. Queued \subseteq ENI
      BY <1>t, RangeOfSeq DEF TypeOK, Queued
    <3> QED
      BY <1>i, <1>18, <2>1, <2>2, <2>3, <2>4, <3>1, <3>2 DEF PlaceInv, DeleteNetworkInterfaceFails, workerDone
  <2>7. AnnotationInv'
    <3>1. \A e \in ENI : niStatus[e] # "none" => niStatus'[e] # "none"
      BY <1>t, <2>1 DEF TypeOK
    <3> QED
      BY <1>t, <1>i, <1>18, <3>1 DEF AnnotationInv, DeleteNetworkInterfaceFails, TypeOK
  <2>8. VlanInv'
    BY <1>i, <1>18, <2>2, <2>3, <2>4, VlanFrame DEF DeleteNetworkInterfaceFails, Holding
  <2> QED
    BY <2>5, <2>6, <2>7, <2>8
<1>19. ASSUME FreeVlanId PROVE Goal
  <2>1. Queued' = Queued /\ IsInjective(deleteQueue') = IsInjective(deleteQueue) /\ Live' = Live
    BY <1>19, Frames DEF FreeVlanId
  <2>2. InHand' = {} /\ InHand = {workerENI}
    BY <1>19 DEF FreeVlanId, workerDone, InHand
  <2>3. JobInv' /\ DownInv'
    BY <1>i, <1>19 DEF JobInv, DownInv, FreeVlanId
  <2>4. PlaceInv'
    BY <1>i, <1>19, <2>1, <2>2 DEF PlaceInv, FreeVlanId, workerDone
  <2>5. AnnotationInv'
    BY <1>i, <1>19, AnnotationFrame DEF FreeVlanId
  <2>6. VlanInv'
    <3>1. Holding' \subseteq Holding /\ workerENI \in Holding /\ workerENI \notin Holding'
      BY <1>i, <1>19, <2>1, <2>2 DEF Holding, PlaceInv, FreeVlanId, Live
    <3>2. \A e \in Holding' : niVlan[e] # niVlan[workerENI]
      BY <1>i, <3>1 DEF VlanInv
    <3>3. \A p \in Pod : jobPc[p] = "create" => vlanID[p] # niVlan[workerENI]
      BY <1>i, <3>1 DEF VlanInv
    <3>4. usedVlanIds \ {niVlan[workerENI]} \subseteq usedVlanIds'
      BY <1>19 DEF FreeVlanId, freeVlanId
    <3> QED
      BY <1>i, <1>19, <2>1, <3>1, <3>2, <3>3, <3>4 DEF VlanInv, FreeVlanId
  <2> QED
    BY <2>3, <2>4, <2>5, <2>6
<1>20. ASSUME ReconcileList PROVE Goal
  <2>1. JobInv' /\ DownInv'
    BY <1>t, <1>i, <1>20 DEF JobInv, DownInv, ReconcileList, TypeOK
  <2>2. PlaceInv' /\ AnnotationInv'
    BY <1>i, <1>20, PlaceFrame, AnnotationFrame DEF ReconcileList
  <2>3. VlanInv'
    BY <1>i, <1>20, Frames, VlanFrame DEF ReconcileList, Holding
  <2> QED
    BY <2>1, <2>2, <2>3
<1>21. ASSUME Reconcile PROVE Goal
  <2> DEFINE S == UNION {uidToBranchENIMap[p] : p \in Pod \ podList}
  <2>1. S \in SUBSET ENI /\ pushToCoolDown(S)
    BY <1>t, <1>21 DEF TypeOK, Reconcile
  <2>2. uidToBranchENIMap' = [p \in Pod |-> IF p \in podList THEN uidToBranchENIMap[p] ELSE {}]
    BY <1>21 DEF Reconcile
  <2>3. \A p \in Pod \ podList : jobPc[p] = "none" /\ newENIs[p] = {}
    BY <1>i, <1>21 DEF JobInv, Reconcile
  <2>4. InHand' = InHand /\ Live' = Live
    BY <1>21, Frames DEF Reconcile
  <2>5. S \cap Queued = {} /\ S \cap InHand = {} /\ S \subseteq Live
    BY <1>i DEF PlaceInv
  <2>6. \A p \in podList : HeldFor(p) \cap S = {}
    <3>1. podList \subseteq Pod
      BY <1>t DEF TypeOK
    <3>2. \A p \in podList, q \in Pod \ podList : HeldFor(p) \cap uidToBranchENIMap[q] = {}
      BY <1>i, <3>1 DEF PlaceInv
    <3> QED
      BY <3>2
  <2> HIDE DEF S
  <2>7. Queued' = S \cup Queued /\ IsInjective(deleteQueue')
    <3>1. deleteQueue \in Seq(ENI) /\ IsInjective(deleteQueue)
      BY <1>t, <1>i DEF TypeOK, PlaceInv
    <3> QED
      BY <2>1, <2>5, <3>1, PushToCoolDownFacts DEF Queued
  <2>8. JobInv' /\ DownInv'
    BY <1>t, <1>i, <1>21, <2>2, <2>3 DEF JobInv, DownInv, Reconcile, TypeOK
  <2>9. PlaceInv'
    <3>1. \A p \in Pod : HeldFor(p)' \subseteq HeldFor(p) /\ HeldFor(p)' \cap S = {}
      BY <1>t, <1>21, <2>2, <2>3, <2>6 DEF Reconcile
    <3>2. \A e \in S : niStatus[e] # "none"
      BY <2>5 DEF Live
    <3> QED
      BY <1>i, <1>21, <2>4, <2>5, <2>7, <3>1, <3>2 DEF PlaceInv, Reconcile
  <2>10. AnnotationInv'
    BY <1>i, <1>21, AnnotationFrame DEF Reconcile
  <2>11. VlanInv'
    BY <1>i, <1>21, <2>4, <2>5, <2>7, VlanFrame DEF Reconcile, Holding
  <2> QED
    BY <2>8, <2>9, <2>10, <2>11
<1>22. ASSUME InitResource PROVE Goal
  <2>1. JobInv' /\ DownInv'
    BY <1>t, <1>i, <1>22 DEF JobInv, DownInv, InitResource
  <2>2. PlaceInv' /\ AnnotationInv'
    BY <1>i, <1>22, PlaceFrame, AnnotationFrame DEF InitResource
  <2>3. Live' = Live /\ Holding' = Holding
    BY <1>22, Frames DEF InitResource, Holding
  <2>4. VlanInv'
    BY <1>i, <1>22, <2>3 DEF InitResource, VlanInv
  <2> QED
    BY <2>1, <2>2, <2>4
<1>23. ASSUME InitTrunk PROVE Goal
  <2> DEFINE owned(p) == IF p \in initPods THEN annotation[p] \cap Live ELSE {}
             orphans == Live \ UNION {owned(p) : p \in Pod}
  <2>1. associatedBranchInterfaces = Live
    BY <1>i DEF associatedBranchInterfaces, VlanInv
  <2>2. /\ uidToBranchENIMap' = [p \in Pod |-> owned(p)]
        /\ usedVlanIds' = markedVlans(Live)
        /\ deleteQueue' \in SetToSeqs(orphans)
    BY <1>23, <2>1 DEF InitTrunk
  <2>3. orphans \in SUBSET ENI
    BY DEF Live
  <2>4. Queued' = orphans /\ IsInjective(deleteQueue')
    BY <2>2, <2>3, OrderingFacts DEF Queued
  <2>5. /\ InHand' = InHand /\ Live' = Live /\ workerPc = "idle" /\ InHand = {}
        /\ \A p \in Pod : newENIs[p] = {} /\ jobPc[p] \in {"none", "queued"}
    BY <1>i, <1>23, Frames DEF InitTrunk, DownInv, InHand
  <2>6. JobInv' /\ DownInv'
    BY <1>i, <1>23, <2>5 DEF JobInv, DownInv, InitTrunk
  <2>7. PlaceInv'
    <3>1. \A p \in Pod : HeldFor(p)' = owned(p)
      BY <1>23, <2>2, <2>5 DEF InitTrunk
    <3>2. \A p \in Pod : owned(p) \subseteq Live /\ owned(p) \subseteq annotation[p] /\ owned(p) \cap orphans = {}
      OBVIOUS
    <3>3. \A p, q \in Pod : p # q => owned(p) \cap owned(q) = {}
      BY <1>i DEF AnnotationInv
    <3>4. \A e \in orphans : niStatus[e] # "none"
      BY DEF Live
    <3> HIDE DEF owned, orphans
    <3> QED
      BY <1>i, <1>23, <2>4, <2>5, <3>1, <3>2, <3>3, <3>4 DEF PlaceInv, InitTrunk
  <2>8. AnnotationInv'
    BY <1>i, <1>23, AnnotationFrame DEF InitTrunk
  <2>9. VlanInv'
    <3>1. Holding' \subseteq Holding /\ Holding' = Live
      BY <2>4, <2>5 DEF Holding
    <3>2. \A e \in Live : niVlan[e] \in usedVlanIds'
      BY <2>2 DEF markedVlans
    <3> QED
      BY <1>i, <1>23, <2>5, <3>1, <3>2 DEF VlanInv, InitTrunk
  <2> QED
    BY <2>6, <2>7, <2>8, <2>9
<1>24. ASSUME Crash PROVE Goal
  <2>1. Queued' = {} /\ InHand' = {} /\ IsInjective(deleteQueue') /\ Live' = Live
    BY <1>24, EmptyQueueFacts, Frames DEF Crash, workerDone, Queued, InHand
  <2>2. \A p \in Pod : HeldFor(p)' = {} /\ newENIs'[p] = {} /\ jobPc'[p] \in {"none", "queued"}
    BY <1>24 DEF Crash
  <2>3. JobInv' /\ DownInv'
    BY <1>i, <1>24, <2>2 DEF JobInv, DownInv, Crash, workerDone
  <2>4. PlaceInv'
    BY <1>24, <2>1, <2>2 DEF PlaceInv, Crash, workerDone
  <2>5. AnnotationInv'
    BY <1>i, <1>24, <2>2 DEF AnnotationInv, Crash
  <2>6. VlanInv'
    BY <1>i, <1>24, <2>1, <2>2 DEF VlanInv, Crash, Holding
  <2> QED
    BY <2>3, <2>4, <2>5, <2>6
<1>25. ASSUME SubnetChange PROVE Goal
  BY <1>c, <1>25 DEF SubnetChange
<1>26. ASSUME Tick PROVE Goal
  <2>1. JobInv' /\ DownInv'
    BY <1>i, <1>26 DEF JobInv, DownInv, Tick
  <2>2. PlaceInv' /\ AnnotationInv'
    BY <1>i, <1>26, PlaceFrame, AnnotationFrame DEF Tick
  <2>3. VlanInv'
    BY <1>i, <1>26, Frames, VlanFrame DEF Tick, Holding
  <2> QED
    BY <2>1, <2>2, <2>3
<1>27. ASSUME UNCHANGED vars PROVE Goal
  <2>1. JobInv' /\ DownInv'
    BY <1>i, <1>27 DEF JobInv, DownInv, vars
  <2>2. PlaceInv' /\ AnnotationInv'
    BY <1>i, <1>27, PlaceFrame, AnnotationFrame DEF vars
  <2>3. VlanInv'
    BY <1>i, <1>27, Frames, VlanFrame DEF vars, Holding
  <2> QED
    BY <2>1, <2>2, <2>3
<1>28. ASSUME NEW p \in Pod, PodUpdated(p) PROVE Goal
  <2>1. JobInv' /\ DownInv'
    BY <1>t, <1>i, <1>28 DEF JobInv, DownInv, PodUpdated, TypeOK
  <2>2. PlaceInv' /\ AnnotationInv'
    BY <1>i, <1>28, PlaceFrame, AnnotationFrame DEF PodUpdated
  <2>3. VlanInv'
    BY <1>t, <1>i, <1>28, Frames, VlanFrame DEF PodUpdated, TypeOK, Holding
  <2> QED
    BY <2>1, <2>2, <2>3
<1>29. Goal
  BY <1>1, <1>2, <1>3, <1>4, <1>5, <1>6, <1>7, <1>8, <1>9, <1>10, <1>11, <1>12, <1>13, <1>14, <1>15, <1>16,
     <1>17, <1>18, <1>19, <1>20, <1>21, <1>22, <1>23, <1>24, <1>25, <1>26, <1>27, <1>28
  DEF Next, CreateStep, DeleteQueueStep
<1> QED
  BY <1>t, <1>29 DEF ExclusiveInv

\* No VLAN id is on two existing interfaces or free while one carries it: the
\* contract of provider.go (a pod's create job does not run concurrently with
\* another job of that pod) is enough, whatever else fails or restarts.
THEOREM VlanExclusiveUnderContract == ASSUME Contract PROVE Spec => []VlanExclusive
<1>1. Init => ExclusiveInv
  BY InitExclusive
<1>2. ExclusiveInv /\ [Next]_vars => ExclusiveInv'
  BY NextExclusive
<1>3. ExclusiveInv => VlanExclusive
  BY DEF ExclusiveInv, VlanInv, VlanExclusive, Holding
<1> QED
  BY <1>1, <1>2, <1>3, PTL DEF Spec
=============================================================================
