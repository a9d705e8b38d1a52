--------------------------- MODULE WarmPoolProofs ---------------------------
(***************************************************************************)
(* Theorems about WarmPool, for any number of pods, addresses, jobs and    *)
(* restarts and any warm targets.                                          *)
(***************************************************************************)
EXTENDS WarmPool, SequenceTheorems, FiniteSetTheorems, TLAPS

-----------------------------------------------------------------------------
(***************************************************************************)
(* Counting.                                                               *)
(***************************************************************************)

\* There are finitely many group names and resources, and a group has some.
LEMMA ConstantFacts ==
  /\ PerGroup \in Nat \ {0}
  /\ IsFiniteSet(GroupID) /\ IsFiniteSet(Resource)
  /\ \A r \in Resource : GroupOf(r) \in GroupID
<1> DEFINE B == IF isPDPool THEN {TRUE} ELSE BOOLEAN
<1>1. PerGroup \in Nat \ {0}
  BY PoolAssumption DEF PerGroup
<1>2. IsFiniteSet({TRUE}) /\ IsFiniteSet({FALSE})
  BY FS_Singleton
<1>3. IsFiniteSet({TRUE} \cup {FALSE})
  BY <1>2, FS_Union
<1>4. BOOLEAN = {TRUE} \cup {FALSE}
  OBVIOUS
<1>5. IsFiniteSet(B)
  BY <1>2, <1>3, <1>4
<1>6. IsFiniteSet(Group \X B)
  BY <1>5, PoolAssumption, FS_Product
<1>7. IsFiniteSet(1 .. PerGroup)
  BY <1>1, FS_Interval
<1>8. IsFiniteSet((Group \X B) \X (1 .. PerGroup))
  BY <1>6, <1>7, FS_Product
<1>9. IsFiniteSet(Group \X B \X (1 .. PerGroup))
  <2> DEFINE S == (Group \X B) \X (1 .. PerGroup)
             f == [x \in S |-> <<x[1][1], x[1][2], x[2]>>]
             T == Group \X B \X (1 .. PerGroup)
  <2>1. f \in [S -> T]
    OBVIOUS
  <2>2. \A t \in T : \E x \in S : f[x] = t
    <3> TAKE t \in T
    <3>1. <<<<t[1], t[2]>>, t[3]>> \in S
      OBVIOUS
    <3>2. f[<<<<t[1], t[2]>>, t[3]>>] = t
      BY <3>1
    <3> QED
      BY <3>1, <3>2
  <2>3. f \in Surjection(S, T)
    BY <2>1, <2>2 DEF Surjection
  <2> QED
    BY <1>8, <2>3, FS_Surjection
<1>10. \A r \in Resource : GroupOf(r) \in GroupID
  BY DEF Resource, GroupOf, GroupID
<1> QED
  BY <1>1, <1>6, <1>9, <1>10 DEF GroupID, Resource

\* The counts the pool computes are natural numbers, its deviation from the
\* warm targets is a number of whole groups.
LEMMA CountType ==
  ASSUME TypeOK
  PROVE  /\ numUsed \in Nat /\ numCooling \in Nat /\ numWarm \in Nat
         /\ unavailable \in Int /\ totalCreatedResources \in Int /\ canCreateUpto \in Int
         /\ IsFiniteSet(freeGroups) /\ deviation \in Int
         /\ \E x \in Int : deviation = x * PerGroup
<1>1. numUsed \in Nat
  BY FS_Subset, FS_CardinalityType, PoolAssumption DEF numUsed, Used
<1>2. numCooling \in Nat
  BY LenProperties DEF numCooling, TypeOK
<1>3. numWarm \in Nat
  <2> DEFINE copies(r) == {r} \X (1 .. warmResources[r])
  <2>1. \A r \in Resource : IsFiniteSet(copies(r))
    <3> TAKE r \in Resource
    <3>1. warmResources[r] \in Nat
      BY DEF TypeOK
    <3>2. IsFiniteSet(1 .. warmResources[r])
      BY <3>1, FS_Interval
    <3>3. IsFiniteSet({r})
      BY FS_Singleton
    <3> QED
      BY <3>2, <3>3, FS_Product
  <2> DEFINE all == {copies(r) : r \in Resource}
  <2>2. IsFiniteSet(all)
    <3> DEFINE f == [r \in Resource |-> copies(r)]
    <3>1. f \in Surjection(Resource, all)
      BY DEF Surjection
    <3> QED
      BY <3>1, ConstantFacts, FS_Surjection
  <2>3. \A T \in all : IsFiniteSet(T)
    BY <2>1
  <2> HIDE DEF all
  <2>4. IsFiniteSet(UNION all)
    BY <2>2, <2>3, FS_UNION
  <2>5. Cardinality(UNION all) \in Nat
    BY <2>4, FS_CardinalityType
  <2> QED
    BY <2>5 DEF all, numWarm, warmCopies
<1>4. unavailable \in Int /\ totalCreatedResources \in Int /\ canCreateUpto \in Int
  BY <1>1, <1>2, <1>3, PoolAssumption DEF TypeOK, unavailable, totalCreatedResources, canCreateUpto
<1>5. IsFiniteSet(freeGroups) /\ Cardinality(freeGroups) \in Nat
  <2>1. freeGroups \subseteq GroupID
    BY DEF freeGroups
  <2> QED
    BY <2>1, ConstantFacts, FS_Subset, FS_CardinalityType
<1> DEFINE N == NumIPv4AddrPerPrefix
<1>6. N \in Nat \ {0}
  BY PoolAssumption
<1>7. \A n \in Int : CeilDivision(n, N) \in Int
  BY <1>6 DEF CeilDivision
<1>8. secondaryIPDeviation \in Int
  BY <1>1, <1>2, <1>3, PoolAssumption
  DEF TypeOK, secondaryIPDeviation, atLeast, atMost, IPv4DefaultWinTarget
<1>9. \E x \in Int : PDDeviation = x * N
  <2> DEFINE prefixes(n) == CeilDivision(n, N)
             warmTarget == IF draining THEN 0 ELSE IF WarmIPTarget > 0 THEN WarmIPTarget ELSE IPv4PDDefaultWarmIPTargetSize
             minTarget == IF draining THEN 0 ELSE IF MinIPTarget > 0 THEN MinIPTarget ELSE IPv4PDDefaultMinIPTargetSize
             wanted == atLeast(prefixes(numUsed + warmTarget), prefixes(minTarget))
             byAddress == wanted - prefixes(numUsed + pendingCreate + numWarm + numCooling)
             byPrefix == WarmPrefixTarget - Cardinality(freeGroups) - prefixes(pendingCreate)
             only == ~draining /\ ~(WarmIPTarget > 0) /\ ~(MinIPTarget > 0) /\ WarmPrefixTarget > 0
             prefixDeviation == IF only THEN byPrefix
                                ELSE IF byAddress < 0 /\ freeGroups = {} THEN 0 ELSE byAddress
  <2>1. warmTarget \in Int /\ minTarget \in Int
    BY PoolAssumption DEF IPv4PDDefaultWarmIPTargetSize, IPv4PDDefaultMinIPTargetSize
  <2>2. wanted \in Int
    <3> HIDE DEF warmTarget, minTarget
    <3>1. prefixes(numUsed + warmTarget) \in Int /\ prefixes(minTarget) \in Int
      BY <1>1, <1>7, <2>1
    <3> HIDE DEF prefixes
    <3> QED
      BY <3>1 DEF atLeast
  <2>3. prefixes(numUsed + pendingCreate + numWarm + numCooling) \in Int /\ prefixes(pendingCreate) \in Int
    BY <1>1, <1>2, <1>3, <1>7 DEF TypeOK
  <2>4. byAddress \in Int /\ byPrefix \in Int
    <3> HIDE DEF wanted, prefixes
    <3> QED
      BY <1>5, <2>2, <2>3, PoolAssumption
  <2>5. prefixDeviation \in Int
    <3> HIDE DEF byAddress, byPrefix, only
    <3> QED
      BY <2>4
  <2>6. PDDeviation = prefixDeviation * N
    BY DEF PDDeviation
  <2> HIDE DEF prefixDeviation
  <2> QED
    BY <2>5, <2>6
<1>10. \E x \in Int : deviation = x * PerGroup
  BY <1>8, <1>9 DEF deviation, PerGroup
<1>11. deviation \in Int
  BY <1>10, ConstantFacts
<1> QED
  BY <1>1, <1>2, <1>3, <1>4, <1>5, <1>10, <1>11

-----------------------------------------------------------------------------
(***************************************************************************)
(* Type correctness.                                                       *)
(***************************************************************************)
\* An empty slot is a job, and so is what ReconcilePool makes of it.
LEMMA NoJobType ==
  /\ NoJob \in JobType
  /\ [NoJob EXCEPT !.op = "ReSync"] \in JobType
  /\ \A n \in Int : [NoJob EXCEPT !.op = "Create", !.count = n] \in JobType
  /\ \A n \in Int, gs \in SUBSET GroupID :
       [NoJob EXCEPT !.op = "Deleted", !.count = n, !.groups = gs] \in JobType
<1>1. NoJob \in JobType
  BY DEF NoJob, JobType
<1>2. [NoJob EXCEPT !.op = "ReSync"] \in JobType
  BY <1>1 DEF JobType
<1>3. ASSUME NEW n \in Int PROVE [NoJob EXCEPT !.op = "Create", !.count = n] \in JobType
  BY <1>1 DEF JobType
<1>4. ASSUME NEW n \in Int, NEW gs \in SUBSET GroupID
      PROVE  [NoJob EXCEPT !.op = "Deleted", !.count = n, !.groups = gs] \in JobType
  BY <1>1 DEF JobType
<1> QED
  BY <1>1, <1>2, <1>3, <1>4

\* A pool that NewResourcePool and a restart leave empty is typed.
LEMMA InitType == Init => TypeOK
<1> SUFFICES ASSUME Init PROVE TypeOK
  OBVIOUS
<1>1. coolDownQueue \in Seq([res : Resource, age : Age])
  BY DEF Init
<1>2. jobs \in [Job -> JobType]
  BY NoJobType DEF Init
<1>3. stoppedFor \in [Pod -> Age \cup {NoTime}] /\ crashes \in 0 .. MaxCrashes
  BY PoolAssumption DEF Init
<1>4. warmResources \in [Resource -> Nat]
  BY DEF Init, NoneWarm
<1>5. deleteEvents \in SUBSET PodEvent /\ initPods \in SUBSET Pod /\ upstream \in SUBSET Group
  BY DEF Init
<1>6. /\ usedResources \in [Pod -> Resource \cup {NoResource}]
      /\ resID \in [Pod -> Resource \cup {NoResource}]
      /\ annotation \in [Pod -> Resource \cup {NoResource}]
  BY DEF Init
<1>7. /\ handlerPc \in [Pod -> {"none", "assign", "annotate"}]
      /\ podPhase \in [Pod -> {"absent", "running", "completed", "gone"}]
      /\ pool \in {"down", "listed", "up"} /\ pendingCreate \in Int /\ pendingDelete \in Int
  BY DEF Init
<1>8. reSyncRequired \in BOOLEAN /\ draining \in BOOLEAN /\ outdated \in BOOLEAN
  BY DEF Init
<1> QED
  BY <1>1, <1>2, <1>3, <1>4, <1>5, <1>6, <1>7, <1>8 DEF TypeOK

\* FreeResource appends the owner's resource to a typed queue.
LEMMA FreeType ==
  ASSUME TypeOK, NEW p \in Pod, NEW r, owns(p, r), FreeResource(p, r)
  PROVE  /\ usedResources' \in [Pod -> Resource \cup {NoResource}]
         /\ warmResources' \in [Resource -> Nat]
         /\ coolDownQueue' \in Seq([res : Resource, age : Age])
<1>1. r \in Resource /\ 0 \in Age
  BY PoolAssumption DEF owns, TypeOK, Age
<1>2. [res |-> r, age |-> 0] \in [res : Resource, age : Age]
  BY <1>1
<1>3. coolDownQueue' \in Seq([res : Resource, age : Age])
  BY <1>2, AppendProperties DEF TypeOK, FreeResource
<1> QED
  BY <1>3 DEF TypeOK, FreeResource

\* A job is put into a free slot.
LEMMA SubmitType ==
  ASSUME TypeOK, NEW job \in JobType, submit(job)
  PROVE  jobs' \in [Job -> JobType]
  BY DEF TypeOK, submit

\* The events of pods and the steps of their handlers preserve the types.
LEMMA PodType ==
  ASSUME TypeOK, NEW p \in Pod,
         \/ PodScheduled(p) \/ HandleCreate(p) \/ HandlerStep(p)
         \/ \E phase \in {"completed", "gone"} : PodStops(p, phase) \/ HandleDelete(p, phase)
  PROVE  TypeOK'
<1>1. CASE PodScheduled(p)
  BY <1>1 DEF TypeOK, PodScheduled, poolVars, handlerVars, initVars
<1>2. CASE HandleCreate(p)
  BY <1>2 DEF TypeOK, HandleCreate, poolVars, podVars, initVars
<1>3. CASE AssignResource(p)
  <2>1. PICK r \in assignable : /\ warmResources' = [warmResources EXCEPT ![r] = @ - 1]
                                /\ usedResources' = [usedResources EXCEPT ![p] = r]
                                /\ resID' = [resID EXCEPT ![p] = r]
    BY <1>3 DEF AssignResource
  <2>2. r \in Resource /\ warmResources[r] > 0
    BY DEF assignable
  <2>3. warmResources' \in [Resource -> Nat]
    BY <2>1, <2>2 DEF TypeOK
  <2>4. /\ usedResources' \in [Pod -> Resource \cup {NoResource}]
        /\ resID' \in [Pod -> Resource \cup {NoResource}]
    BY <2>1, <2>2 DEF TypeOK
  <2> QED
    BY <1>3, <2>3, <2>4 DEF TypeOK, AssignResource, podVars, initVars
<1>4. CASE AssignResourceFails(p)
  BY <1>4 DEF TypeOK, AssignResourceFails, poolVars, podVars, initVars
<1>5. CASE AnnotatePod(p)
  BY <1>5 DEF TypeOK, AnnotatePod, handlerDone, poolVars, initVars
<1>6. CASE AnnotatePodFails(p)
  <2>1. /\ usedResources' \in [Pod -> Resource \cup {NoResource}]
        /\ warmResources' \in [Resource -> Nat]
        /\ coolDownQueue' \in Seq([res : Resource, age : Age])
    <3>1. CASE owns(p, resID[p]) /\ FreeResource(p, resID[p])
      BY <3>1, FreeType
    <3>2. CASE UNCHANGED <<usedResources, coolDownQueue, warmResources>>
      BY <3>2 DEF TypeOK
    <3> QED
      BY <1>6, <3>1, <3>2 DEF AnnotatePodFails
  <2> QED
    BY <1>6, <2>1 DEF TypeOK, AnnotatePodFails, handlerDone, podVars, initVars
<1>7. ASSUME NEW phase \in {"completed", "gone"}, PodStops(p, phase) PROVE TypeOK'
  <2>1. 0 \in Age
    BY PoolAssumption DEF Age
  <2> QED
    BY <1>7, <2>1 DEF TypeOK, PodStops, PodEvent, poolVars, handlerVars, initVars
<1>8. ASSUME NEW phase \in {"completed", "gone"}, HandleDelete(p, phase) PROVE TypeOK'
  <2> DEFINE r == IF annotation[p] # NoResource THEN annotation[p] ELSE usedResources[p]
  <2>1. /\ usedResources' \in [Pod -> Resource \cup {NoResource}]
        /\ warmResources' \in [Resource -> Nat]
        /\ coolDownQueue' \in Seq([res : Resource, age : Age])
    <3>1. CASE owns(p, r) /\ FreeResource(p, r)
      BY <3>1, FreeType
    <3>2. CASE UNCHANGED <<usedResources, coolDownQueue, warmResources>>
      BY <3>2 DEF TypeOK
    <3> QED
      BY <1>8, <3>1, <3>2 DEF HandleDelete
  <2> QED
    BY <1>8, <2>1 DEF TypeOK, HandleDelete, handlerVars, podVars, initVars
<1> QED
  BY <1>1, <1>2, <1>3, <1>4, <1>5, <1>6, <1>7, <1>8 DEF HandlerStep

\* ReconcilePool preserves the types.
LEMMA ReconcileType == ASSUME TypeOK, ReconcilePool PROVE TypeOK'
<1>1. PerGroup \in Nat \ {0}
  BY ConstantFacts
<1>2. CASE RequestReSync
  <2>1. [NoJob EXCEPT !.op = "ReSync"] \in JobType
    BY NoJobType
  <2>2. jobs' \in [Job -> JobType]
    BY <1>2, <2>1, SubmitType DEF RequestReSync
  <2> QED
    BY <1>2, <2>2 DEF TypeOK, RequestReSync, poolVars, handlerVars, podVars, initVars
<1>3. CASE RequestCreate
  <2> DEFINE n == atMost(deviation, canCreateUpto)
             job == [NoJob EXCEPT !.op = "Create", !.count = n \div PerGroup]
  <2>1. n \in Int
    BY CountType DEF atMost
  <2>2. submit(job) /\ pendingCreate' = pendingCreate + n
    BY <1>3 DEF RequestCreate
  <2> HIDE DEF n
  <2>3. n \div PerGroup \in Int
    BY <1>1, <2>1
  <2>4. job \in JobType
    BY <2>3, NoJobType
  <2>5. pendingCreate' \in Int
    BY <2>1, <2>2 DEF TypeOK
  <2> HIDE DEF job
  <2>6. jobs' \in [Job -> JobType]
    BY <2>2, <2>4, SubmitType
  <2> QED
    BY <1>3, <2>5, <2>6 DEF TypeOK, RequestCreate, handlerVars, podVars, initVars
<1>4. CASE RequestDelete
  <2> DEFINE k == atMost(CeilDivision(-deviation, PerGroup), Cardinality(freeGroups))
  <2>1. PICK gs \in kSubset(k, freeGroups) :
          /\ warmResources' = [r \in Resource |-> IF GroupOf(r) \in gs THEN 0 ELSE warmResources[r]]
          /\ pendingDelete' = pendingDelete + Cardinality(gs) * PerGroup
          /\ submit([NoJob EXCEPT !.op = "Deleted", !.count = Cardinality(gs), !.groups = gs])
    BY <1>4 DEF RequestDelete
  <2>2. gs \in SUBSET freeGroups
    BY DEF kSubset
  <2>3. gs \in SUBSET GroupID /\ Cardinality(gs) \in Nat
    BY <2>2, CountType, FS_Subset, FS_CardinalityType DEF freeGroups
  <2> DEFINE job == [NoJob EXCEPT !.op = "Deleted", !.count = Cardinality(gs), !.groups = gs]
  <2>4. job \in JobType
    <3>1. Cardinality(gs) \in Int
      BY <2>3
    <3> QED
      BY <2>3, <3>1, NoJobType
  <2>5. pendingDelete' \in Int /\ warmResources' \in [Resource -> Nat]
    BY <1>1, <2>1, <2>3 DEF TypeOK
  <2>6. submit(job)
    BY <2>1
  <2> HIDE DEF job
  <2>7. jobs' \in [Job -> JobType]
    BY <2>4, <2>6, SubmitType
  <2> QED
    BY <1>4, <2>5, <2>7 DEF TypeOK, RequestDelete, handlerVars, podVars, initVars
<1> QED
  BY <1>2, <1>3, <1>4 DEF ReconcilePool

\* Counting some of the positions of the cool-down queue.
LEMMA PositionsType ==
  ASSUME TypeOK, NEW I \in SUBSET (DOMAIN coolDownQueue)
  PROVE  IsFiniteSet(I) /\ Cardinality(I) \in 0 .. Len(coolDownQueue)
<1>1. Len(coolDownQueue) \in Nat /\ DOMAIN coolDownQueue = 1 .. Len(coolDownQueue)
  BY LenProperties DEF TypeOK
<1>2. IsFiniteSet(1 .. Len(coolDownQueue)) /\ Cardinality(1 .. Len(coolDownQueue)) = Len(coolDownQueue)
  BY <1>1, FS_Interval
<1>3. IsFiniteSet(I) /\ Cardinality(I) <= Len(coolDownQueue)
  BY <1>1, <1>2, FS_Subset
<1>4. Cardinality(I) \in Nat
  BY <1>3, FS_CardinalityType
<1> QED
  BY <1>1, <1>3, <1>4

\* The delete-queue job takes a prefix of the queue.
LEMMA CoolDownType == ASSUME TypeOK, ProcessCoolDownQueue PROVE TypeOK'
<1> DEFINE I == {i \in DOMAIN coolDownQueue : \A k \in 1 .. i : coolDownQueue[k].age >= CoolDownPeriod}
           n == Cardinality(I)
           taken(r) == {i \in 1 .. n : coolDownQueue[i].res = r}
           Q == [res : Resource, age : Age]
<1>1. n \in 0 .. Len(coolDownQueue)
  BY PositionsType
<1>2. /\ warmResources' = [r \in Resource |-> warmResources[r] + Cardinality(taken(r))]
      /\ coolDownQueue' = SubSeq(coolDownQueue, n + 1, Len(coolDownQueue))
  BY DEF ProcessCoolDownQueue
<1> HIDE DEF n
<1>3. /\ Len(coolDownQueue) \in Nat
      /\ \A i \in 1 .. Len(coolDownQueue) : coolDownQueue[i] \in Q
  BY LenProperties, ElementOfSeq DEF TypeOK
<1>4. \A r \in Resource : Cardinality(taken(r)) \in Nat
  <2> TAKE r \in Resource
  <2>1. IsFiniteSet(1 .. n)
    BY <1>1, <1>3, FS_Interval
  <2> QED
    BY <2>1, FS_Subset, FS_CardinalityType
<1>5. warmResources' \in [Resource -> Nat]
  <2> HIDE DEF taken
  <2> QED
    BY <1>2, <1>4 DEF TypeOK
<1>6. coolDownQueue' \in Seq(Q)
  <2>1. \A i \in n + 1 .. Len(coolDownQueue) : coolDownQueue[i] \in Q
    BY <1>1, <1>3
  <2>2. n + 1 \in Int /\ Len(coolDownQueue) \in Int
    BY <1>1, <1>3
  <2> HIDE DEF Q
  <2> QED
    BY <1>2, <2>1, <2>2, SubSeqProperties
<1> QED
  BY <1>5, <1>6 DEF TypeOK, ProcessCoolDownQueue, handlerVars, podVars, initVars

\* The steps of a job preserve the types.
LEMMA JobStepType == ASSUME TypeOK, NEW j \in Job, JobStep(j) PROVE TypeOK'
<1>1. PerGroup \in Nat \ {0} /\ \A gs \in SUBSET Group : Masked(gs) \in SUBSET GroupID
  <2>1. ASSUME NEW gs \in SUBSET Group PROVE Masked(gs) \in SUBSET GroupID
    BY PoolAssumption DEF Masked, GroupID
  <2> QED
    BY <2>1, ConstantFacts
<1>2. jobs[j] \in JobType
  BY DEF TypeOK
<1>3. CASE CreateIPV4Resource(j)
  <2>1. PICK made \in SUBSET (Group \ upstream) : \E got \in SUBSET made :
          /\ upstream' = upstream \cup made
          /\ \/ jobs' = [jobs EXCEPT ![j].op = "Created", ![j].groups = Masked(got),
                                     ![j].ok = Cardinality(got) >= jobs[j].count]
             \/ jobs' = [jobs EXCEPT ![j].op = "Created"]
    BY <1>3 DEF CreateIPV4Resource
  <2>2. PICK got \in SUBSET made :
           /\ upstream' = upstream \cup made
           /\ \/ jobs' = [jobs EXCEPT ![j].op = "Created", ![j].groups = Masked(got),
                                      ![j].ok = Cardinality(got) >= jobs[j].count]
              \/ jobs' = [jobs EXCEPT ![j].op = "Created"]
    BY <2>1
  <2>3. upstream' \in SUBSET Group
    BY <2>2 DEF TypeOK
  <2>4. jobs' \in [Job -> JobType]
    <3>1. CASE jobs' = [jobs EXCEPT ![j].op = "Created"]
      BY <3>1, <1>2 DEF TypeOK, JobType
    <3>2. CASE jobs' = [jobs EXCEPT ![j].op = "Created", ![j].groups = Masked(got),
                                    ![j].ok = Cardinality(got) >= jobs[j].count]
      <4> DEFINE M == Masked(got)
                 b == Cardinality(got) >= jobs[j].count
      <4>1. M \in SUBSET GroupID
        BY <1>1
      <4>2. b \in BOOLEAN
        OBVIOUS
      <4>3. jobs' = [jobs EXCEPT ![j].op = "Created", ![j].groups = M, ![j].ok = b]
        BY <3>2
      <4> HIDE DEF M, b
      <4> QED
        BY <4>1, <4>2, <4>3, <1>2 DEF TypeOK, JobType
    <3> QED
      BY <2>2, <3>1, <3>2
  <2> QED
    BY <1>3, <2>3, <2>4 DEF TypeOK, CreateIPV4Resource, poolVars, handlerVars, podVars, initVars
<1>4. CASE DeleteIPV4Resource(j)
  <2> DEFINE known == {g \in jobs[j].groups : g[1] \in upstream}
  <2>1. PICK done \in SUBSET known :
          /\ upstream' = upstream \ {g[1] : g \in done}
          /\ jobs' = [jobs EXCEPT ![j].op = "Unassigned",
                                  ![j].groups = returnedNames(jobs[j].groups \ done),
                                  ![j].ok = done = jobs[j].groups]
    BY <1>4 DEF DeleteIPV4Resource
  <2> DEFINE M == returnedNames(jobs[j].groups \ done)
             b == done = jobs[j].groups
  <2>2. M \in SUBSET GroupID
    <3>1. jobs[j].groups \ done \in SUBSET GroupID
      BY <1>2 DEF JobType
    <3>2. \A gs \in SUBSET GroupID : returnedNames(gs) \in SUBSET GroupID
      <4> TAKE gs \in SUBSET GroupID
      <4>1. CASE isPDPool
        BY <4>1 DEF returnedNames
      <4>2. CASE ~isPDPool
        <5>1. returnedNames(gs) = {<<g[1], FALSE>> : g \in gs}
          BY <4>2 DEF returnedNames, Stripped
        <5>2. \A g \in gs : <<g[1], FALSE>> \in GroupID
          BY <4>2 DEF GroupID
        <5> QED
          BY <5>1, <5>2
      <4> QED
        BY <4>1, <4>2, PoolAssumption
    <3> QED
      BY <3>1, <3>2
  <2>3. b \in BOOLEAN
    OBVIOUS
  <2>4. jobs' = [jobs EXCEPT ![j].op = "Unassigned", ![j].groups = M, ![j].ok = b]
    BY <2>1
  <2>5. upstream' \in SUBSET Group
    BY <2>1 DEF TypeOK
  <2> HIDE DEF M, b
  <2>6. jobs' \in [Job -> JobType]
    BY <1>2, <2>2, <2>3, <2>4 DEF TypeOK, JobType
  <2> QED
    BY <1>4, <2>5, <2>6 DEF TypeOK, DeleteIPV4Resource, poolVars, handlerVars, podVars, initVars
<1>5. CASE UpdatePool(j)
  <2>1. jobs[j].count * PerGroup \in Int /\ jobs[j].ok \in BOOLEAN
    BY <1>1, <1>2 DEF JobType
  <2>2. warmResources' \in [Resource -> Nat]
    BY <1>5 DEF TypeOK, UpdatePool, withGroupsOf
  <2>3. pendingCreate' \in Int /\ pendingDelete' \in Int
    BY <1>5, <2>1 DEF TypeOK, UpdatePool
  <2>4. reSyncRequired' \in BOOLEAN
    BY <1>5, <2>1 DEF TypeOK, UpdatePool
  <2>5. jobs' \in [Job -> JobType]
    BY <1>5, NoJobType DEF TypeOK, UpdatePool
  <2> QED
    BY <1>5, <2>2, <2>3, <2>4, <2>5 DEF TypeOK, UpdatePool, handlerVars, podVars, initVars
<1>6. CASE ReSyncFetch(j)
  <2>1. Masked(upstream) \in SUBSET GroupID
    BY <1>1 DEF TypeOK
  <2>2. CASE jobs' = [jobs EXCEPT ![j].op = "Fetched", ![j].groups = Masked(upstream)]
    <3>1. jobs' \in [Job -> JobType]
      BY <1>2, <2>1, <2>2 DEF TypeOK, JobType
    <3> QED
      BY <1>6, <3>1 DEF TypeOK, ReSyncFetch, poolVars, handlerVars, podVars, initVars
  <2>3. CASE jobs' = [jobs EXCEPT ![j] = NoJob]
    <3>1. jobs' \in [Job -> JobType]
      BY <2>3, NoJobType DEF TypeOK
    <3> QED
      BY <1>6, <3>1 DEF TypeOK, ReSyncFetch, poolVars, handlerVars, podVars, initVars
  <2> QED
    BY <1>6, <2>2, <2>3 DEF ReSyncFetch
<1>7. CASE ReSync(j)
  <2> DEFINE listed == ResourcesOf(jobs[j].groups)
             I == {i \in DOMAIN coolDownQueue : coolDownQueue[i].res \in listed}
             Q == [res : Resource, age : Age]
  <2>1. \A s \in subsequencesAt(coolDownQueue, I) : s \in Seq(Q)
    <3> TAKE s \in subsequencesAt(coolDownQueue, I)
    <3> DEFINE n == Cardinality(I)
    <3>1. PICK f \in [1 .. n -> I] : s = [k \in 1 .. n |-> coolDownQueue[f[k]]]
      BY DEF subsequencesAt
    <3>2. n \in Nat
      BY PositionsType
    <3>3. \A i \in I : coolDownQueue[i] \in Q
      <4>1. coolDownQueue \in Seq(Q) /\ I \subseteq DOMAIN coolDownQueue
        BY DEF TypeOK
      <4>2. DOMAIN coolDownQueue = 1 .. Len(coolDownQueue)
        BY <4>1, LenProperties
      <4> HIDE DEF I, Q
      <4> QED
        BY <4>1, <4>2, ElementOfSeq
    <3> HIDE DEF n, I, Q
    <3>4. s \in [1 .. n -> Q]
      BY <3>1, <3>3
    <3> QED
      BY <3>2, <3>4, SeqDef
  <2>2. /\ reSyncRequired' \in BOOLEAN
        /\ warmResources' \in [Resource -> Nat]
        /\ coolDownQueue' \in Seq(Q)
    <3>1. CASE ~reSyncRequired /\ UNCHANGED <<reSyncRequired, warmResources, coolDownQueue>>
      BY <3>1 DEF TypeOK
    <3>2. CASE reSyncRequired
      <4>1. reSyncRequired' = FALSE /\ coolDownQueue' \in subsequencesAt(coolDownQueue, I)
        BY <1>7, <3>2 DEF ReSync, applyListing
      <4>2. warmResources' \in [Resource -> Nat]
        <5> DEFINE cooling == {coolDownQueue[i].res : i \in DOMAIN coolDownQueue}
                   local == {usedResources[p] : p \in Used} \cup cooling \cup {r \in Resource : warmResources[r] > 0}
        <5>1. warmResources' = [r \in Resource |-> IF r \in listed \ local THEN 1
                                                  ELSE IF r \in local \ listed THEN 0 ELSE warmResources[r]]
          BY <1>7, <3>2 DEF ReSync, applyListing
        <5>2. warmResources \in [Resource -> Nat]
          BY DEF TypeOK
        <5> HIDE DEF local, listed
        <5> QED
          BY <5>1, <5>2
      <4>3. reSyncRequired' \in BOOLEAN
        BY <4>1
      <4>4. coolDownQueue' \in Seq(Q)
        BY <2>1, <4>1, Zenon
      <4> QED
        BY <4>2, <4>3, <4>4
    <3> QED
      BY <1>7, <3>1, <3>2 DEF ReSync
  <2>3. jobs' \in [Job -> JobType]
    <3>1. \A k \in Job : [jobs[k] EXCEPT !.ok = FALSE] \in JobType
      BY DEF TypeOK, JobType
    <3>2. CASE ~reSyncRequired
      BY <1>7, <3>2, NoJobType DEF TypeOK, ReSync
    <3>3. CASE reSyncRequired
      BY <1>7, <3>1, <3>3, NoJobType DEF TypeOK, ReSync, reSyncDone
    <3> QED
      BY <3>2, <3>3
  <2>4. outdated' \in BOOLEAN
    BY <1>7 DEF TypeOK, ReSync
  <2> QED
    BY <1>7, <2>2, <2>3, <2>4 DEF TypeOK, ReSync, handlerVars, podVars
<1> QED
  BY <1>3, <1>4, <1>5, <1>6, <1>7 DEF JobStep

\* A typed state has typed successors, whatever the environment does.
LEMMA NextType == TypeOK /\ [Next]_vars => TypeOK'
<1> SUFFICES ASSUME TypeOK, [Next]_vars PROVE TypeOK'
  OBVIOUS
<1>1. ASSUME NEW p \in Pod,
             \/ PodScheduled(p) \/ HandleCreate(p) \/ HandlerStep(p)
             \/ \E phase \in {"completed", "gone"} : PodStops(p, phase) \/ HandleDelete(p, phase)
      PROVE  TypeOK'
  BY <1>1, PodType
<1>2. ASSUME NEW j \in Job, JobStep(j) PROVE TypeOK'
  BY <1>2, JobStepType
<1>3. CASE ReconcilePool
  BY <1>3, ReconcileType
<1>4. CASE ProcessCoolDownQueue
  BY <1>4, CoolDownType
<1>5. CASE SetConfig
  <2>1. draining' \in BOOLEAN
    BY <1>5 DEF SetConfig
  <2> QED
    BY <1>5, <2>1 DEF TypeOK, SetConfig, poolVars, handlerVars, podVars, initVars
<1>6. CASE InitResource
  BY <1>6 DEF TypeOK, InitResource, poolVars, handlerVars, podVars
<1>7. CASE PutPool
  <2> DEFINE present == ResourcesOf(Masked(upstream))
             used(p) == IF p \in initPods /\ annotation[p] \in present THEN annotation[p] ELSE NoResource
  <2>1. \A p \in Pod : used(p) \in Resource \cup {NoResource}
    BY DEF TypeOK
  <2>2. /\ usedResources' \in [Pod -> Resource \cup {NoResource}]
        /\ warmResources' \in [Resource -> Nat]
    BY <1>7, <2>1 DEF PutPool
  <2> QED
    BY <1>7, <2>2 DEF TypeOK, PutPool, handlerVars, podVars
<1>8. CASE Crash
  <2>1. crashes' \in 0 .. MaxCrashes
    BY <1>8, PoolAssumption DEF TypeOK, Crash
  <2>2. /\ usedResources' \in [Pod -> Resource \cup {NoResource}]
        /\ resID' \in [Pod -> Resource \cup {NoResource}]
        /\ handlerPc' \in [Pod -> {"none", "assign", "annotate"}]
        /\ warmResources' \in [Resource -> Nat]
    BY <1>8 DEF Crash, NoneWarm
  <2>3. jobs' \in [Job -> JobType]
    BY <1>8, NoJobType DEF Crash
  <2>4. deleteEvents' \in SUBSET PodEvent
    BY <1>8 DEF Crash, PodEvent
  <2>5. coolDownQueue' \in Seq([res : Resource, age : Age])
    BY <1>8 DEF Crash
  <2>6. reSyncRequired' \in BOOLEAN
    BY <1>8 DEF Crash
  <2> QED
    BY <1>8, <2>1, <2>2, <2>3, <2>4, <2>5, <2>6 DEF TypeOK, Crash, podVars
<1>9. CASE Tick
  <2>1. \A a \in Age : older(a) \in Age
    BY PoolAssumption DEF Age, older, atMost
  <2>2. stoppedFor' \in [Pod -> Age \cup {NoTime}]
    BY <1>9, <2>1 DEF TypeOK, Tick
  <2> DEFINE Q == [res : Resource, age : Age]
             aged(i) == [coolDownQueue[i] EXCEPT !.age = older(@)]
  <2>3. /\ Len(coolDownQueue) \in Nat /\ DOMAIN coolDownQueue = 1 .. Len(coolDownQueue)
        /\ \A i \in 1 .. Len(coolDownQueue) : coolDownQueue[i] \in Q
    BY LenProperties, ElementOfSeq DEF TypeOK
  <2>4. \A i \in 1 .. Len(coolDownQueue) : aged(i) \in Q
    BY <2>1, <2>3
  <2>5. coolDownQueue' = [i \in 1 .. Len(coolDownQueue) |-> aged(i)]
    BY <1>9, <2>3 DEF Tick
  <2>6. coolDownQueue' \in Seq(Q)
    <3> HIDE DEF aged, Q
    <3>1. coolDownQueue' \in [1 .. Len(coolDownQueue) -> Q]
      BY <2>4, <2>5
    <3> QED
      BY <2>3, <3>1, SeqDef
  <2> QED
    BY <1>9, <2>2, <2>6 DEF TypeOK, Tick, handlerVars, initVars
<1>10. CASE UNCHANGED vars
  BY <1>10 DEF TypeOK, vars, poolVars, handlerVars, podVars, initVars
<1> QED
  BY <1>1, <1>2, <1>3, <1>4, <1>5, <1>6, <1>7, <1>8, <1>9, <1>10 DEF Next

\* The pool, its jobs and handlers and the records of the API server and EC2 keep
\* their types; in particular no group's list is ever taken from when empty.
THEOREM TypeCorrect == Spec => []TypeOK
  BY InitType, NextType, PTL DEF Spec
=============================================================================
