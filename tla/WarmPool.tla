------------------------------ MODULE WarmPool ------------------------------
(***************************************************************************)
(* The warm pool of IPv4 addresses of one Windows node: the pool itself,   *)
(* the asynchronous jobs that create, delete and re-synchronize its        *)
(* resources with EC2, and the handler that gives them to pods.            *)
(*                                                                         *)
(* Source: pkg/pool/pool.go, pkg/provider/ip, pkg/provider/prefix,         *)
(* pkg/handler/warm.go.  A resource belongs to a group, which is what EC2  *)
(* assigns: the address itself (secondary IPv4 addresses) or a /28 prefix. *)
(* Each action is one critical section of pool.lock or of eniManager.lock, *)
(* which is held through the EC2 calls of a job, or one API server call.   *)
(* ReconcilePool is a section of its own even where one function calls it  *)
(* right after another; as every event of the node leads to a call too, it *)
(* is enabled whenever there is a pool.                                    *)
(***************************************************************************)
EXTENDS Integers, FiniteSets, FiniteSetsExt, Sequences

CONSTANTS
  Pod,
  Group,                 \* secondary addresses or prefixes EC2 can assign
  NoResource,
  isPDPool,              \* prefix delegation, or secondary addresses
  NumIPv4AddrPerPrefix,  \* 16 in the code
  capacity,              \* resources the interface can hold, which EC2 enforces too
  WarmIPTarget, MinIPTarget, WarmPrefixTarget, MaxDeviation,
  CoolDownPeriod,        \* in ticks
  Job,                   \* bound: jobs in the work queue at any time
  MaxCrashes,            \* bound on controller restarts
  Faults                 \* what else the environment may do, a subset of AllFaults

AllFaults == {"UnassignFails", "SetConfig", "PodCompletes"}

PerGroup == IF isPDPool THEN NumIPv4AddrPerPrefix ELSE 1

ASSUME PoolAssumption ==
  /\ IsFiniteSet(Pod) /\ IsFiniteSet(Group) /\ IsFiniteSet(Job)
  /\ isPDPool \in BOOLEAN
  /\ NumIPv4AddrPerPrefix \in Nat \ {0}
  /\ capacity \in Nat /\ capacity % PerGroup = 0
  /\ WarmIPTarget \in Int /\ MinIPTarget \in Int /\ WarmPrefixTarget \in Int /\ MaxDeviation \in Nat
  /\ CoolDownPeriod \in Nat
  /\ MaxCrashes \in Nat
  /\ Faults \subseteq AllFaults

\* Group ids as the pool spells them: with the subnet mask, or stripped of it.
\* A prefix is always spelt in full.
GroupID == Group \X (IF isPDPool THEN {TRUE} ELSE BOOLEAN)
Masked(groups) == groups \X {TRUE}
Stripped(groups) == {<<g[1], FALSE>> : g \in groups}

Resource == Group \X (IF isPDPool THEN {TRUE} ELSE BOOLEAN) \X (1 .. PerGroup)
GroupOf(r) == <<r[1], r[2]>>
SameAddress(r, s) == r[1] = s[1] /\ r[3] = s[3]
ResourcesOf(groups) == {r \in Resource : GroupOf(r) \in groups}
ASSUME NoResourceAssumption == NoResource \notin Resource

VARIABLES
  \* The fields of pool.
  pool,            \* "down", "listed" (InitResource under way) or "up"
  usedResources,   \* pod -> its resource or NoResource
  warmResources,   \* resource -> how often the lists of its group hold it
  coolDownQueue,   \* sequence of [res, age]
  pendingCreate, pendingDelete,
  reSyncRequired,
  draining,        \* the warm pool config is empty
  \* Goroutines.
  jobs,              \* job slot -> the job
  handlerPc, resID,  \* HandleCreate, per pod
  deleteEvents,      \* pod events that HandleDelete has to process
  initPods,          \* InitResource: the running pods with an annotation
  \* The API server and EC2.
  podPhase, annotation,
  upstream,          \* the groups assigned to the instance
  \* History.
  stoppedFor,        \* pod -> ticks since it completed or was deleted
  outdated,          \* a superseded re-sync job applied a listing that no longer held
  crashes

poolVars == <<usedResources, warmResources, coolDownQueue, pendingCreate, pendingDelete,
              reSyncRequired>>
handlerVars == <<handlerPc, resID>>
podVars == <<podPhase, annotation, stoppedFor>>
initVars == <<pool, initPods, outdated, crashes>>
vars == <<poolVars, draining, jobs, handlerVars, deleteEvents, podVars, upstream, initVars>>

NoTime == -1
Age == 0 .. CoolDownPeriod
\* For a re-sync, ok is history: no other one was applied since it was requested.
NoJob == [op |-> "none", count |-> 0, groups |-> {}, ok |-> TRUE]
JobType == [op : {"none", "Create", "Created", "Deleted", "Unassigned", "ReSync", "Fetched"},
            count : Int, groups : SUBSET GroupID, ok : BOOLEAN]
PodEvent == Pod \X {"completed", "gone"}

TypeOK ==
  /\ pool \in {"down", "listed", "up"}
  /\ usedResources \in [Pod -> Resource \cup {NoResource}]
  /\ warmResources \in [Resource -> Nat]
  /\ coolDownQueue \in Seq([res : Resource, age : Age])
  /\ pendingCreate \in Int /\ pendingDelete \in Int
  /\ reSyncRequired \in BOOLEAN /\ draining \in BOOLEAN
  /\ jobs \in [Job -> JobType]
  /\ handlerPc \in [Pod -> {"none", "assign", "annotate"}]
  /\ resID \in [Pod -> Resource \cup {NoResource}]
  /\ deleteEvents \in SUBSET PodEvent
  /\ initPods \in SUBSET Pod
  /\ podPhase \in [Pod -> {"absent", "running", "completed", "gone"}]
  /\ annotation \in [Pod -> Resource \cup {NoResource}]
  /\ upstream \in SUBSET Group
  /\ stoppedFor \in [Pod -> Age \cup {NoTime}]
  /\ outdated \in BOOLEAN
  /\ crashes \in 0 .. MaxCrashes

NoneWarm == [r \in Resource |-> 0]

Init ==
  /\ pool = "down"
  /\ usedResources = [p \in Pod |-> NoResource]
  /\ warmResources = NoneWarm
  /\ coolDownQueue = <<>>
  /\ pendingCreate = 0 /\ pendingDelete = 0
  /\ reSyncRequired = FALSE /\ draining = FALSE
  /\ jobs = [j \in Job |-> NoJob]
  /\ handlerPc = [p \in Pod |-> "none"]
  /\ resID = [p \in Pod |-> NoResource]
  /\ deleteEvents = {}
  /\ initPods = {}
  /\ podPhase = [p \in Pod |-> "absent"]
  /\ annotation = [p \in Pod |-> NoResource]
  /\ upstream = {}
  /\ stoppedFor = [p \in Pod |-> NoTime]
  /\ outdated = FALSE
  /\ crashes = 0

-----------------------------------------------------------------------------
(***************************************************************************)
(* Counting, and the desired size of the pool.                             *)
(***************************************************************************)
IPv4DefaultWinTarget == 3
IPv4PDDefaultWarmIPTargetSize == 1
IPv4PDDefaultMinIPTargetSize == 3

Used == {p \in Pod : usedResources[p] # NoResource}
numUsed == Cardinality(Used)
warmCopies(resources) == UNION {{r} \X (1 .. warmResources[r]) : r \in resources}
numWarmIn(g) == Cardinality(warmCopies(ResourcesOf({g})))
numWarm == Cardinality(warmCopies(Resource))
numCooling == Len(coolDownQueue)
unavailable == numUsed + numCooling + pendingCreate + pendingDelete
totalCreatedResources == numWarm + unavailable

\* Mutant: a group counts as free when one of its resources is warm.
freeGroupsPartly == {g \in GroupID : numWarmIn(g) > 0}

\* findFreeGroup: the groups all of whose resources are warm.
freeGroups == {g \in GroupID : numWarmIn(g) = PerGroup}

CeilDivision(n, d) == (n + d - 1) \div d
atLeast(n, low) == IF n < low THEN low ELSE n
atMost(n, high) == IF n > high THEN high ELSE n

\* calculateSecondaryIPDeviation: short of the warm or the minimum target, or
\* over the warm target without going below the minimum.
secondaryIPDeviation ==
  LET target(t) == IF draining THEN 0 ELSE IF t < 0 THEN IPv4DefaultWinTarget ELSE t
      available == numWarm + pendingCreate
      assigned == available + numUsed + numCooling
      short == atLeast(atLeast(target(WarmIPTarget) - available, 0), target(MinIPTarget) - assigned)
      over == atLeast(atMost(atLeast(available - target(WarmIPTarget), 0), assigned - target(MinIPTarget)), 0)
  IN  short - over

\* getPDDeviation: by the prefix target alone when only that one is set, else by
\* the prefixes that the larger of the two address targets takes.
PDDeviation ==
  LET warmSet == WarmIPTarget > 0
      minSet == MinIPTarget > 0
      prefixSet == WarmPrefixTarget > 0
      warmTarget == IF draining THEN 0 ELSE IF warmSet THEN WarmIPTarget ELSE IPv4PDDefaultWarmIPTargetSize
      minTarget == IF draining THEN 0 ELSE IF minSet THEN MinIPTarget ELSE IPv4PDDefaultMinIPTargetSize
      prefixes(n) == CeilDivision(n, NumIPv4AddrPerPrefix)
      wanted == atLeast(prefixes(numUsed + warmTarget), prefixes(minTarget))
      byAddress == wanted - prefixes(numUsed + pendingCreate + numWarm + numCooling)
      byPrefix == WarmPrefixTarget - Cardinality(freeGroups) - prefixes(pendingCreate)
      prefixDeviation == IF ~draining /\ ~warmSet /\ ~minSet /\ prefixSet THEN byPrefix
                         ELSE IF byAddress < 0 /\ freeGroups = {} THEN 0 ELSE byAddress
  IN  prefixDeviation * NumIPv4AddrPerPrefix

deviation == IF isPDPool THEN PDDeviation ELSE secondaryIPDeviation
maxDeviation == IF draining THEN 0 ELSE MaxDeviation

-----------------------------------------------------------------------------
(***************************************************************************)
(* The cluster.  A pod's completion and its deletion each reach            *)
(* HandleDelete, so that it may see a pod twice.                           *)
(***************************************************************************)
PodScheduled(p) ==
  /\ podPhase[p] = "absent"
  /\ podPhase' = [podPhase EXCEPT ![p] = "running"]
  /\ UNCHANGED <<poolVars, draining, jobs, handlerVars, deleteEvents, annotation, stoppedFor,
                 upstream, initVars>>

PodStops(p, phase) ==
  /\ podPhase[p] = "running" \/ (podPhase[p] = "completed" /\ phase = "gone")
  /\ phase = "completed" => "PodCompletes" \in Faults
  /\ podPhase' = [podPhase EXCEPT ![p] = phase]
  /\ stoppedFor' = [stoppedFor EXCEPT ![p] = IF @ = NoTime THEN 0 ELSE @]
  /\ deleteEvents' = deleteEvents \cup {<<p, phase>>}
  /\ UNCHANGED <<poolVars, draining, jobs, handlerVars, annotation, upstream, initVars>>

older(age) == atMost(age + 1, CoolDownPeriod)

Tick ==
  /\ coolDownQueue' = [i \in DOMAIN coolDownQueue |-> [coolDownQueue[i] EXCEPT !.age = older(@)]]
  /\ stoppedFor' = [p \in Pod |-> IF stoppedFor[p] = NoTime THEN NoTime ELSE older(stoppedFor[p])]
  /\ <<coolDownQueue, stoppedFor>>' # <<coolDownQueue, stoppedFor>>
  /\ UNCHANGED <<usedResources, warmResources, pendingCreate, pendingDelete, reSyncRequired, draining,
                 jobs, handlerVars, deleteEvents, podPhase, annotation, upstream, initVars>>

-----------------------------------------------------------------------------
(***************************************************************************)
(* The warm resource handler.                                              *)
(***************************************************************************)

\* HandleCreate starts, on an event of a pod that its cache shows as running and
\* not annotated yet.  The cache may lag behind the annotation.
HandleCreate(p) ==
  /\ pool = "up" /\ podPhase[p] = "running" /\ handlerPc[p] = "none"
  /\ handlerPc' = [handlerPc EXCEPT ![p] = "assign"]
  /\ UNCHANGED <<poolVars, draining, jobs, resID, deleteEvents, podVars, upstream, initVars>>

\* The three capacity tests of AssignResource.
atCapacity == capacity \in {numUsed, numUsed + numCooling, unavailable}

\* Mutant: the list of a group is not tested for being empty.
assignableUnchecked ==
  {r \in Resource : isPDPool => \A g \in GroupID : numWarmIn(GroupOf(r)) <= numWarmIn(g)}

\* The resources AssignResource may take: for prefixes from the group with the
\* fewest left.  Which one of a group comes first is left open.
assignable ==
  {r \in Resource :
     /\ warmResources[r] > 0
     /\ isPDPool => \A g \in GroupID : numWarmIn(g) > 0 => numWarmIn(GroupOf(r)) <= numWarmIn(g)}

\* AssignResource fails: the event is retried later.
AssignResourceFails(p) ==
  /\ handlerPc[p] = "assign"
  /\ usedResources[p] # NoResource \/ atCapacity \/ assignable = {}
  /\ handlerPc' = [handlerPc EXCEPT ![p] = "none"]
  /\ UNCHANGED <<poolVars, draining, jobs, resID, deleteEvents, podVars, upstream, initVars>>

\* Mutant: the resource is handed out but stays in the list of its group.
AssignResourceKeeping(p) ==
  /\ handlerPc[p] = "assign" /\ usedResources[p] = NoResource /\ ~atCapacity
  /\ \E r \in assignable :
       /\ usedResources' = [usedResources EXCEPT ![p] = r]
       /\ resID' = [resID EXCEPT ![p] = r]
  /\ handlerPc' = [handlerPc EXCEPT ![p] = "annotate"]
  /\ UNCHANGED <<warmResources, coolDownQueue, pendingCreate, pendingDelete, reSyncRequired, draining,
                 jobs, deleteEvents, podVars, upstream, initVars>>

AssignResource(p) ==
  /\ handlerPc[p] = "assign" /\ usedResources[p] = NoResource /\ ~atCapacity
  /\ \E r \in assignable :
       /\ warmResources' = [warmResources EXCEPT ![r] = @ - 1]
       /\ usedResources' = [usedResources EXCEPT ![p] = r]
       /\ resID' = [resID EXCEPT ![p] = r]
  /\ handlerPc' = [handlerPc EXCEPT ![p] = "annotate"]
  /\ UNCHANGED <<coolDownQueue, pendingCreate, pendingDelete, reSyncRequired, draining,
                 jobs, deleteEvents, podVars, upstream, initVars>>

handlerDone(p) ==
  /\ handlerPc' = [handlerPc EXCEPT ![p] = "none"]
  /\ resID' = [resID EXCEPT ![p] = NoResource]

AnnotatePod(p) ==
  /\ handlerPc[p] = "annotate" /\ podPhase[p] \in {"running", "completed"}
  /\ annotation' = [annotation EXCEPT ![p] = resID[p]]
  /\ handlerDone(p)
  /\ UNCHANGED <<poolVars, draining, jobs, deleteEvents, podPhase, stoppedFor, upstream, initVars>>

\* Mutant: a freed resource goes straight back to the warm pool.
FreeResourceToWarm(p, r) ==
  /\ usedResources' = [usedResources EXCEPT ![p] = NoResource]
  /\ warmResources' = [warmResources EXCEPT ![r] = @ + 1]
  /\ UNCHANGED coolDownQueue

\* FreeResource by the owner.
FreeResource(p, r) ==
  /\ usedResources' = [usedResources EXCEPT ![p] = NoResource]
  /\ coolDownQueue' = Append(coolDownQueue, [res |-> r, age |-> 0])
  /\ UNCHANGED warmResources

\* Mutant: FreeResource does not look who owns the resource.
ownsUnchecked(p, r) == r # NoResource

owns(p, r) == r # NoResource /\ usedResources[p] = r

\* Mutant: the resource is not freed when the pod cannot be annotated.
AnnotatePodFailsKeeping(p) ==
  /\ handlerPc[p] = "annotate"
  /\ handlerDone(p)
  /\ UNCHANGED <<poolVars, draining, jobs, deleteEvents, podVars, upstream, initVars>>

\* The patch is refused, as it is once the pod is gone; the resource is freed
\* unless HandleDelete was faster.
AnnotatePodFails(p) ==
  /\ handlerPc[p] = "annotate"
  /\ \/ owns(p, resID[p]) /\ FreeResource(p, resID[p])
     \/ ~owns(p, resID[p]) /\ UNCHANGED <<usedResources, coolDownQueue, warmResources>>
  /\ handlerDone(p)
  /\ UNCHANGED <<pendingCreate, pendingDelete, reSyncRequired, draining, jobs, deleteEvents, podVars,
                 upstream, initVars>>

\* HandleDelete frees what the annotation names or, without one, what the pod
\* owns.  The completion of a pod is an event of the same key as its creation:
\* it waits for a running HandleCreate, and for the node to be initialized.  The
\* deletion of a pod waits for neither.
HandleDelete(p, phase) ==
  LET r == IF annotation[p] # NoResource THEN annotation[p] ELSE usedResources[p]
  IN  /\ <<p, phase>> \in deleteEvents
      /\ phase = "completed" => pool = "up" /\ handlerPc[p] = "none"
      /\ deleteEvents' = deleteEvents \ {<<p, phase>>}
      /\ \/ pool = "up" /\ owns(p, r) /\ FreeResource(p, r)
         \/ ~(pool = "up" /\ owns(p, r)) /\ UNCHANGED <<usedResources, coolDownQueue, warmResources>>
      /\ UNCHANGED <<pendingCreate, pendingDelete, reSyncRequired, draining, jobs, handlerVars, podVars,
                     upstream, initVars>>

-----------------------------------------------------------------------------
(***************************************************************************)
(* ReconcilePool, with the submission of the job it returns.               *)
(***************************************************************************)
submit(job) ==
  \E j \in Job : jobs[j] = NoJob /\ jobs' = [jobs EXCEPT ![j] = job]

\* The tests before any job: in sync, and not everything taken or under way.
mayGrowOrShrink == pool = "up" /\ ~reSyncRequired /\ unavailable # capacity

canCreateUpto == capacity - totalCreatedResources

\* One more re-sync job at every call, until one of them is applied.
RequestReSync ==
  /\ pool = "up" /\ reSyncRequired /\ pendingCreate = 0 /\ pendingDelete = 0
  /\ submit([NoJob EXCEPT !.op = "ReSync"])
  /\ UNCHANGED <<poolVars, draining, handlerVars, deleteEvents, podVars, upstream, initVars>>

\* Mutant: what is under way is not counted as pending.
RequestCreateUncounted ==
  /\ mayGrowOrShrink
  /\ deviation > maxDeviation /\ canCreateUpto # 0
  /\ submit([NoJob EXCEPT !.op = "Create", !.count = atMost(deviation, canCreateUpto) \div PerGroup])
  /\ UNCHANGED <<poolVars, draining, handlerVars, deleteEvents, podVars, upstream, initVars>>

RequestCreate ==
  /\ mayGrowOrShrink
  /\ deviation > maxDeviation /\ canCreateUpto # 0
  /\ LET n == atMost(deviation, canCreateUpto)
     IN  /\ pendingCreate' = pendingCreate + n
         /\ submit([NoJob EXCEPT !.op = "Create", !.count = n \div PerGroup])
  /\ UNCHANGED <<usedResources, warmResources, coolDownQueue, pendingDelete, reSyncRequired, draining,
                 handlerVars, deleteEvents, podVars, upstream, initVars>>

\* Free groups, in no particular order, until the deviation is made up for.
RequestDelete ==
  /\ mayGrowOrShrink
  /\ -deviation > maxDeviation /\ freeGroups # {}
  /\ \E gs \in kSubset(atMost(CeilDivision(-deviation, PerGroup), Cardinality(freeGroups)), freeGroups) :
       /\ warmResources' = [r \in Resource |-> IF GroupOf(r) \in gs THEN 0 ELSE warmResources[r]]
       /\ pendingDelete' = pendingDelete + Cardinality(gs) * PerGroup
       /\ submit([NoJob EXCEPT !.op = "Deleted", !.count = Cardinality(gs), !.groups = gs])
  /\ UNCHANGED <<usedResources, coolDownQueue, pendingCreate, reSyncRequired, draining,
                 handlerVars, deleteEvents, podVars, upstream, initVars>>

\* In all other cases the job it returns is OperationReconcileNotRequired.
ReconcilePool == RequestReSync \/ RequestCreate \/ RequestDelete

\* SetToDraining and SetToActive, when prefix delegation is switched.
SetConfig ==
  /\ pool = "up" /\ "SetConfig" \in Faults
  /\ draining' = ~draining
  /\ UNCHANGED <<poolVars, jobs, handlerVars, deleteEvents, podVars, upstream, initVars>>

\* ProcessDeleteQueue: the resources at the front of the queue that have cooled
\* down become warm again.
ProcessCoolDownQueue ==
  LET n == Cardinality({i \in DOMAIN coolDownQueue :
                          \A k \in 1 .. i : coolDownQueue[k].age >= CoolDownPeriod})
  IN  /\ pool = "up"
      /\ warmResources' = [r \in Resource |->
           warmResources[r] + Cardinality({i \in 1 .. n : coolDownQueue[i].res = r})]
      /\ coolDownQueue' = SubSeq(coolDownQueue, n + 1, Len(coolDownQueue))
      /\ UNCHANGED <<usedResources, pendingCreate, pendingDelete, reSyncRequired, draining, jobs,
                     handlerVars, deleteEvents, podVars, upstream, initVars>>

-----------------------------------------------------------------------------
(***************************************************************************)
(* The jobs.  eniManager.lock makes the EC2 calls of a job one step; the   *)
(* pool learns of them in a second step.                                   *)
(***************************************************************************)

\* CreateIPV4Resource: EC2 assigns some of the groups asked for, within its
\* limit, and the manager returns some of these.  All of them is success; so
\* is, for the pool, that the subnet has no prefix left (not retryable).
CreateIPV4Resource(j) ==
  /\ jobs[j].op = "Create"
  /\ \E made \in SUBSET (Group \ upstream) : \E got \in SUBSET made :
       /\ Cardinality(made) <= jobs[j].count
       /\ Cardinality(upstream \cup made) * PerGroup <= capacity
       /\ upstream' = upstream \cup made
       /\ \/ /\ jobs' = [jobs EXCEPT ![j].op = "Created", ![j].groups = Masked(got),
                                     ![j].ok = Cardinality(got) >= jobs[j].count]
          \/ /\ isPDPool /\ made = {} /\ jobs[j].count > 0
             /\ jobs' = [jobs EXCEPT ![j].op = "Created"]
  /\ UNCHANGED <<poolVars, draining, handlerVars, deleteEvents, podVars, initVars>>

\* How DeleteIPV4Resource names the groups it could not unassign: the mask of
\* an address was stripped for EC2 and is not put back.
returnedNames(groups) == IF isPDPool THEN groups ELSE Stripped(groups)

\* DeleteIPV4Resource: EC2 refuses what is not assigned, and may refuse more.
DeleteIPV4Resource(j) ==
  LET known == {g \in jobs[j].groups : g[1] \in upstream}
  IN  /\ jobs[j].op = "Deleted"
      /\ \E done \in SUBSET known :
           /\ done # known => "UnassignFails" \in Faults
           /\ upstream' = upstream \ {g[1] : g \in done}
           /\ jobs' = [jobs EXCEPT ![j].op = "Unassigned",
                                   ![j].groups = returnedNames(jobs[j].groups \ done),
                                   ![j].ok = done = jobs[j].groups]
      /\ UNCHANGED <<poolVars, draining, handlerVars, deleteEvents, podVars, initVars>>

withGroupsOf(j) == [r \in Resource |-> warmResources[r] + IF GroupOf(r) \in jobs[j].groups THEN 1 ELSE 0]

\* Mutant: pendingCreate is settled with what was created, not with what was asked for.
UpdatePoolByResult(j) ==
  /\ jobs[j].op \in {"Created", "Unassigned"}
  /\ warmResources' = withGroupsOf(j)
  /\ reSyncRequired' = (reSyncRequired \/ ~jobs[j].ok)
  /\ \/ /\ jobs[j].op = "Created"
        /\ pendingCreate' = pendingCreate - Cardinality(jobs[j].groups) * PerGroup
        /\ UNCHANGED pendingDelete
     \/ /\ jobs[j].op = "Unassigned"
        /\ pendingDelete' = pendingDelete - jobs[j].count * PerGroup
        /\ UNCHANGED pendingCreate
  /\ jobs' = [jobs EXCEPT ![j] = NoJob]
  /\ UNCHANGED <<usedResources, coolDownQueue, draining, handlerVars, deleteEvents, podVars, upstream, initVars>>

\* UpdatePool: what was created, or could not be deleted, becomes warm; a failed
\* job asks for a re-sync.
UpdatePool(j) ==
  /\ jobs[j].op \in {"Created", "Unassigned"}
  /\ warmResources' = withGroupsOf(j)
  /\ reSyncRequired' = (reSyncRequired \/ ~jobs[j].ok)
  /\ \/ /\ jobs[j].op = "Created"
        /\ pendingCreate' = pendingCreate - jobs[j].count * PerGroup
        /\ UNCHANGED pendingDelete
     \/ /\ jobs[j].op = "Unassigned"
        /\ pendingDelete' = pendingDelete - jobs[j].count * PerGroup
        /\ UNCHANGED pendingCreate
  /\ jobs' = [jobs EXCEPT ![j] = NoJob]
  /\ UNCHANGED <<usedResources, coolDownQueue, draining, handlerVars, deleteEvents, podVars, upstream, initVars>>

\* ReSyncPool: the instance's groups are listed, or the job is dropped.
ReSyncFetch(j) ==
  /\ jobs[j].op = "ReSync"
  /\ jobs' \in {[jobs EXCEPT ![j].op = "Fetched", ![j].groups = Masked(upstream)], [jobs EXCEPT ![j] = NoJob]}
  /\ UNCHANGED <<poolVars, draining, handlerVars, deleteEvents, podVars, upstream, initVars>>

\* The subsequence of s at the positions I, as the only element of a set.
subsequencesAt(s, I) ==
  LET n == Cardinality(I)
      increasing == {f \in [1 .. n -> I] : \A a, b \in 1 .. n : a < b => f[a] < f[b]}
  IN  {[k \in 1 .. n |-> s[f[k]]] : f \in increasing}

\* Resources only EC2 has become warm, resources only the pool has leave the warm
\* pool and the cool-down queue.  Used resources are left alone.
applyListing(groups) ==
  LET listed == ResourcesOf(groups)
      cooling == {coolDownQueue[i].res : i \in DOMAIN coolDownQueue}
      local == {usedResources[p] : p \in Used} \cup cooling \cup {r \in Resource : warmResources[r] > 0}
  IN  /\ warmResources' = [r \in Resource |-> IF r \in listed \ local THEN 1
                                              ELSE IF r \in local \ listed THEN 0 ELSE warmResources[r]]
      /\ coolDownQueue' \in subsequencesAt(coolDownQueue, {i \in DOMAIN coolDownQueue : coolDownQueue[i].res \in listed})

\* No job has changed, or may still change, what the re-sync job was told.
listingHolds(j) == pendingCreate = 0 /\ pendingDelete = 0 /\ jobs[j].groups = Masked(upstream)

\* The job is over; the other re-sync jobs are superseded by it.
reSyncDone(j) ==
  jobs' = [k \in Job |-> IF k = j THEN NoJob
                         ELSE IF jobs[k].op \in {"ReSync", "Fetched"} THEN [jobs[k] EXCEPT !.ok = FALSE]
                         ELSE jobs[k]]

\* Mutant: a listing is applied whether or not a re-sync is still required.
ReSyncAlways(j) ==
  /\ jobs[j].op = "Fetched"
  /\ reSyncRequired' = FALSE
  /\ applyListing(jobs[j].groups)
  /\ reSyncDone(j)
  /\ UNCHANGED <<usedResources, pendingCreate, pendingDelete, draining, handlerVars, deleteEvents,
                 podVars, upstream, initVars>>

\* ReSync applies the listing, or ignores it when another re-sync job was faster.
\* It cannot tell that a re-sync is required again, for another reason.
ReSync(j) ==
  /\ jobs[j].op = "Fetched"
  /\ \/ /\ reSyncRequired
        /\ reSyncRequired' = FALSE
        /\ outdated' = (outdated \/ (~jobs[j].ok /\ ~listingHolds(j)))
        /\ applyListing(jobs[j].groups)
        /\ reSyncDone(j)
     \/ /\ ~reSyncRequired
        /\ jobs' = [jobs EXCEPT ![j] = NoJob]
        /\ UNCHANGED <<reSyncRequired, warmResources, coolDownQueue, outdated>>
  /\ UNCHANGED <<usedResources, pendingCreate, pendingDelete, draining, handlerVars, deleteEvents,
                 podVars, upstream, pool, initPods, crashes>>

-----------------------------------------------------------------------------
(***************************************************************************)
(* Start and restart of the controller.                                    *)
(***************************************************************************)

\* InitResource lists the instance's groups (no job is under way to change them)
\* and the running pods; an initialization that fails is retried from here.
InitResource ==
  /\ pool \in {"down", "listed"}
  /\ pool' = "listed"
  /\ initPods' = {p \in Pod : podPhase[p] = "running"}
  /\ UNCHANGED <<poolVars, draining, jobs, handlerVars, deleteEvents, podVars, upstream, outdated, crashes>>

\* The pods' annotations tell used from warm; the pool becomes visible.
PutPool ==
  LET present == ResourcesOf(Masked(upstream))
      used(p) == IF p \in initPods /\ annotation[p] \in present THEN annotation[p] ELSE NoResource
  IN  /\ pool = "listed"
      /\ pool' = "up" /\ initPods' = {}
      /\ usedResources' = [p \in Pod |-> used(p)]
      /\ warmResources' = [r \in Resource |-> IF r \in present \ {used(p) : p \in Pod} THEN 1 ELSE 0]
      /\ UNCHANGED <<coolDownQueue, pendingCreate, pendingDelete, reSyncRequired, draining, jobs,
                     handlerVars, deleteEvents, podVars, upstream, outdated, crashes>>

\* The process dies with its pool, jobs and handlers.  Its successor is told of
\* the pods that exist, the completed ones included.
Crash ==
  /\ pool = "up" /\ crashes < MaxCrashes
  /\ crashes' = crashes + 1
  /\ pool' = "down"
  /\ usedResources' = [p \in Pod |-> NoResource]
  /\ warmResources' = NoneWarm
  /\ coolDownQueue' = <<>>
  /\ pendingCreate' = 0 /\ pendingDelete' = 0
  /\ reSyncRequired' = FALSE
  /\ jobs' = [j \in Job |-> NoJob]
  /\ handlerPc' = [p \in Pod |-> "none"]
  /\ resID' = [p \in Pod |-> NoResource]
  /\ deleteEvents' = {<<p, "completed">> : p \in {q \in Pod : podPhase[q] = "completed"}}
  /\ UNCHANGED <<draining, initPods, podVars, upstream, outdated>>

-----------------------------------------------------------------------------
HandlerStep(p) == AssignResource(p) \/ AssignResourceFails(p) \/ AnnotatePod(p) \/ AnnotatePodFails(p)

JobStep(j) ==
  \/ CreateIPV4Resource(j) \/ DeleteIPV4Resource(j) \/ UpdatePool(j)
  \/ ReSyncFetch(j) \/ ReSync(j)

Next ==
  \/ \E p \in Pod :
       \/ PodScheduled(p) \/ HandleCreate(p) \/ HandlerStep(p)
       \/ \E phase \in {"completed", "gone"} : PodStops(p, phase) \/ HandleDelete(p, phase)
  \/ \E j \in Job : JobStep(j)
  \/ ReconcilePool \/ ProcessCoolDownQueue \/ SetConfig
  \/ InitResource \/ PutPool \/ Crash
  \/ Tick

Spec == Init /\ [][Next]_vars

(***************************************************************************)
(* The worker pool runs the jobs it holds, the pod controller its events,  *)
(* the delete-queue job requeues itself after every cool-down period, and  *)
(* time passes.  No call is assumed to succeed.                            *)
(***************************************************************************)
Fairness ==
  /\ \A p \in Pod : WF_vars(HandlerStep(p)) /\ WF_vars(HandleDelete(p, "completed")) /\ WF_vars(HandleDelete(p, "gone"))
  /\ \A j \in Job : WF_vars(JobStep(j))
  /\ WF_vars(ReconcilePool) /\ WF_vars(ProcessCoolDownQueue)
  /\ WF_vars(InitResource) /\ WF_vars(PutPool)
  /\ WF_vars(Tick)

FairSpec == Spec /\ Fairness

-----------------------------------------------------------------------------
(***************************************************************************)
(* Properties.                                                             *)
(***************************************************************************)

\* Where an address is, counted with its multiplicity in the pool and the jobs.
holders(a) ==
  LET sameAs(r) == r # NoResource /\ SameAddress(r, a)
  IN  Cardinality({p \in Pod : sameAs(usedResources[p])})
      + Cardinality({i \in DOMAIN coolDownQueue : sameAs(coolDownQueue[i].res)})
      + Cardinality(warmCopies({r \in Resource : sameAs(r)}))
      + Cardinality({j \in Job : jobs[j].op \in {"Created", "Deleted", "Unassigned"}
                                 /\ \E g \in jobs[j].groups : g[1] = a[1]})

\* No address is twice in the used, warm and cooling resources and the results
\* of jobs: whatever order answers, failures and restarts come in, the pool
\* never offers an address that is taken.  Like the next three, it is promised
\* until a superseded re-sync job applies a listing that no longer holds.
AddressExclusive == ~outdated => \A a \in Resource : holders(a) <= 1

\* An address announced to one pod is given to another only after the first has
\* been stopped for the cool-down period (which a restart of the controller
\* forgets), and never while it runs.
NoEarlyReuse ==
  ~outdated =>
    \A p, q \in Pod :
      /\ p # q
      /\ annotation[p] # NoResource /\ usedResources[q] # NoResource
      /\ SameAddress(annotation[p], usedResources[q])
      => stoppedFor[p] # NoTime /\ (stoppedFor[p] >= CoolDownPeriod \/ crashes > 0)

\* What a running pod was told to use is assigned to its node: neither a deletion
\* nor a re-sync, of which several may be under way, takes it for unused or
\* brings back what was given up.
AnnouncedExists ==
  ~outdated =>
    \A p \in Pod :
      podPhase[p] = "running" /\ annotation[p] # NoResource => annotation[p][1] \in upstream

pendingOf(ops) ==
  Cardinality(UNION {{j} \X (1 .. jobs[j].count * PerGroup) : j \in {i \in Job : jobs[i].op \in ops}})

\* The pending counters are what the jobs under way will settle, so that the
\* tests for zero and for full capacity mean what they say; and the pool never
\* outgrows the interface, although it tests the capacity with equality only.
PendingAccounted ==
  ~outdated =>
    /\ pendingCreate = pendingOf({"Create", "Created"})
    /\ pendingDelete = pendingOf({"Deleted", "Unassigned"})
    /\ totalCreatedResources <= capacity

isCooling(r) == \E i \in DOMAIN coolDownQueue : coolDownQueue[i].res = r

\* Whatever the handlers of its creation and its deletion do to one another, a
\* deleted pod's resource neither stays used nor stays in the cool-down queue.
StoppedPodReleased ==
  \A p \in Pod, r \in Resource :
    podPhase[p] = "gone" /\ usedResources[p] = r ~> usedResources[p] # r /\ ~isCooling(r)
=============================================================================
