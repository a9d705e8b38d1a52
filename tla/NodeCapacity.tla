---------------------------- MODULE NodeCapacity ----------------------------
(***************************************************************************)
(* What one instance can carry: the device indexes, the subnet and the     *)
(* capacity of a node, for every instance type of the limits table.        *)
(*                                                                         *)
(* Source: pkg/aws/ec2/instance.go, the part of InitTrunk that attaches    *)
(* the trunk, canCreateMore and assignVlanId (pkg/provider/branch/trunk),  *)
(* UpdateResourceCapacity of the three providers, UpdateResources of       *)
(* pkg/node/node.go and AdvertiseCapacityIfNotSet of pkg/k8s/wrapper.go.   *)
(*                                                                         *)
(* A Linux node attaches one trunk and advertises branch interfaces; a     *)
(* Windows node advertises addresses, from secondary addresses or, while   *)
(* prefix delegation is on and the instance is nitro, from prefixes.       *)
(***************************************************************************)
EXTENDS Integers, FiniteSets, FiniteSetsExt, Limits

CONSTANTS
  Workers,       \* workers of the branch provider, which all of its jobs share
  EniCount,      \* the most branch interfaces one pod asks for
  MaxEvents,     \* bound on the changes around the node
  MaxFailures    \* bound on the failing calls

ASSUME CapacityAssumption ==
  /\ MaxEvents \in Nat /\ MaxFailures \in Nat
  /\ Workers \in Nat \ {0} /\ EniCount \in Nat \ {0}

MaxAllocatableVlanIds == 121
NumIPv4AddrPerPrefix == 16
None == -1

VARIABLES
  \* The instance and EC2.
  type, os,
  attached,        \* <<network card, device index>> of the attached interfaces
  trunkIndex,      \* the device index of the attached trunk, None without one
  \* The trunk's branch interfaces, counted.
  branches,        \* those its cache holds
  deleting,        \* those in its delete queue
  popped,          \* 1 while the delete worker has one in hand, in neither of them
  creating,        \* creations that canCreateMore admitted, under way
  fresh,           \* the ids, with their interfaces, that those creations hold
  used,            \* the VLAN ids marked as used, id 0 among them
  \* The instance object.
  status,          \* "new", "loaded", "attaching", "ready" or "panicked"
  deviceIndexes,   \* the indexes marked as used
  freeIndex,       \* the index InitTrunk picked
  spec,            \* the custom networking spec the node manager stored
  current,         \* the subnet, its CIDR block and the security groups in use
  partial,         \* the last update of them failed
  \* The address providers and the advertised capacity.
  pdEnabled,       \* IsWindowsPrefixDelegationEnabled
  prevPD,          \* provider -> isPrevPDEnabled
  active,          \* the providers whose pool is set to active
  todo,            \* the providers UpdateResources has still to call
  capacity,        \* the capacity the Node object shows
  \* History.
  forgotten,       \* interfaces given up after too many failed deletions
  late,            \* IPAMD attached an interface after the instance was loaded
  error,           \* what the last refused step was refused for
  events, failures

ec2 == <<attached, trunkIndex>>
branch == <<branches, deleting, popped, creating, fresh, used, forgotten>>
instance == <<status, deviceIndexes, freeIndex>>
network == <<spec, current, partial>>
address == <<pdEnabled, prevPD, active>>
vars == <<type, os, ec2, branch, instance, network, address, todo, capacity, late, error, events, failures>>

NoSpec == [subnet |-> "", groups |-> ""]
Specs == {NoSpec, [subnet |-> "custom", groups |-> "custom"], [subnet |-> "custom", groups |-> ""]}
Unset == [subnet |-> "", cidr |-> "", groups |-> ""]

\* How many interfaces EC2 lets the default card have.
limit == type.NetworkCards[type.DefaultNetworkCardIndex + 1]

onDefaultCard == {a[2] : a \in {b \in attached : b[1] = type.DefaultNetworkCardIndex}}

TypeOK ==
  /\ type \in Limits /\ os \in {"linux", "windows"}
  /\ attached \subseteq (0 .. Len(type.NetworkCards) - 1) \X (0 .. 63)
  /\ trunkIndex \in onDefaultCard \cup {None}
  /\ branches \in Nat /\ deleting \in Nat /\ popped \in 0 .. 1 /\ forgotten \in Nat
  /\ creating \in Nat /\ creating + popped <= Workers /\ fresh \in 0 .. EniCount * creating
  /\ used \in 1 .. MaxAllocatableVlanIds
  /\ status \in {"new", "loaded", "attaching", "ready", "panicked"}
  /\ deviceIndexes \subseteq 0 .. type.Interface - 1 /\ freeIndex \in deviceIndexes \cup {None}
  /\ spec \in Specs
  /\ current \in [subnet : {"", "instance", "custom"}, cidr : {"", "instance", "custom"},
                  groups : {"", "primary", "custom"}]
  /\ late \in BOOLEAN /\ partial \in BOOLEAN /\ pdEnabled \in BOOLEAN
  /\ prevPD \in [{"ip", "prefix"} -> BOOLEAN] /\ active \subseteq {"ip", "prefix"}
  /\ todo \subseteq {"branch", "ip", "prefix", "subnet"}
  /\ capacity \in Nat
  /\ error \in {"none", "occupied", "beyondCard", "noIndex", "noVlan"}
  /\ events \in 0 .. MaxEvents /\ failures \in 0 .. MaxFailures

\* IPAMD attaches from index 0 upwards; another card may hold an interface at
\* any of its indexes; the trunk may be there from before a restart, with
\* none, almost all or all of its branches.
Init ==
  /\ type \in Limits /\ os \in {"linux", "windows"}
  /\ \E k \in {1, limit - 1, limit}, other \in {0, Len(type.NetworkCards) - 1} :
       attached = {<<type.DefaultNetworkCardIndex, i>> : i \in 0 .. k - 1}
                    \cup {<<c, type.NetworkCards[c + 1] - 1>> : c \in {other} \ {0}}
  /\ \/ trunkIndex = None /\ branches = 0
     \/ /\ os = "linux" /\ type.IsTrunkingCompatible
        /\ limit - 1 \in onDefaultCard /\ trunkIndex = limit - 1
        /\ branches \in {0, type.BranchInterface - 1, type.BranchInterface}
  /\ deleting = 0 /\ popped = 0 /\ creating = 0 /\ fresh = 0 /\ used = 1 + branches /\ forgotten = 0
  /\ status = "new" /\ deviceIndexes = {} /\ freeIndex = None
  /\ spec = NoSpec /\ current = Unset /\ partial = FALSE
  /\ pdEnabled \in (IF os = "windows" THEN BOOLEAN ELSE {FALSE})
  /\ prevPD = [p \in {"ip", "prefix"} |-> FALSE] /\ active = {}
  /\ todo = {} /\ capacity = 0
  /\ late = FALSE /\ error = "none" /\ events = 0 /\ failures = 0

happens == events < MaxEvents /\ events' = events + 1

fails == failures < MaxFailures /\ failures' = failures + 1

-----------------------------------------------------------------------------
(***************************************************************************)
(* Loading the instance.                                                   *)
(***************************************************************************)

\* Mutant: the loop over the cards does not stop at the default card.
lastCardLimit == type.NetworkCards[Len(type.NetworkCards)]

\* The number of interfaces the default card takes.
defaultNetworkCardLimit == type.NetworkCards[type.DefaultNetworkCardIndex + 1]

\* Mutant: the limit of the card is not considered.
interfaceLimit == type.Interface

maxInterfaces == Min({type.Interface, defaultNetworkCardLimit})

\* Mutant: the subnet is switched before its CIDR block is known.
updateSubnetFirst(s) ==
  \/ /\ fails /\ partial' = TRUE
     /\ current' = [current EXCEPT !.subnet = IF s.subnet = "" THEN "instance" ELSE s.subnet]
  \/ /\ partial' = FALSE /\ UNCHANGED failures
     /\ current' = [subnet |-> IF s.subnet = "" THEN "instance" ELSE s.subnet,
                    cidr |-> IF s.subnet = "" THEN "instance" ELSE s.subnet,
                    groups |-> IF s.groups = "" THEN "primary" ELSE s.groups]

\* updateCurrentSubnetAndCidrBlock.  The security groups are set before the
\* subnet is looked up, and stay when that fails.
updateCurrentSubnetAndCidrBlock(s) ==
  LET groups == IF s.groups = "" THEN "primary" ELSE s.groups
      subnet == IF s.subnet = "" THEN "instance" ELSE s.subnet
  IN \/ /\ current' = [subnet |-> subnet, cidr |-> subnet, groups |-> groups]
        /\ partial' = FALSE /\ UNCHANGED failures
     \/ /\ s.subnet # "" /\ s.subnet # current.subnet /\ fails
        /\ current' = [current EXCEPT !.groups = groups]
        /\ partial' = TRUE

\* The node object is removed after an error, and made anew by the next event.
discarded ==
  /\ status' = "new" /\ deviceIndexes' = {} /\ freeIndex' = None
  /\ current' = Unset /\ partial' = FALSE
  /\ todo' = {}

supported ==
  (IF os = "linux" /\ type.IsTrunkingCompatible THEN {"branch"} ELSE {})
    \cup (IF os = "windows" THEN {"ip"} ELSE {})
    \cup (IF os = "windows" /\ type.nitro THEN {"prefix"} ELSE {})

\* The slice of device indexes has maxInterfaces entries; writing one beyond it
\* is a run-time panic.
LoadDetails ==
  /\ status = "new"
  /\ updateCurrentSubnetAndCidrBlock(spec) /\ ~partial'
  /\ LET indexes == {a[2] : a \in attached}
     IN IF \A i \in indexes : i < maxInterfaces
        THEN status' = "loaded" /\ deviceIndexes' = indexes
        ELSE status' = "panicked" /\ UNCHANGED deviceIndexes
  /\ late' = FALSE
  /\ UNCHANGED <<type, os, ec2, branch, freeIndex, spec, address, todo, capacity, error, events>>

LoadDetailsFails ==
  /\ status = "new" /\ fails
  /\ UNCHANGED <<type, os, ec2, branch, instance, network, address, todo, capacity, late, error, events>>

-----------------------------------------------------------------------------
(***************************************************************************)
(* Linux: the trunk and its branches.                                      *)
(***************************************************************************)

\* InitResources for a provider that has nothing to attach: no provider
\* supports the instance, or the trunk is attached already.
InitWithoutAttach ==
  /\ status = "loaded" /\ os = "linux" /\ ("branch" \in supported => trunkIndex # None)
  /\ status' = "ready"
  /\ UNCHANGED <<type, os, ec2, branch, deviceIndexes, freeIndex, network, address, todo, capacity, late, error, events,
                 failures>>

\* Mutant: an index counts from one.
GetHighestPlusOne ==
  LET free == (0 .. maxInterfaces) \ deviceIndexes
  IN IF free = {} THEN None ELSE Max(free)

GetHighestUnusedDeviceIndex ==
  LET free == (0 .. maxInterfaces - 1) \ deviceIndexes
  IN IF free = {} THEN None ELSE Max(free)

InitTrunk ==
  /\ status = "loaded" /\ "branch" \in supported /\ trunkIndex = None
  /\ IF GetHighestUnusedDeviceIndex = None
     THEN discarded /\ error' = "noIndex"
     ELSE /\ freeIndex' = GetHighestUnusedDeviceIndex
          /\ deviceIndexes' = deviceIndexes \cup {GetHighestUnusedDeviceIndex}
          /\ status' = "attaching"
          /\ UNCHANGED <<current, partial, todo, error>>
  /\ UNCHANGED <<type, os, ec2, branch, spec, address, capacity, late, events, failures>>

\* EC2 attaches to the default card.
AttachTrunk ==
  /\ status = "attaching"
  /\ \/ /\ freeIndex < limit /\ freeIndex \notin onDefaultCard
        /\ attached' = attached \cup {<<type.DefaultNetworkCardIndex, freeIndex>>}
        /\ trunkIndex' = freeIndex /\ status' = "ready"
        /\ UNCHANGED <<deviceIndexes, freeIndex, current, partial, todo, error>>
     \/ /\ freeIndex >= limit /\ error' = "beyondCard"
        /\ discarded /\ UNCHANGED ec2
     \/ /\ freeIndex < limit /\ freeIndex \in onDefaultCard /\ error' = "occupied"
        /\ discarded /\ UNCHANGED ec2
  /\ UNCHANGED <<type, os, branch, spec, address, capacity, late, events, failures>>

IPAMDAttaches ==
  /\ happens
  /\ \E i \in (0 .. limit - 1) \ onDefaultCard :
       /\ \A j \in 0 .. i - 1 : j \in onDefaultCard
       /\ attached' = attached \cup {<<type.DefaultNetworkCardIndex, i>>}
  /\ late' = TRUE
  /\ UNCHANGED <<type, os, trunkIndex, branch, instance, network, address, todo, capacity, error, failures>>

\* Mutant: one branch more than the limit is admitted.
canCreateOneMore == branches + deleting <= type.BranchInterface

canCreateMore == branches + deleting < type.BranchInterface

\* CreateAndAssociateBranchENIs checks the limit once, before it makes the
\* first of the interfaces its pod asks for, and it holds no lock meanwhile.
AdmitBranch ==
  /\ status = "ready" /\ trunkIndex # None /\ happens
  /\ creating + popped < Workers /\ canCreateMore
  /\ creating' = creating + 1
  /\ UNCHANGED <<type, os, ec2, branches, deleting, popped, fresh, used, forgotten, instance, network, address, todo,
                 capacity, late, error, failures>>

\* A creation that holds k interfaces ends; which of the others are whose is
\* left out.
creationEnds(k) ==
  /\ creating > 0 /\ k <= fresh /\ fresh - k <= EniCount * (creating - 1)
  /\ creating' = creating - 1 /\ fresh' = fresh - k
  /\ UNCHANGED <<type, os, ec2, popped, forgotten, instance, network, address, todo, capacity, late, events>>

\* One more iteration of the loop, up to the interface and its association;
\* without an id the creation fails, and what it has made is queued.
AssignVlanId ==
  /\ fresh < EniCount * creating
  /\ \/ /\ used < MaxAllocatableVlanIds
        /\ used' = used + 1 /\ fresh' = fresh + 1
        /\ UNCHANGED <<type, os, ec2, branches, deleting, popped, creating, forgotten, instance, network, address, todo,
                       capacity, late, error, events, failures>>
     \/ /\ used >= MaxAllocatableVlanIds /\ error' = "noVlan"
        /\ \E k \in 0 .. EniCount - 1 : creationEnds(k) /\ deleting' = deleting + k
        /\ UNCHANGED <<branches, used, failures>>

\* Mutant: the id of the interface that was not created stays used.
CreationFailsKeepingId ==
  /\ fails
  /\ \E k \in 0 .. EniCount - 1 : creationEnds(k + 1) /\ deleting' = deleting + k
  /\ UNCHANGED <<branches, used, error>>

\* CreateNetworkInterface fails: the last id is freed, the interfaces made
\* before it go to the delete queue.
CreationFails ==
  /\ fails
  /\ \E k \in 0 .. EniCount - 1 : creationEnds(k + 1) /\ deleting' = deleting + k
  /\ used' = used - 1
  /\ UNCHANGED <<branches, error>>

\* AssociateBranchToTrunk fails: all interfaces go to the delete queue.
AssociationFails ==
  /\ fails
  /\ \E k \in 1 .. EniCount : creationEnds(k) /\ deleting' = deleting + k
  /\ UNCHANGED <<branches, used, error>>

\* addBranchToCache.
CacheBranches ==
  /\ \E k \in 1 .. EniCount : creationEnds(k) /\ branches' = branches + k
  /\ UNCHANGED <<deleting, used, error, failures>>

\* PushBranchENIsToCoolDownQueue, with as many interfaces as the pod has.
PodDeleted ==
  /\ status = "ready" /\ happens
  /\ \E k \in 1 .. EniCount :
       /\ k <= branches
       /\ branches' = branches - k /\ deleting' = deleting + k
  /\ UNCHANGED <<type, os, ec2, popped, creating, fresh, used, forgotten, instance, network, address, todo, capacity,
                 late, error, failures>>

\* One worker processes the node's delete queue; what it has popped is in
\* neither map nor queue while EC2 is called.
popENIFromDeleteQueue ==
  /\ status = "ready" /\ deleting > 0 /\ popped = 0 /\ creating < Workers
  /\ deleting' = deleting - 1 /\ popped' = 1
  /\ UNCHANGED <<type, os, ec2, branches, creating, fresh, used, forgotten, instance, network, address, todo, capacity,
                 late, error, events, failures>>

\* deleteENI frees the id; an interface that still cools down or that cannot be
\* deleted goes back to the queue with its id, and one that cannot be deleted
\* for too long is forgotten with its id.  How long is left open here.
DeleteCooledDownENIs ==
  /\ popped = 1 /\ popped' = 0
  /\ \/ used' = used - 1 /\ UNCHANGED <<deleting, forgotten, failures>>
     \/ deleting' = deleting + 1 /\ UNCHANGED <<used, forgotten, failures>>
     \/ fails /\ deleting' = deleting + 1 /\ UNCHANGED <<used, forgotten>>
     \/ fails /\ forgotten' = forgotten + 1 /\ UNCHANGED <<used, deleting>>
  /\ UNCHANGED <<type, os, ec2, branches, creating, fresh, instance, network, address, todo, capacity, late, error,
                 events>>

-----------------------------------------------------------------------------
(***************************************************************************)
(* Windows: the secondary address and the prefix provider.                 *)
(***************************************************************************)
InitPools ==
  /\ status = "loaded" /\ os = "windows"
  /\ status' = "ready"
  /\ prevPD' = [p \in {"ip", "prefix"} |-> pdEnabled]
  /\ active' = supported \cap (IF pdEnabled THEN {"prefix"} ELSE {"ip"})
  /\ UNCHANGED <<type, os, ec2, branch, deviceIndexes, freeIndex, network, pdEnabled, todo, capacity, late, error, events,
                 failures>>

PrefixDelegationToggled ==
  /\ os = "windows" /\ happens
  /\ pdEnabled' = ~pdEnabled
  /\ UNCHANGED <<type, os, ec2, branch, instance, network, prevPD, active, todo, capacity, late, error, failures>>

\* getCapacity, and 16 addresses a prefix.
nodeCapacity(p) ==
  CASE p = "branch" -> type.BranchInterface
    [] p = "ip" -> type.IPv4PerInterface - 1
    [] p = "prefix" -> (type.IPv4PerInterface - 1) * NumIPv4AddrPerPrefix

\* AdvertiseCapacityIfNotSet.  After an error UpdateResources goes on to the next
\* provider, but returns before it updates the subnet.
advertises(p) ==
  \/ capacity' = nodeCapacity(p) /\ todo' = todo \ {p} /\ UNCHANGED failures
  \/ fails /\ todo' = todo \ {p, "subnet"} /\ UNCHANGED capacity

\* Only the address provider of an instance that is not nitro ignores prefix
\* delegation.
outOfUse(p) == IF p = "ip" THEN type.nitro /\ pdEnabled ELSE ~pdEnabled

-----------------------------------------------------------------------------
(***************************************************************************)
(* UpdateResources: the providers one after the other, then the subnet.    *)
(***************************************************************************)
UpdateResources ==
  /\ status = "ready" /\ todo = {}
  /\ todo' = supported \cup {"subnet"}
  /\ UNCHANGED <<type, os, ec2, branch, instance, network, address, capacity, late, error, events, failures>>

\* Mutant: the pool that falls out of use is not drained.
UpdateWithoutDraining(p) ==
  /\ p \in todo \ {"subnet"}
  /\ \/ p = "branch" /\ advertises(p) /\ UNCHANGED <<prevPD, active>>
     \/ /\ p # "branch" /\ outOfUse(p)
        /\ todo' = todo \ {p} /\ UNCHANGED <<prevPD, active, capacity, failures>>
     \/ /\ p # "branch" /\ ~outOfUse(p)
        /\ active' = active \cup {p} /\ prevPD' = [prevPD EXCEPT ![p] = (p = "prefix")]
        /\ advertises(p)
  /\ UNCHANGED <<type, os, ec2, branch, instance, network, pdEnabled, late, error, events>>

\* A provider that was and stays out of use does nothing, one that falls out of
\* use drains its pool, and the other one sets its pool to active and advertises.
UpdateResourceCapacity(p) ==
  /\ p \in todo \ {"subnet"}
  /\ \/ p = "branch" /\ advertises(p) /\ UNCHANGED <<prevPD, active>>
     \/ /\ p # "branch" /\ outOfUse(p)
        /\ prevPD' = [prevPD EXCEPT ![p] = pdEnabled]
        /\ active' = IF prevPD[p] = pdEnabled THEN active ELSE active \ {p}
        /\ todo' = todo \ {p} /\ UNCHANGED <<capacity, failures>>
     \/ /\ p # "branch" /\ ~outOfUse(p)
        /\ active' = active \cup {p} /\ prevPD' = [prevPD EXCEPT ![p] = (p = "prefix")]
        /\ advertises(p)
  /\ UNCHANGED <<type, os, ec2, branch, instance, network, pdEnabled, late, error, events>>

UpdateCurrentSubnetAndCidrBlock ==
  /\ todo = {"subnet"} /\ todo' = {}
  /\ updateCurrentSubnetAndCidrBlock(spec)
  /\ UNCHANGED <<type, os, ec2, branch, instance, spec, address, capacity, late, error, events>>

-----------------------------------------------------------------------------
\* UpdateNode of the node manager, from the ENIConfig.
SetNewCustomNetworkingSpec ==
  /\ os = "linux" /\ happens
  /\ spec' \in Specs \ {spec}
  /\ UNCHANGED <<type, os, ec2, branch, instance, current, partial, address, todo, capacity, late, error, failures>>

\* A kubelet that restarts drops the extended resources.
KubeletResetsCapacity ==
  /\ capacity # 0 /\ happens
  /\ capacity' = 0
  /\ UNCHANGED <<type, os, ec2, branch, instance, network, address, todo, late, error, failures>>

Next ==
  \/ LoadDetails \/ LoadDetailsFails
  \/ InitWithoutAttach \/ InitTrunk \/ AttachTrunk \/ IPAMDAttaches
  \/ AdmitBranch \/ AssignVlanId \/ CreationFails \/ AssociationFails \/ CacheBranches
  \/ PodDeleted \/ popENIFromDeleteQueue \/ DeleteCooledDownENIs
  \/ InitPools \/ PrefixDelegationToggled
  \/ UpdateResources \/ UpdateCurrentSubnetAndCidrBlock
  \/ \E p \in {"branch", "ip", "prefix"} : UpdateResourceCapacity(p)
  \/ SetNewCustomNetworkingSpec \/ KubeletResetsCapacity

Spec == Init /\ [][Next]_vars

\* Node events keep coming, and the worker that serves one ends it.
Fairness ==
  /\ WF_vars(LoadDetails) /\ WF_vars(InitWithoutAttach) /\ WF_vars(InitTrunk) /\ WF_vars(AttachTrunk)
  /\ WF_vars(InitPools) /\ WF_vars(UpdateResources) /\ WF_vars(UpdateCurrentSubnetAndCidrBlock)
  /\ \A p \in {"branch", "ip", "prefix"} : WF_vars(UpdateResourceCapacity(p))

FairSpec == Spec /\ Fairness

-----------------------------------------------------------------------------
(***************************************************************************)
(* Properties.                                                             *)
(***************************************************************************)

\* LoadDetails never indexes the device slice out of its bounds, whatever
\* interfaces the instance has on whichever of its cards.
NoPanic == status # "panicked"

\* The index chosen for the trunk is one the default card has, and is occupied
\* only when IPAMD took it after the instance was loaded.
TrunkIndexValid ==
  /\ error # "beyondCard"
  /\ status = "attaching" /\ freeIndex \in onDefaultCard => late

\* A creation runs out of VLAN ids only when the interfaces that hold one, those
\* under way, in the delete worker's hand and forgotten included, fill the
\* capacity the node advertises: an id is lost with a forgotten interface and
\* in no other way, and for every instance type the ids suffice for the rest.
VlanForCapacity ==
  [][error # "noVlan" /\ error' = "noVlan" =>
       branches + deleting + popped + fresh + forgotten >= type.BranchInterface]_vars

\* However checks of the limit, creations, and deletions that fail and return
\* to the queue interleave, the node has at most Workers * EniCount - 1
\* interfaces more than its type allows, those under way included: the check
\* covers neither the other creations under way nor the interface being
\* deleted, but each of them occupies a worker.
LimitRespected ==
  branches + deleting + popped + fresh <= type.BranchInterface - 1 + Workers * EniCount

\* The CIDR block in use is the one of the subnet in use, and without a failed
\* update the security groups come from the same spec as the subnet.
SubnetConsistent ==
  /\ current.cidr = current.subnet
  /\ ~partial /\ current # Unset =>
       \/ current.subnet = "instance" /\ current.groups = "primary"
       \/ current.subnet = "custom" /\ current.groups \in {"primary", "custom"}

\* Once changes and failures stop, a ready node advertises the capacity of the
\* mode it is in, the pool of that mode and no other is active, and the subnet
\* in use is the one configured.
CapacitySettles ==
  LET mode == IF os = "linux" THEN "branch" ELSE IF pdEnabled /\ type.nitro THEN "prefix" ELSE "ip"
      wanted == IF spec.subnet = "" THEN "instance" ELSE spec.subnet
  IN <>[](status = "ready" =>
            /\ mode \in supported => capacity = nodeCapacity(mode)
            /\ os = "windows" => active = {mode}
            /\ current.subnet = wanted /\ ~partial)
=============================================================================
