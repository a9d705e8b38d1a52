------------------------- MODULE NodeCapacityProofs -------------------------
(***************************************************************************)
(* Theorems about NodeCapacity, for every instance type of the limits      *)
(* table and any number of changes and failing calls.  Of the table they   *)
(* use LimitsAssumption, which TLC evaluates for all of its types.         *)
(***************************************************************************)
EXTENDS NodeCapacity, WellFoundedInduction, TLAPS

-----------------------------------------------------------------------------
(***************************************************************************)
(* The table and the device indexes.                                       *)
(***************************************************************************)

\* A non-empty set of indexes below a bound has a highest one.
LEMMA HighestIndex ==
  ASSUME NEW n \in Nat, NEW S \in SUBSET (0 .. n - 1), S # {}
  PROVE  Max(S) \in S /\ \A y \in S : Max(S) >= y
<1> DEFINE gap(x) == n - x
           T == {gap(x) : x \in S}
           R == {r \in Nat \X Nat : r[1] < r[2]}
<1>1. IsWellFoundedOn(R, Nat)
  <2>1. IsWellFoundedOn(OpToRel(<, Nat), Nat)
    BY NatLessThanWellFounded
  <2>2. R = OpToRel(<, Nat)
    BY DEF OpToRel
  <2> QED
    BY <2>1, <2>2
<1>2. T \subseteq Nat /\ T # {}
  <2>1. \A x \in S : gap(x) \in Nat
    OBVIOUS
  <2> HIDE DEF gap
  <2> QED
    BY <2>1
<1> HIDE DEF R
<1>3. PICK m \in T : \A k \in T : ~ (<<k, m>> \in R)
  BY <1>1, <1>2, WFMin
<1>4. PICK x \in S : m = gap(x)
  BY <1>3
<1>5. \A y \in S : x >= y
  <2> SUFFICES ASSUME NEW y \in S PROVE x >= y
    OBVIOUS
  <2>1. gap(y) \in T /\ gap(y) \in Nat /\ m \in Nat
    BY <1>2
  <2>2. ~(gap(y) < m)
    BY <1>3, <2>1 DEF R
  <2> QED
    BY <1>4, <2>2
<1> QED
  BY <1>5 DEF Max

\* The limits of the instance's type; the default card decides how many
\* interfaces the instance object keeps track of.
LEMMA LimitFacts ==
  ASSUME type \in Limits
  PROVE  /\ limit \in 1 .. 64 /\ limit <= type.Interface /\ type.Interface \in Nat
         /\ type.DefaultNetworkCardIndex = 0 /\ Len(type.NetworkCards) \in Nat \ {0}
         /\ \A c \in 1 .. Len(type.NetworkCards) : type.NetworkCards[c] \in 1 .. limit
         /\ type.BranchInterface \in 0 .. 120 /\ type.IPv4PerInterface \in Nat \ {0}
         /\ type.IsTrunkingCompatible => type.BranchInterface > 0
         /\ maxInterfaces = limit
<1>1. /\ type.Interface \in Nat /\ type.IPv4PerInterface \in Nat \ {0} /\ type.BranchInterface \in 0 .. 120
      /\ type.IsTrunkingCompatible = (type.BranchInterface > 0)
      /\ type.NetworkCards \in Seq(Nat) /\ type.DefaultNetworkCardIndex = 0 /\ Len(type.NetworkCards) > 0
      /\ limit <= type.Interface /\ limit <= 64
      /\ \A c \in DOMAIN type.NetworkCards : type.NetworkCards[c] \in 1 .. limit
  BY LimitsAssumption DEF limit
<1>2. Len(type.NetworkCards) \in Nat \ {0} /\ DOMAIN type.NetworkCards = 1 .. Len(type.NetworkCards)
  BY <1>1
<1>3. limit \in 1 .. 64
  <2>1. 1 \in DOMAIN type.NetworkCards /\ limit = type.NetworkCards[1]
    BY <1>1, <1>2 DEF limit
  <2>2. limit \in 1 .. limit /\ limit \in Nat
    BY <1>1, <2>1
  <2> QED
    BY <1>1, <2>2
<1>4. maxInterfaces = limit
  <2> DEFINE S == {type.Interface, limit}
  <2>1. limit \in S /\ \A y \in S : limit <= y
    BY <1>1, <1>3
  <2>2. Min(S) \in S /\ \A y \in S : Min(S) <= y
    BY <2>1 DEF Min
  <2>3. Min(S) = limit
    BY <1>1, <1>3, <2>1, <2>2
  <2> QED
    BY <2>3 DEF maxInterfaces, defaultNetworkCardLimit, limit
<1> QED
  BY <1>1, <1>2, <1>3, <1>4

\* The index InitTrunk picks is unused and one of the default card's, and None
\* stands for no index.
LEMMA HighestUnused ==
  ASSUME type \in Limits, GetHighestUnusedDeviceIndex # None
  PROVE  GetHighestUnusedDeviceIndex \in (0 .. limit - 1) \ deviceIndexes
<1> DEFINE free == (0 .. limit - 1) \ deviceIndexes
<1>1. free # {} /\ GetHighestUnusedDeviceIndex = Max(free)
  BY LimitFacts DEF GetHighestUnusedDeviceIndex
<1>2. limit \in Nat /\ free \in SUBSET (0 .. limit - 1)
  <2>1. limit \in 1 .. 64
    BY LimitFacts
  <2>2. limit \in Nat
    BY <2>1
  <2> QED
    BY <2>2
<1>3. Max(free) \in free
  BY <1>1, <1>2, HighestIndex
<1> QED
  BY <1>1, <1>3

-----------------------------------------------------------------------------
(***************************************************************************)
(* Type correctness, with the bounds of the indexes.                       *)
(***************************************************************************)
InterfaceType ==
  /\ type \in Limits /\ os \in {"linux", "windows"}
  /\ attached \subseteq (0 .. Len(type.NetworkCards) - 1) \X (0 .. limit - 1)
  /\ trunkIndex \in onDefaultCard \cup {None}

\* What the creations under way may hold, and what all workers may.
Room == EniCount * creating
Excess == Workers * EniCount

BranchType ==
  /\ branches \in Nat /\ deleting \in Nat /\ creating \in Nat /\ forgotten \in Nat
  /\ popped \in 0 .. 1 /\ creating + popped <= Workers
  /\ fresh \in Nat /\ fresh <= Room
  /\ used \in Nat /\ used <= MaxAllocatableVlanIds
  /\ used = 1 + branches + deleting + popped + fresh + forgotten

InstanceType ==
  /\ status \in {"new", "loaded", "attaching", "ready", "panicked"}
  /\ deviceIndexes \subseteq 0 .. limit - 1 /\ freeIndex \in deviceIndexes \cup {None}
  /\ status = "attaching" => freeIndex # None
  /\ status \in {"new", "loaded"} => freeIndex = None

NetworkType ==
  /\ spec \in Specs /\ partial \in BOOLEAN
  /\ current \in [subnet : {"", "instance", "custom"}, cidr : {"", "instance", "custom"}, groups : {"", "primary", "custom"}]

AddressType ==
  /\ pdEnabled \in BOOLEAN /\ prevPD \in [{"ip", "prefix"} -> BOOLEAN] /\ active \subseteq {"ip", "prefix"}
  /\ todo \subseteq {"branch", "ip", "prefix", "subnet"} /\ capacity \in Nat

CounterType ==
  /\ late \in BOOLEAN /\ error \in {"none", "occupied", "beyondCard", "noIndex", "noVlan"}
  /\ events \in 0 .. MaxEvents /\ failures \in 0 .. MaxFailures

Types == InterfaceType /\ BranchType /\ InstanceType /\ NetworkType /\ AddressType /\ CounterType

\* What is done for branch interfaces that are admitted or queued.
BranchWork ==
  AssignVlanId \/ CreationFails \/ AssociationFails \/ CacheBranches \/ popENIFromDeleteQueue \/ DeleteCooledDownENIs

\* It changes nothing but the branch interfaces and the counters.
LEMMA BranchWorkFrame ==
  ASSUME BranchWork
  PROVE  /\ UNCHANGED <<type, os, ec2, attached, trunkIndex, instance, status, deviceIndexes, freeIndex, network, spec, current,
                        partial, address, todo, capacity, late, events>>
         /\ error' = error \/ error' = "noVlan"
         /\ fails \/ UNCHANGED failures
<1>1. CASE AssignVlanId
  BY <1>1 DEF AssignVlanId, creationEnds, ec2, instance, network
<1>2. CASE CreationFails \/ AssociationFails
  BY <1>2 DEF CreationFails, AssociationFails, creationEnds, ec2, instance, network
<1>3. CASE CacheBranches
  BY <1>3 DEF CacheBranches, creationEnds, ec2, instance, network
<1>4. CASE popENIFromDeleteQueue \/ DeleteCooledDownENIs
  BY <1>4 DEF popENIFromDeleteQueue, DeleteCooledDownENIs, ec2, instance, network
<1> QED
  BY <1>1, <1>2, <1>3, <1>4 DEF BranchWork

\* The parts imply the module's type invariant, with tighter bounds.
LEMMA TypesImply == Types => TypeOK
<1> SUFFICES ASSUME Types PROVE TypeOK
  OBVIOUS
<1>1. limit \in 1 .. 64 /\ limit <= type.Interface /\ type.Interface \in Nat
  BY LimitFacts DEF Types, InterfaceType
<1>2. 0 .. limit - 1 \subseteq 0 .. 63 /\ 0 .. limit - 1 \subseteq 0 .. type.Interface - 1
  BY <1>1
<1>3. attached \subseteq (0 .. Len(type.NetworkCards) - 1) \X (0 .. 63)
  BY <1>2 DEF Types, InterfaceType
<1>4. deviceIndexes \subseteq 0 .. type.Interface - 1
  BY <1>2 DEF Types, InstanceType
<1>5. /\ branches \in Nat /\ deleting \in Nat /\ popped \in 0 .. 1 /\ forgotten \in Nat
      /\ creating \in Nat /\ creating + popped <= Workers /\ used \in 1 .. MaxAllocatableVlanIds
  BY DEF Types, BranchType, MaxAllocatableVlanIds
<1>6. fresh \in 0 .. EniCount * creating
  <2>1. fresh \in Nat /\ fresh <= Room /\ creating \in Nat
    BY DEF Types, BranchType
  <2>2. Room \in Nat
    BY <2>1, CapacityAssumption DEF Room
  <2>3. fresh \in 0 .. Room
    BY <2>1, <2>2
  <2> QED
    BY <2>3 DEF Room
<1> QED
  BY <1>3, <1>4, <1>5, <1>6 DEF Types, InterfaceType, InstanceType, NetworkType, AddressType, CounterType, TypeOK

\* The instance type and the operating system never change.
LEMMA SameType ==
  ASSUME [Next]_vars
  PROVE  UNCHANGED <<type, os, limit>>
<1>1. UNCHANGED <<type, os>>
  BY BranchWorkFrame DEF Next, BranchWork, LoadDetails, LoadDetailsFails, InitWithoutAttach, InitTrunk,
      AttachTrunk, IPAMDAttaches, AdmitBranch,
         PodDeleted, InitPools, PrefixDelegationToggled, UpdateResources,
         UpdateCurrentSubnetAndCidrBlock, UpdateResourceCapacity, SetNewCustomNetworkingSpec, KubeletResetsCapacity, vars
<1> QED
  BY <1>1 DEF limit

\* The custom networking spec determines subnet, CIDR block and security groups.
LEMMA UpdateSubnetType ==
  ASSUME NetworkType, updateCurrentSubnetAndCidrBlock(spec)
  PROVE  /\ current' \in [subnet : {"", "instance", "custom"}, cidr : {"", "instance", "custom"}, groups : {"", "primary", "custom"}]
         /\ partial' \in BOOLEAN /\ (UNCHANGED failures \/ fails)
<1> DEFINE groups == IF spec.groups = "" THEN "primary" ELSE spec.groups
           subnet == IF spec.subnet = "" THEN "instance" ELSE spec.subnet
<1>1. groups \in {"", "primary", "custom"} /\ subnet \in {"", "instance", "custom"}
  <2>1. spec.groups \in {"", "custom"} /\ spec.subnet \in {"", "custom"}
    <3>1. CASE spec = [subnet |-> "", groups |-> ""]
      BY <3>1
    <3>2. CASE spec = [subnet |-> "custom", groups |-> "custom"]
      BY <3>2
    <3>3. CASE spec = [subnet |-> "custom", groups |-> ""]
      BY <3>3
    <3> QED
      BY <3>1, <3>2, <3>3 DEF NetworkType, Specs, NoSpec
  <2> QED
    BY <2>1
<1>2. \/ current' = [subnet |-> subnet, cidr |-> subnet, groups |-> groups] /\ partial' = FALSE /\ UNCHANGED failures
      \/ current' = [current EXCEPT !.groups = groups] /\ partial' = TRUE /\ fails
  BY DEF updateCurrentSubnetAndCidrBlock
<1> HIDE DEF groups, subnet
<1>3. CASE current' = [subnet |-> subnet, cidr |-> subnet, groups |-> groups] /\ partial' = FALSE /\ UNCHANGED failures
  BY <1>1, <1>3
<1>4. CASE current' = [current EXCEPT !.groups = groups] /\ partial' = TRUE /\ fails
  BY <1>1, <1>4 DEF NetworkType
<1> QED
  BY <1>2, <1>3, <1>4

\* The interfaces of the instance: they are attached within a card's limits.
LEMMA InterfaceStepType ==
  ASSUME Types, [Next]_vars
  PROVE  InterfaceType'
<1>0. /\ type \in Limits /\ type.DefaultNetworkCardIndex = 0 /\ Len(type.NetworkCards) \in Nat \ {0}
      /\ limit \in 1 .. 64 /\ UNCHANGED <<type, os, limit>> /\ InterfaceType
  BY LimitFacts, SameType DEF Types, InterfaceType
<1>1. CASE UNCHANGED ec2
  BY <1>0, <1>1 DEF ec2, InterfaceType, onDefaultCard
<1>2. ASSUME NEW i \in 0 .. limit - 1, attached' = attached \cup {<<type.DefaultNetworkCardIndex, i>>},
             trunkIndex' = trunkIndex \/ trunkIndex' = i
      PROVE  InterfaceType'
  <2>1. <<type.DefaultNetworkCardIndex, i>> \in (0 .. Len(type.NetworkCards) - 1) \X (0 .. limit - 1)
    BY <1>0
  <2>2. onDefaultCard \subseteq onDefaultCard'
    BY <1>0, <1>2 DEF onDefaultCard
  <2>3. i \in onDefaultCard'
    <3>1. <<type.DefaultNetworkCardIndex, i>> \in {b \in attached' : b[1] = type'.DefaultNetworkCardIndex}
      BY <1>0, <1>2
    <3>2. <<type.DefaultNetworkCardIndex, i>>[2] = i
      OBVIOUS
    <3> QED
      BY <3>1, <3>2 DEF onDefaultCard
  <2> QED
    BY <1>0, <1>2, <2>1, <2>2, <2>3 DEF InterfaceType
<1>3. CASE AttachTrunk
  <2>1. freeIndex \in 0 .. limit - 1
    BY <1>3 DEF AttachTrunk, Types, InstanceType
  <2> QED
    BY <1>1, <1>2, <1>3, <2>1 DEF AttachTrunk
<1>4. CASE IPAMDAttaches
  BY <1>2, <1>4 DEF IPAMDAttaches
<1>5. CASE LoadDetails \/ LoadDetailsFails \/ InitWithoutAttach \/ InitTrunk \/ AdmitBranch \/ BranchWork \/ PodDeleted
           \/ InitPools \/ PrefixDelegationToggled \/ UpdateResources \/ UpdateCurrentSubnetAndCidrBlock
           \/ (\E p \in {"branch", "ip", "prefix"} : UpdateResourceCapacity(p))
           \/ SetNewCustomNetworkingSpec \/ KubeletResetsCapacity \/ UNCHANGED vars
  <2>1. UNCHANGED ec2
    BY <1>5, BranchWorkFrame DEF LoadDetails, LoadDetailsFails, InitWithoutAttach, InitTrunk, AdmitBranch,
         PodDeleted, InitPools, PrefixDelegationToggled, UpdateResources, UpdateCurrentSubnetAndCidrBlock,
                UpdateResourceCapacity, SetNewCustomNetworkingSpec, KubeletResetsCapacity, vars
  <2> QED
    BY <1>1, <2>1
<1> QED
  BY <1>3, <1>4, <1>5 DEF Next, BranchWork

\* What the creations under way may hold grows and shrinks with them.
LEMMA Products ==
  ASSUME creating \in Nat
  PROVE  /\ EniCount \in Nat \ {0} /\ Workers \in Nat \ {0} /\ Room \in Nat /\ Excess \in Nat \ {0}
         /\ creating = 0 => Room = 0
         /\ creating' = creating + 1 => Room' = Room + EniCount
         /\ creating' \in Nat /\ creating = creating' + 1 => Room' \in Nat /\ Room = Room' + EniCount
<1>1. EniCount \in Nat \ {0} /\ Workers \in Nat \ {0}
  BY CapacityAssumption
<1>2. \A e, c \in Nat : e * c \in Nat /\ e * (c + 1) = e * c + e
  OBVIOUS
<1>3. Room \in Nat
  BY <1>1, <1>2 DEF Room
<1>4. Excess \in Nat \ {0}
  <2>1. \A w, e \in Nat \ {0} : w * e \in Nat \ {0}
    OBVIOUS
  <2> QED
    BY <1>1, <2>1 DEF Excess
<1>5. creating = 0 => Room = 0
  BY <1>1 DEF Room
<1>6. creating' = creating + 1 => Room' = Room + EniCount
  BY <1>1, <1>2 DEF Room
<1>7. creating' \in Nat /\ creating = creating' + 1 => Room' \in Nat /\ Room = Room' + EniCount
  BY <1>1, <1>2 DEF Room
<1> QED
  BY <1>1, <1>3, <1>4, <1>5, <1>6, <1>7

\* The counts are natural numbers.
LEMMA BranchNats ==
  BranchType => /\ branches \in Nat /\ deleting \in Nat /\ popped \in Nat /\ fresh \in Nat /\ forgotten \in Nat
                /\ creating \in Nat /\ (popped = 0 \/ popped = 1)
  BY DEF BranchType

\* And in the next state.
LEMMA BranchNatsNext ==
  BranchType' => /\ branches' \in Nat /\ deleting' \in Nat /\ popped' \in Nat /\ fresh' \in Nat /\ forgotten' \in Nat
                 /\ creating' \in Nat /\ (popped' = 0 \/ popped' = 1)
  BY DEF BranchType

\* Interfaces move from a creation to the cache or the queue with their ids.
LEMMA IdsMove ==
  /\ \A b, d, p, f, g, j \in Nat : 1 + b + d + p + (f + j) + g = 1 + b + (d + j) + p + f + g
  /\ \A b, d, p, f, g, j \in Nat : 1 + b + d + p + (f + j) + g = 1 + (b + j) + d + p + f + g
  /\ \A b, d, p, f, g, j \in Nat : 1 + b + d + p + (f + (j + 1)) + g - 1 = 1 + b + (d + j) + p + f + g
  OBVIOUS

\* A creation that ends takes what it holds with it.
LEMMA CreationEndsType ==
  ASSUME BranchType, NEW k \in 0 .. EniCount, creationEnds(k)
  PROVE  /\ creating' \in Nat /\ creating = creating' + 1 /\ UNCHANGED <<popped, forgotten>>
         /\ fresh' \in Nat /\ fresh = fresh' + k /\ fresh' <= Room' /\ creating' + popped' <= Workers
<1>1. creating > 0 /\ k <= fresh /\ creating' = creating - 1 /\ fresh' = fresh - k
      /\ fresh - k <= EniCount * (creating - 1) /\ UNCHANGED <<popped, forgotten>>
  BY DEF creationEnds
<1>2. creating \in Nat /\ fresh \in Nat /\ k \in Nat
  BY CapacityAssumption DEF BranchType
<1>3. creating' \in Nat /\ creating = creating' + 1 /\ fresh' \in Nat /\ fresh = fresh' + k
  BY <1>1, <1>2
<1>4. fresh' <= Room'
  BY <1>1 DEF Room
<1>5. creating' + popped' <= Workers
  <2>1. \A c, p, w \in Nat : c + 1 + p <= w => c + p <= w
    OBVIOUS
  <2>2. creating + popped <= Workers /\ popped \in Nat /\ Workers \in Nat
    BY CapacityAssumption DEF BranchType
  <2> QED
    BY <1>1, <1>3, <2>1, <2>2
<1> QED
  BY <1>1, <1>3, <1>4, <1>5

\* Every used id is id 0, that of an interface, or that of a forgotten one; the
\* creations and the delete worker stay within the workers.
LEMMA BranchStepType ==
  ASSUME Types, [Next]_vars
  PROVE  BranchType'
<1>0. BranchType /\ EniCount \in Nat \ {0} /\ Workers \in Nat \ {0} /\ Room \in Nat
  BY Products DEF Types, BranchType
<1>1. CASE AdmitBranch
  <2>1. creating' = creating + 1 /\ creating + popped < Workers
        /\ UNCHANGED <<branches, deleting, popped, fresh, used, forgotten>>
    BY <1>1 DEF AdmitBranch
  <2>2. Room' = Room + EniCount
    BY <2>1, Products DEF Types, BranchType
  <2>3. fresh' <= Room'
    BY <1>0, <2>1, <2>2 DEF BranchType
  <2>4. creating' \in Nat /\ creating' + popped' <= Workers
    BY <1>0, <2>1 DEF BranchType
  <2> QED
    BY <1>0, <2>1, <2>3, <2>4 DEF BranchType
<1>2. CASE AssignVlanId
  <2>1. CASE used < MaxAllocatableVlanIds /\ used' = used + 1 /\ fresh' = fresh + 1
             /\ UNCHANGED <<branches, deleting, popped, creating, forgotten>>
    <3>1. fresh < Room /\ UNCHANGED Room
      BY <1>2, <2>1 DEF AssignVlanId, Room
    <3> QED
      BY <1>0, <2>1, <3>1 DEF BranchType, MaxAllocatableVlanIds
  <2>2. CASE /\ UNCHANGED <<branches, used>>
             /\ \E k \in 0 .. EniCount - 1 : creationEnds(k) /\ deleting' = deleting + k
    <3>1. PICK k \in 0 .. EniCount - 1 : creationEnds(k) /\ deleting' = deleting + k
      BY <2>2
    <3>2. k \in 0 .. EniCount
      BY <1>0
    <3>3. /\ creating' \in Nat /\ creating = creating' + 1 /\ UNCHANGED <<popped, forgotten>>
          /\ fresh' \in Nat /\ fresh = fresh' + k /\ fresh' <= Room' /\ creating' + popped' <= Workers
      BY <1>0, <3>1, <3>2, CreationEndsType
    <3>4. used = 1 + branches + deleting + popped + fresh + forgotten /\ k \in Nat
      BY <1>0, <3>2 DEF BranchType
    <3>5. used' = 1 + branches' + deleting' + popped' + fresh' + forgotten' /\ deleting' \in Nat
      BY <1>0, <2>2, <3>1, <3>3, <3>4, BranchNats, IdsMove
    <3> QED
      BY <1>0, <2>2, <3>3, <3>5 DEF BranchType
  <2> QED
    BY <1>2, <2>1, <2>2 DEF AssignVlanId
<1>3. CASE CreationFails
  <2>1. PICK k \in 0 .. EniCount - 1 : creationEnds(k + 1) /\ deleting' = deleting + k
    BY <1>3 DEF CreationFails
  <2>2. k + 1 \in 0 .. EniCount /\ k \in Nat
    BY <1>0
  <2>3. /\ creating' \in Nat /\ creating = creating' + 1 /\ UNCHANGED <<popped, forgotten>>
        /\ fresh' \in Nat /\ fresh = fresh' + (k + 1) /\ fresh' <= Room' /\ creating' + popped' <= Workers
    BY <1>0, <2>1, <2>2, CreationEndsType
  <2>4. used' = used - 1 /\ UNCHANGED branches
    BY <1>3 DEF CreationFails
  <2>5. used = 1 + branches + deleting + popped + fresh + forgotten /\ used <= MaxAllocatableVlanIds /\ used \in Nat
    BY <1>0 DEF BranchType
  <2>6. used' = 1 + branches' + deleting' + popped' + fresh' + forgotten' /\ deleting' \in Nat
    BY <1>0, <2>1, <2>2, <2>3, <2>4, <2>5, BranchNats, IdsMove
  <2>7. used' \in Nat
    BY <1>0, <2>3, <2>4, <2>6, BranchNats
  <2>8. used' <= MaxAllocatableVlanIds
    BY <2>4, <2>5 DEF MaxAllocatableVlanIds
  <2> QED
    BY <1>0, <2>3, <2>4, <2>6, <2>7, <2>8 DEF BranchType
<1>4. CASE AssociationFails
  <2>1. PICK k \in 1 .. EniCount : creationEnds(k) /\ deleting' = deleting + k
    BY <1>4 DEF AssociationFails
  <2>2. k \in 0 .. EniCount /\ k \in Nat
    BY <1>0
  <2>3. /\ creating' \in Nat /\ creating = creating' + 1 /\ UNCHANGED <<popped, forgotten>>
        /\ fresh' \in Nat /\ fresh = fresh' + k /\ fresh' <= Room' /\ creating' + popped' <= Workers
    BY <1>0, <2>1, <2>2, CreationEndsType
  <2>4. UNCHANGED <<branches, used>>
    BY <1>4 DEF AssociationFails
  <2>5. used = 1 + branches + deleting + popped + fresh + forgotten
    BY <1>0 DEF BranchType
  <2>6. used' = 1 + branches' + deleting' + popped' + fresh' + forgotten' /\ branches' \in Nat /\ deleting' \in Nat
    BY <1>0, <2>1, <2>2, <2>3, <2>4, <2>5, BranchNats, IdsMove
  <2> QED
    BY <1>0, <2>3, <2>4, <2>6 DEF BranchType
<1>5. CASE CacheBranches
  <2>1. PICK k \in 1 .. EniCount : creationEnds(k) /\ branches' = branches + k
    BY <1>5 DEF CacheBranches
  <2>2. k \in 0 .. EniCount /\ k \in Nat
    BY <1>0
  <2>3. /\ creating' \in Nat /\ creating = creating' + 1 /\ UNCHANGED <<popped, forgotten>>
        /\ fresh' \in Nat /\ fresh = fresh' + k /\ fresh' <= Room' /\ creating' + popped' <= Workers
    BY <1>0, <2>1, <2>2, CreationEndsType
  <2>4. UNCHANGED <<deleting, used>>
    BY <1>5 DEF CacheBranches
  <2>5. used = 1 + branches + deleting + popped + fresh + forgotten
    BY <1>0 DEF BranchType
  <2>6. used' = 1 + branches' + deleting' + popped' + fresh' + forgotten' /\ branches' \in Nat /\ deleting' \in Nat
    BY <1>0, <2>1, <2>2, <2>3, <2>4, <2>5, BranchNats, IdsMove
  <2> QED
    BY <1>0, <2>3, <2>4, <2>6 DEF BranchType
<1>6. CASE PodDeleted
  <2>1. PICK k \in 1 .. EniCount : k <= branches /\ branches' = branches - k /\ deleting' = deleting + k
    BY <1>6 DEF PodDeleted
  <2>2. k \in Nat /\ UNCHANGED <<popped, creating, fresh, used, forgotten, Room>>
    BY <1>0, <1>6 DEF PodDeleted, Room
  <2> QED
    BY <1>0, <2>1, <2>2 DEF BranchType
<1>7. CASE popENIFromDeleteQueue
  <2>1. /\ deleting > 0 /\ popped = 0 /\ creating < Workers /\ deleting' = deleting - 1 /\ popped' = 1
        /\ UNCHANGED <<branches, creating, fresh, used, forgotten, Room>>
    BY <1>7 DEF popENIFromDeleteQueue, Room
  <2> QED
    BY <1>0, <2>1 DEF BranchType
<1>8. CASE DeleteCooledDownENIs
  <2>1. popped = 1 /\ popped' = 0 /\ UNCHANGED <<branches, creating, fresh, Room>>
    BY <1>8 DEF DeleteCooledDownENIs, Room
  <2>2. \/ used' = used - 1 /\ UNCHANGED <<deleting, forgotten>>
        \/ deleting' = deleting + 1 /\ UNCHANGED <<used, forgotten>>
        \/ forgotten' = forgotten + 1 /\ UNCHANGED <<used, deleting>>
    BY <1>8 DEF DeleteCooledDownENIs
  <2> QED
    BY <1>0, <2>1, <2>2 DEF BranchType, MaxAllocatableVlanIds
<1>9. CASE LoadDetails \/ LoadDetailsFails \/ InitWithoutAttach \/ InitTrunk \/ AttachTrunk \/ IPAMDAttaches \/ InitPools
           \/ PrefixDelegationToggled \/ UpdateResources \/ UpdateCurrentSubnetAndCidrBlock
           \/ (\E p \in {"branch", "ip", "prefix"} : UpdateResourceCapacity(p))
           \/ SetNewCustomNetworkingSpec \/ KubeletResetsCapacity \/ UNCHANGED vars
  <2>1. UNCHANGED branch
    BY <1>9 DEF LoadDetails, LoadDetailsFails, InitWithoutAttach, InitTrunk, AttachTrunk, IPAMDAttaches, InitPools,
                PrefixDelegationToggled, UpdateResources, UpdateCurrentSubnetAndCidrBlock, UpdateResourceCapacity,
                SetNewCustomNetworkingSpec, KubeletResetsCapacity, vars
  <2> QED
    BY <1>0, <2>1 DEF branch, BranchType, Room
<1> QED
  BY <1>1, <1>2, <1>3, <1>4, <1>5, <1>6, <1>7, <1>8, <1>9 DEF Next, BranchWork

\* The indexes the instance object marks and picks are the default card's.
LEMMA InstanceStepType ==
  ASSUME Types, [Next]_vars
  PROVE  InstanceType'
<1>0. /\ type \in Limits /\ InterfaceType /\ InstanceType /\ UNCHANGED <<type, os, limit>>
      /\ maxInterfaces = limit /\ limit \in 1 .. 64
  BY LimitFacts, SameType DEF Types, InterfaceType
<1>1. discarded => InstanceType'
  BY DEF discarded, InstanceType
<1>2. CASE LoadDetails
  <2>1. {a[2] : a \in attached} \subseteq 0 .. limit - 1
    BY <1>0 DEF InterfaceType
  <2>2. freeIndex = None
    BY <1>0, <1>2 DEF LoadDetails, InstanceType
  <2> QED
    BY <1>0, <1>2, <2>1, <2>2 DEF LoadDetails, InstanceType
<1>3. CASE InitTrunk
  <2>1. CASE GetHighestUnusedDeviceIndex = None
    BY <1>1, <1>3, <2>1 DEF InitTrunk
  <2>2. CASE GetHighestUnusedDeviceIndex # None
    <3>1. GetHighestUnusedDeviceIndex \in 0 .. limit - 1
      BY <1>0, <2>2, HighestUnused
    <3> QED
      BY <1>0, <1>3, <2>2, <3>1 DEF InitTrunk, InstanceType
  <2> QED
    BY <2>1, <2>2
<1>4. CASE AttachTrunk
  BY <1>0, <1>1, <1>4 DEF AttachTrunk, InstanceType
<1>5. CASE InitWithoutAttach \/ InitPools
  BY <1>0, <1>5 DEF InitWithoutAttach, InitPools, InstanceType
<1>6. CASE LoadDetailsFails \/ IPAMDAttaches \/ AdmitBranch \/ BranchWork \/ PodDeleted
           \/ PrefixDelegationToggled \/ UpdateResources \/ UpdateCurrentSubnetAndCidrBlock
           \/ (\E p \in {"branch", "ip", "prefix"} : UpdateResourceCapacity(p))
           \/ SetNewCustomNetworkingSpec \/ KubeletResetsCapacity \/ UNCHANGED vars
  <2>1. UNCHANGED instance
    BY <1>6, BranchWorkFrame DEF LoadDetailsFails, IPAMDAttaches, AdmitBranch, PodDeleted,
                PrefixDelegationToggled, UpdateResources, UpdateCurrentSubnetAndCidrBlock, UpdateResourceCapacity,
                SetNewCustomNetworkingSpec, KubeletResetsCapacity, vars
  <2> QED
    BY <1>0, <2>1 DEF instance, InstanceType
<1> QED
  BY <1>2, <1>3, <1>4, <1>5, <1>6 DEF Next, BranchWork

\* The subnet, its CIDR block and the security groups keep their types.
LEMMA NetworkStepType ==
  ASSUME Types, [Next]_vars
  PROVE  NetworkType'
<1>0. NetworkType
  BY DEF Types
<1>1. discarded /\ UNCHANGED spec => NetworkType'
  <2> SUFFICES ASSUME discarded, UNCHANGED spec PROVE NetworkType'
    OBVIOUS
  <2>1. Unset \in [subnet : {"", "instance", "custom"}, cidr : {"", "instance", "custom"}, groups : {"", "primary", "custom"}]
    BY DEF Unset
  <2>2. spec' \in Specs /\ partial' \in BOOLEAN /\ current' = Unset
    BY <1>0 DEF discarded, NetworkType
  <2> QED
    BY <2>1, <2>2 DEF NetworkType
<1>2. CASE LoadDetails \/ UpdateCurrentSubnetAndCidrBlock
  <2>1. updateCurrentSubnetAndCidrBlock(spec) /\ UNCHANGED spec
    BY <1>2 DEF LoadDetails, UpdateCurrentSubnetAndCidrBlock
  <2> QED
    BY <1>0, <2>1, UpdateSubnetType DEF NetworkType
<1>3. CASE InitTrunk \/ AttachTrunk
  BY <1>0, <1>1, <1>3 DEF InitTrunk, AttachTrunk, NetworkType
<1>4. CASE SetNewCustomNetworkingSpec
  BY <1>0, <1>4 DEF SetNewCustomNetworkingSpec, NetworkType
<1>5. CASE LoadDetailsFails \/ InitWithoutAttach \/ IPAMDAttaches \/ AdmitBranch \/ BranchWork
           \/ PodDeleted \/ InitPools \/ PrefixDelegationToggled \/ UpdateResources
           \/ (\E p \in {"branch", "ip", "prefix"} : UpdateResourceCapacity(p))
           \/ KubeletResetsCapacity \/ UNCHANGED vars
  <2>1. UNCHANGED network
    BY <1>5, BranchWorkFrame DEF LoadDetailsFails, InitWithoutAttach, IPAMDAttaches, AdmitBranch, PodDeleted,
                InitPools, PrefixDelegationToggled, UpdateResources, UpdateResourceCapacity, KubeletResetsCapacity, vars
  <2> QED
    BY <1>0, <2>1 DEF network, NetworkType
<1> QED
  BY <1>2, <1>3, <1>4, <1>5 DEF Next, BranchWork

\* The address providers and the capacity keep their types.
LEMMA AddressStepType ==
  ASSUME Types, [Next]_vars
  PROVE  AddressType'
<1>0. AddressType /\ type \in Limits
  BY DEF Types, InterfaceType
<1>1. supported \subseteq {"branch", "ip", "prefix"}
  BY DEF supported
<1>2. ASSUME NEW p \in {"branch", "ip", "prefix"} PROVE nodeCapacity(p) \in Nat
  <2>1. type.BranchInterface \in 0 .. 120 /\ type.IPv4PerInterface \in Nat \ {0}
    BY <1>0, LimitFacts
  <2>2. type.BranchInterface \in Nat /\ type.IPv4PerInterface - 1 \in Nat /\ (type.IPv4PerInterface - 1) * 16 \in Nat
    BY <2>1
  <2> QED
    BY <2>2 DEF nodeCapacity, NumIPv4AddrPerPrefix
<1>3. CASE LoadDetails \/ LoadDetailsFails \/ InitWithoutAttach \/ IPAMDAttaches \/ AdmitBranch \/ BranchWork
           \/ PodDeleted \/ SetNewCustomNetworkingSpec \/ UNCHANGED vars
  <2>1. UNCHANGED <<address, todo, capacity>>
    BY <1>3, BranchWorkFrame DEF LoadDetails, LoadDetailsFails, InitWithoutAttach, IPAMDAttaches, AdmitBranch,
        PodDeleted, SetNewCustomNetworkingSpec, vars
  <2> QED
    BY <1>0, <2>1 DEF AddressType, address
<1>4. CASE InitTrunk \/ AttachTrunk
  <2>1. UNCHANGED <<address, capacity>> /\ (todo' = {} \/ UNCHANGED todo)
    BY <1>4 DEF InitTrunk, AttachTrunk, discarded
  <2> QED
    BY <1>0, <2>1 DEF AddressType, address
<1>5. CASE InitPools
  <2>1. prevPD' \in [{"ip", "prefix"} -> BOOLEAN]
    BY <1>0, <1>5 DEF InitPools, AddressType
  <2>2. active' \subseteq {"ip", "prefix"}
    BY <1>5 DEF InitPools
  <2> QED
    BY <1>0, <1>5, <2>1, <2>2 DEF InitPools, AddressType
<1>6. CASE PrefixDelegationToggled
  <2>1. pdEnabled' \in BOOLEAN
    BY <1>6 DEF PrefixDelegationToggled
  <2> QED
    BY <1>0, <1>6, <2>1 DEF PrefixDelegationToggled, AddressType
<1>7. CASE UpdateResources \/ UpdateCurrentSubnetAndCidrBlock \/ KubeletResetsCapacity
  <2>1. UNCHANGED address /\ (capacity' = 0 \/ UNCHANGED capacity)
    BY <1>7 DEF UpdateResources, UpdateCurrentSubnetAndCidrBlock, KubeletResetsCapacity
  <2>2. todo' = supported \cup {"subnet"} \/ todo' = {} \/ UNCHANGED todo
    BY <1>7 DEF UpdateResources, UpdateCurrentSubnetAndCidrBlock, KubeletResetsCapacity
  <2>3. todo' \subseteq {"branch", "ip", "prefix", "subnet"}
    BY <1>0, <1>1, <2>2 DEF AddressType
  <2> QED
    BY <1>0, <2>1, <2>3 DEF AddressType, address
<1>8. ASSUME NEW p \in {"branch", "ip", "prefix"}, UpdateResourceCapacity(p) PROVE AddressType'
  <2>1. pdEnabled' = pdEnabled
    BY <1>8 DEF UpdateResourceCapacity
  <2>2. prevPD' \in [{"ip", "prefix"} -> BOOLEAN]
    <3>1. UNCHANGED prevPD \/ \E b \in BOOLEAN : prevPD' = [prevPD EXCEPT ![p] = b]
      BY <1>0, <1>8 DEF UpdateResourceCapacity, AddressType
    <3> QED
      BY <1>0, <3>1 DEF AddressType
  <2>3. active' \subseteq {"ip", "prefix"}
    <3>1. \/ active' \subseteq active
          \/ p # "branch" /\ active' = active \cup {p}
      BY <1>8 DEF UpdateResourceCapacity
    <3> QED
      BY <1>0, <3>1 DEF AddressType
  <2>4. todo' \subseteq todo /\ capacity' \in {capacity, nodeCapacity(p)}
    BY <1>8 DEF UpdateResourceCapacity, advertises
  <2> QED
    BY <1>0, <1>2, <2>1, <2>2, <2>3, <2>4 DEF AddressType
<1> QED
  BY <1>3, <1>4, <1>5, <1>6, <1>7, <1>8 DEF Next, BranchWork

\* The errors and the counters keep their types.
LEMMA CounterStepType ==
  ASSUME Types, [Next]_vars
  PROVE  CounterType'
<1>0. CounterType /\ NetworkType
  BY DEF Types
<1>1. error' \in {"none", "occupied", "beyondCard", "noIndex", "noVlan"}
  BY <1>0, BranchWorkFrame DEF Next, BranchWork, LoadDetails, LoadDetailsFails, InitWithoutAttach, InitTrunk,
      AttachTrunk, IPAMDAttaches, AdmitBranch,
         PodDeleted, InitPools, PrefixDelegationToggled, UpdateResources,
              UpdateCurrentSubnetAndCidrBlock, UpdateResourceCapacity, SetNewCustomNetworkingSpec, KubeletResetsCapacity,
              vars, CounterType
<1>2. happens \/ UNCHANGED events
  BY BranchWorkFrame DEF Next, BranchWork, LoadDetails, LoadDetailsFails, InitWithoutAttach, InitTrunk,
      AttachTrunk, IPAMDAttaches, AdmitBranch,
         PodDeleted, InitPools, PrefixDelegationToggled, UpdateResources,
         UpdateCurrentSubnetAndCidrBlock, UpdateResourceCapacity, SetNewCustomNetworkingSpec, KubeletResetsCapacity, vars
<1>3. fails \/ UNCHANGED failures
  <2>1. CASE LoadDetails \/ UpdateCurrentSubnetAndCidrBlock
    BY <1>0, <2>1, UpdateSubnetType DEF LoadDetails, UpdateCurrentSubnetAndCidrBlock
  <2>2. CASE \E p \in {"branch", "ip", "prefix"} : UpdateResourceCapacity(p)
    BY <2>2 DEF UpdateResourceCapacity, advertises
  <2> QED
    BY <2>1, <2>2, BranchWorkFrame
    DEF Next, BranchWork, LoadDetailsFails, InitWithoutAttach, InitTrunk, AttachTrunk, IPAMDAttaches, AdmitBranch,
        PodDeleted, InitPools, PrefixDelegationToggled, UpdateResources, SetNewCustomNetworkingSpec,
        KubeletResetsCapacity, vars
<1>5. late' \in BOOLEAN
  BY <1>0, BranchWorkFrame DEF Next, BranchWork, LoadDetails, LoadDetailsFails, InitWithoutAttach, InitTrunk, AttachTrunk,
     IPAMDAttaches, AdmitBranch, PodDeleted, InitPools, PrefixDelegationToggled, UpdateResources,
     UpdateCurrentSubnetAndCidrBlock, UpdateResourceCapacity, SetNewCustomNetworkingSpec, KubeletResetsCapacity, vars, CounterType
<1>4. (happens => events' \in 0 .. MaxEvents) /\ (fails => failures' \in 0 .. MaxFailures)
  BY <1>0, CapacityAssumption DEF happens, fails, CounterType
<1> QED
  BY <1>0, <1>1, <1>2, <1>3, <1>4, <1>5 DEF CounterType

\* The states the controller may find are typed.
LEMMA InitTypes == Init => Types
<1> SUFFICES ASSUME Init PROVE Types
  OBVIOUS
<1>0. /\ type \in Limits /\ limit \in 1 .. 64 /\ type.DefaultNetworkCardIndex = 0 /\ Len(type.NetworkCards) \in Nat \ {0}
      /\ \A c \in 1 .. Len(type.NetworkCards) : type.NetworkCards[c] \in 1 .. limit
      /\ type.BranchInterface \in 0 .. 120 /\ (type.IsTrunkingCompatible => type.BranchInterface > 0)
  BY LimitFacts DEF Init
<1>1. InterfaceType
  <2>1. PICK k \in {1, limit - 1, limit}, other \in {0, Len(type.NetworkCards) - 1} :
          attached = {<<type.DefaultNetworkCardIndex, i>> : i \in 0 .. k - 1}
                       \cup {<<c, type.NetworkCards[c + 1] - 1>> : c \in {other} \ {0}}
    BY DEF Init
  <2>2. \A i \in 0 .. k - 1 : <<type.DefaultNetworkCardIndex, i>> \in (0 .. Len(type.NetworkCards) - 1) \X (0 .. limit - 1)
    BY <1>0
  <2>3. \A c \in {other} \ {0} : <<c, type.NetworkCards[c + 1] - 1>> \in (0 .. Len(type.NetworkCards) - 1) \X (0 .. limit - 1)
    BY <1>0
  <2>4. attached \subseteq (0 .. Len(type.NetworkCards) - 1) \X (0 .. limit - 1)
    BY <2>1, <2>2, <2>3
  <2> QED
    BY <2>4 DEF Init, InterfaceType
<1>2. BranchType
  <2>1. branches \in Nat
    <3>1. CASE branches = 0
      BY <3>1
    <3>2. CASE type.IsTrunkingCompatible /\ branches \in {0, type.BranchInterface - 1, type.BranchInterface}
      <4>1. type.BranchInterface \in Nat /\ type.BranchInterface > 0
        <5>1. type.BranchInterface > 0
          BY <1>0, <3>2, Zenon
        <5>2. type.BranchInterface \in 0 .. 120
          BY <1>0
        <5> QED
          BY <5>1, <5>2
      <4>2. type.BranchInterface - 1 \in Nat
        BY <4>1
      <4> QED
        BY <3>2, <4>1, <4>2
    <3> QED
      BY <3>1, <3>2 DEF Init
  <2>2. branches <= 120
    <3>1. \/ branches = 0
          \/ branches = type.BranchInterface - 1
          \/ branches = type.BranchInterface
      BY DEF Init
    <3>2. type.BranchInterface \in 0 .. 120
      BY <1>0
    <3> QED
      BY <3>1, <3>2
  <2>3. deleting = 0 /\ popped = 0 /\ creating = 0 /\ fresh = 0 /\ used = 1 + branches /\ forgotten = 0
    BY DEF Init
  <2>4. Room = 0 /\ Workers \in Nat
    BY <2>3, CapacityAssumption DEF Room
  <2> QED
    BY <2>1, <2>2, <2>3, <2>4 DEF BranchType, MaxAllocatableVlanIds
<1>3. InstanceType /\ NetworkType
  BY DEF Init, InstanceType, NetworkType, Unset, Specs
<1>4. AddressType
  <2>1. pdEnabled \in BOOLEAN
    BY DEF Init
  <2> QED
    BY <2>1 DEF Init, AddressType
<1>5. CounterType
  <2>1. late \in BOOLEAN /\ error = "none" /\ events = 0 /\ failures = 0
    BY DEF Init
  <2> QED
    BY <2>1, CapacityAssumption DEF CounterType
<1> QED
  BY <1>1, <1>2, <1>3, <1>4, <1>5 DEF Types

\* The types hold in every reachable state.
LEMMA TypesInvariant == Spec => []Types
<1>1. Types /\ [Next]_vars => Types'
  BY InterfaceStepType, BranchStepType, InstanceStepType, NetworkStepType, AddressStepType, CounterStepType DEF Types
<1>2. Types /\ UNCHANGED vars => Types'
  BY <1>1
<1> QED
  BY <1>1, <1>2, InitTypes, PTL DEF Spec

\* The instance, its interfaces and indexes, its subnet and the advertised
\* capacity keep their types: an index is marked and picked only within the
\* device slice, and the trunk is on the default card.
THEOREM TypeCorrect == Spec => []TypeOK
<1> QED
  BY TypesInvariant, TypesImply, PTL

-----------------------------------------------------------------------------
(***************************************************************************)
(* The device slice and the trunk's index.  Until IPAMD attaches another   *)
(* interface, a loaded instance knows every index the default card has     *)
(* taken, and the one it picked for the trunk is still free.               *)
(***************************************************************************)
IndexInv ==
  /\ NoPanic /\ error # "beyondCard"
  /\ ~late /\ status = "loaded" => onDefaultCard \subseteq deviceIndexes
  /\ ~late /\ status = "attaching" => freeIndex \notin onDefaultCard

\* The slice is large enough for every attached interface, and what is picked is
\* unused.
LEMMA IndexStep ==
  ASSUME Types, IndexInv, [Next]_vars
  PROVE  IndexInv'
<1>0. /\ type \in Limits /\ InterfaceType /\ InstanceType /\ BranchType /\ CounterType /\ UNCHANGED <<type, os, limit>>
      /\ maxInterfaces = limit /\ limit \in 1 .. 64
  BY LimitFacts, SameType DEF Types, InterfaceType
<1>1. CASE LoadDetails
  <2> DEFINE indexes == {a[2] : a \in attached}
  <2>1. \A i \in indexes : i \in 0 .. limit - 1
    BY <1>0 DEF InterfaceType
  <2>2. \A i \in indexes : i < maxInterfaces
    <3> HIDE DEF indexes
    <3> SUFFICES ASSUME NEW i \in indexes PROVE i < maxInterfaces
      OBVIOUS
    <3>1. i \in 0 .. limit - 1
      BY <2>1
    <3>2. i < limit
      BY <1>0, <3>1
    <3> QED
      BY <1>0, <3>2
  <2>3. status' = "loaded" /\ deviceIndexes' = indexes /\ UNCHANGED <<attached, error>>
    BY <1>1, <2>2 DEF LoadDetails, ec2
  <2>4. onDefaultCard' \subseteq indexes
    BY <1>0, <2>3 DEF onDefaultCard
  <2> QED
    BY <2>3, <2>4 DEF IndexInv, NoPanic
<1>2. CASE InitTrunk
  <2>1. UNCHANGED <<attached, onDefaultCard, late>>
    BY <1>0, <1>2 DEF InitTrunk, ec2, onDefaultCard
  <2>2. CASE GetHighestUnusedDeviceIndex = None
    BY <1>2, <2>2 DEF InitTrunk, discarded, IndexInv, NoPanic
  <2>3. CASE GetHighestUnusedDeviceIndex # None
    <3>1. GetHighestUnusedDeviceIndex \notin deviceIndexes
      BY <1>0, <2>3, HighestUnused
    <3>2. status = "loaded" /\ status' = "attaching" /\ freeIndex' = GetHighestUnusedDeviceIndex /\ UNCHANGED error
      BY <1>2, <2>3 DEF InitTrunk
    <3> QED
      BY <2>1, <3>1, <3>2 DEF IndexInv, NoPanic
  <2> QED
    BY <2>2, <2>3
<1>3. CASE AttachTrunk
  <2>1. freeIndex \in 0 .. limit - 1
    BY <1>0, <1>3 DEF AttachTrunk, InstanceType
  <2>2. freeIndex < limit
    BY <1>0, <2>1
  <2>3. status' \in {"ready", "new"} /\ error' \in {error, "occupied"}
    BY <1>0, <1>3, <2>1, <2>2 DEF AttachTrunk, discarded
  <2> QED
    BY <2>3 DEF IndexInv, NoPanic
<1>4. CASE IPAMDAttaches
  <2>1. late' = TRUE /\ UNCHANGED <<status, error>>
    BY <1>4 DEF IPAMDAttaches, instance
  <2> QED
    BY <2>1 DEF IndexInv, NoPanic
<1>5. CASE UNCHANGED <<instance, attached, late>> /\ (error' = error \/ error' = "noVlan")
  <2>1. UNCHANGED <<status, deviceIndexes, freeIndex, onDefaultCard>>
    BY <1>0, <1>5 DEF onDefaultCard, instance
  <2>2. NoPanic' /\ error' # "beyondCard"
    BY <1>5, <2>1 DEF IndexInv, NoPanic
  <2>3. ~late' => ~late
    BY <1>5
  <2> QED
    BY <2>1, <2>2, <2>3 DEF IndexInv
<1>6. CASE InitWithoutAttach \/ InitPools
  <2>1. status' = "ready" /\ UNCHANGED error
    BY <1>6 DEF InitWithoutAttach, InitPools
  <2> QED
    BY <2>1 DEF IndexInv, NoPanic
<1>7. CASE LoadDetailsFails \/ BranchWork \/ AdmitBranch \/ PodDeleted \/ PrefixDelegationToggled \/ UpdateResources
           \/ UpdateCurrentSubnetAndCidrBlock \/ (\E p \in {"branch", "ip", "prefix"} : UpdateResourceCapacity(p))
           \/ SetNewCustomNetworkingSpec \/ KubeletResetsCapacity \/ UNCHANGED vars
  <2>1. UNCHANGED <<instance, attached, late>> /\ (error' = error \/ error' = "noVlan")
    BY <1>7, BranchWorkFrame
    DEF LoadDetailsFails, AdmitBranch, PodDeleted, PrefixDelegationToggled, UpdateResources,
        UpdateCurrentSubnetAndCidrBlock, UpdateResourceCapacity, SetNewCustomNetworkingSpec, KubeletResetsCapacity, vars, ec2
  <2> QED
    BY <1>5, <2>1
<1> QED
  BY <1>1, <1>2, <1>3, <1>4, <1>6, <1>7 DEF Next, BranchWork

\* The indexes are right in every reachable state.
LEMMA IndexInvariant == Spec => []IndexInv
<1>1. Init => IndexInv
  BY DEF Init, IndexInv, NoPanic
<1>2. Types /\ IndexInv /\ [Next]_vars => IndexInv'
  BY IndexStep
<1> QED
  BY <1>1, <1>2, TypesInvariant, PTL DEF Spec

\* LoadDetails never writes beyond the slice of device indexes, for every
\* instance type of the table and any interfaces on any of its cards.
THEOREM NoIndexPanic == Spec => []NoPanic
<1>1. IndexInv => NoPanic
  BY DEF IndexInv
<1> QED
  BY <1>1, IndexInvariant, PTL

\* The trunk's device index is one of the default card's, and only an interface
\* that IPAMD attached after the instance was loaded can be in its place.
THEOREM TrunkIndexIsValid == Spec => []TrunkIndexValid
<1>1. IndexInv => TrunkIndexValid
  BY DEF IndexInv, TrunkIndexValid
<1> QED
  BY <1>1, IndexInvariant, PTL

-----------------------------------------------------------------------------
(***************************************************************************)
(* The limit of branch interfaces.  An admitted creation may still make    *)
(* EniCount of them; the delete worker's interface occupies a worker that  *)
(* no creation has.                                                        *)
(***************************************************************************)
Reserved == branches + deleting + popped + Room

AdmittedFits == Reserved <= type.BranchInterface - 1 + Excess

\* The creations and the delete worker share the workers, and each creation has
\* room for EniCount interfaces.
LEMMA WorkersShared ==
  BranchType => popped + Room <= Excess
<1> SUFFICES ASSUME BranchType PROVE popped + Room <= Excess
  OBVIOUS
<1>0. creating \in Nat /\ (popped = 0 \/ popped = 1) /\ creating + popped <= Workers
  BY BranchNats DEF BranchType
<1>1. \A w, e, c \in Nat : c <= w => e * c <= w * e
  OBVIOUS
<1>2. Workers \in Nat \ {0} /\ EniCount \in Nat \ {0}
  BY CapacityAssumption
<1>3. CASE popped = 0
  <2>1. creating <= Workers
    BY <1>0, <1>2, <1>3
  <2>2. Room <= Excess
    BY <1>0, <1>1, <1>2, <2>1 DEF Room, Excess
  <2>3. Room \in Nat
    BY <1>0, Products
  <2> QED
    BY <1>3, <2>2, <2>3
<1>4. CASE popped = 1
  <2>1. creating + 1 <= Workers /\ creating + 1 \in Nat
    BY <1>0, <1>2, <1>4
  <2>2. EniCount * (creating + 1) <= Excess
    BY <1>1, <1>2, <2>1 DEF Excess
  <2>3. EniCount * (creating + 1) = Room + EniCount
    BY <1>0, <1>2 DEF Room
  <2>4. Room \in Nat /\ Excess \in Nat
    BY <1>0, Products
  <2>5. Room + EniCount <= Excess
    BY <2>2, <2>3
  <2> QED
    BY <1>2, <1>4, <2>4, <2>5
<1> QED
  BY <1>0, <1>3, <1>4

\* Work on admitted or queued interfaces never reserves more.
LEMMA ReservedShrinks ==
  ASSUME BranchType, BranchType', BranchWork \/ PodDeleted
  PROVE  Reserved' <= Reserved
<1>0. EniCount \in Nat \ {0} /\ Room \in Nat
  BY Products DEF BranchType
<1>1. ASSUME NEW k \in 0 .. EniCount, creationEnds(k), branches' + deleting' <= branches + deleting + k
      PROVE  Reserved' <= Reserved
  <2>1. creating = creating' + 1 /\ creating' \in Nat /\ popped' = popped
    BY <1>1, CreationEndsType
  <2>2. Room = Room' + EniCount /\ Room' \in Nat
    BY <2>1, Products DEF BranchType
  <2>3. branches \in Nat /\ deleting \in Nat /\ popped \in Nat /\ branches' \in Nat /\ deleting' \in Nat /\ k \in Nat
        /\ k <= EniCount
    BY <1>0 DEF BranchType
  <2>4. \A b, d, p, r, e, bb, dd, j \in Nat : bb + dd <= b + d + j /\ j <= e => bb + dd + p + r <= b + d + p + (r + e)
    OBVIOUS
  <2>5. branches' + deleting' + popped + Room' <= branches + deleting + popped + (Room' + EniCount)
    BY <1>0, <1>1, <2>2, <2>3, <2>4
  <2> QED
    BY <2>1, <2>2, <2>5 DEF Reserved
<1>2. ASSUME UNCHANGED creating, branches' + deleting' + popped' <= branches + deleting + popped
      PROVE  Reserved' <= Reserved
  <2>1. Room' = Room
    BY <1>2 DEF Room
  <2>2. branches' + deleting' + popped' \in Nat /\ branches + deleting + popped \in Nat
    BY BranchNats, BranchNatsNext
  <2> QED
    BY <1>0, <1>2, <2>1, <2>2 DEF Reserved
<1>3. CASE AssignVlanId
  <2>1. CASE \E k \in 0 .. EniCount - 1 : creationEnds(k) /\ deleting' = deleting + k /\ UNCHANGED branches
    <3>1. PICK k \in 0 .. EniCount - 1 : creationEnds(k) /\ deleting' = deleting + k /\ UNCHANGED branches
      BY <2>1
    <3>2. k \in 0 .. EniCount /\ branches' + deleting' <= branches + deleting + k
      BY <1>0, <3>1 DEF BranchType
    <3> QED
      BY <1>1, <3>1, <3>2
  <2>2. CASE UNCHANGED <<branches, deleting, popped, creating>>
    <3>1. branches' + deleting' + popped' <= branches + deleting + popped
      BY <2>2 DEF BranchType
    <3> QED
      BY <1>2, <2>2, <3>1
  <2> QED
    BY <1>3, <2>1, <2>2 DEF AssignVlanId
<1>4. CASE CreationFails
  <2>1. PICK k \in 0 .. EniCount - 1 : creationEnds(k + 1) /\ deleting' = deleting + k /\ UNCHANGED branches
    BY <1>4 DEF CreationFails
  <2>2. k + 1 \in 0 .. EniCount /\ branches' + deleting' <= branches + deleting + (k + 1)
    BY <1>0, <2>1 DEF BranchType
  <2> QED
    BY <1>1, <2>1, <2>2
<1>5. CASE AssociationFails
  <2>1. PICK k \in 1 .. EniCount : creationEnds(k) /\ deleting' = deleting + k /\ UNCHANGED branches
    BY <1>5 DEF AssociationFails
  <2>2. k \in 0 .. EniCount /\ branches' + deleting' <= branches + deleting + k
    BY <1>0, <2>1 DEF BranchType
  <2> QED
    BY <1>1, <2>1, <2>2
<1>6. CASE CacheBranches
  <2>1. PICK k \in 1 .. EniCount : creationEnds(k) /\ branches' = branches + k /\ UNCHANGED deleting
    BY <1>6 DEF CacheBranches
  <2>2. k \in 0 .. EniCount /\ branches' + deleting' <= branches + deleting + k
    BY <1>0, <2>1 DEF BranchType
  <2> QED
    BY <1>1, <2>1, <2>2
<1>7. CASE PodDeleted
  <2>1. PICK k \in 1 .. EniCount : k <= branches /\ branches' = branches - k /\ deleting' = deleting + k
    BY <1>7 DEF PodDeleted
  <2>2. k \in Nat /\ UNCHANGED <<popped, creating>>
    BY <1>0, <1>7 DEF PodDeleted
  <2>3. branches' + deleting' + popped' <= branches + deleting + popped
    BY <2>1, <2>2 DEF BranchType
  <2> QED
    BY <1>2, <2>2, <2>3
<1>8. CASE popENIFromDeleteQueue
  <2>1. deleting' = deleting - 1 /\ popped = 0 /\ popped' = 1 /\ UNCHANGED <<branches, creating>>
    BY <1>8 DEF popENIFromDeleteQueue
  <2>2. branches' + deleting' + popped' <= branches + deleting + popped
    BY <2>1, BranchNats, BranchNatsNext
  <2> QED
    BY <1>2, <2>1, <2>2
<1>9. CASE DeleteCooledDownENIs
  <2>1. popped = 1 /\ popped' = 0 /\ UNCHANGED <<branches, creating>> /\ (deleting' = deleting \/ deleting' = deleting + 1)
    BY <1>9 DEF DeleteCooledDownENIs
  <2>2. branches' + deleting' + popped' <= branches + deleting + popped
    BY <2>1, BranchNats, BranchNatsNext
  <2> QED
    BY <1>2, <2>1, <2>2
<1> QED
  BY <1>3, <1>4, <1>5, <1>6, <1>7, <1>8, <1>9 DEF BranchWork

\* Every step leaves room for what is admitted.
LEMMA AdmittedStep ==
  ASSUME Types, AdmittedFits, [Next]_vars
  PROVE  AdmittedFits'
<1>0. BranchType /\ BranchType' /\ UNCHANGED type /\ type.BranchInterface \in Nat
  <2>1. BranchType /\ type \in Limits
    BY DEF Types, InterfaceType
  <2>2. type.BranchInterface \in 0 .. 120
    BY <2>1, LimitFacts
  <2> QED
    BY <2>1, <2>2, SameType, BranchStepType
<1>1. /\ Reserved \in Nat /\ Excess \in Nat /\ Room' \in Nat /\ Reserved' \in Nat
  <2>1. Room \in Nat /\ Excess \in Nat
    BY <1>0, BranchNats, Products
  <2>2. Room' \in Nat
    <3>1. creating' \in Nat /\ EniCount \in Nat
      BY <1>0, BranchNatsNext, CapacityAssumption
    <3>2. \A e, c \in Nat : e * c \in Nat
      OBVIOUS
    <3> QED
      BY <3>1, <3>2 DEF Room
  <2>3. branches + deleting + popped \in Nat /\ branches' + deleting' + popped' \in Nat
    BY <1>0, BranchNats, BranchNatsNext
  <2> QED
    BY <2>1, <2>2, <2>3 DEF Reserved
<1>2. CASE AdmitBranch
  <2>1. branches + deleting < type.BranchInterface /\ UNCHANGED <<branches, deleting>>
    BY <1>2 DEF AdmitBranch, canCreateMore
  <2>2. popped' + Room' <= Excess
    <3>1. BranchType' => (popped + Room <= Excess)'
      BY WorkersShared, PTL
    <3> QED
      BY <1>0, <3>1 DEF Excess
  <2>3. branches + deleting + popped' + Room' <= type.BranchInterface - 1 + Excess
    <3>1. \A b, d, p, r, l, x \in Nat : b + d < l /\ p + r <= x => b + d + p + r <= l - 1 + x
      OBVIOUS
    <3> QED
      BY <1>0, <1>1, <2>1, <2>2, <3>1, BranchNats, BranchNatsNext
  <2>4. Excess' = Excess
    BY DEF Excess
  <2> QED
    BY <1>0, <2>1, <2>3, <2>4 DEF AdmittedFits, Reserved
<1>3. CASE BranchWork \/ PodDeleted
  <2>1. Reserved' <= Reserved
    BY <1>0, <1>3, ReservedShrinks
  <2>2. Excess' = Excess
    BY DEF Excess
  <2> QED
    BY <1>0, <1>1, <2>1, <2>2 DEF AdmittedFits
<1>4. CASE LoadDetails \/ LoadDetailsFails \/ InitWithoutAttach \/ InitTrunk \/ AttachTrunk \/ IPAMDAttaches \/ InitPools
           \/ PrefixDelegationToggled \/ UpdateResources \/ UpdateCurrentSubnetAndCidrBlock
           \/ (\E p \in {"branch", "ip", "prefix"} : UpdateResourceCapacity(p))
           \/ SetNewCustomNetworkingSpec \/ KubeletResetsCapacity \/ UNCHANGED vars
  <2>1. UNCHANGED branch
    BY <1>4 DEF LoadDetails, LoadDetailsFails, InitWithoutAttach, InitTrunk, AttachTrunk, IPAMDAttaches, InitPools,
                PrefixDelegationToggled, UpdateResources, UpdateCurrentSubnetAndCidrBlock, UpdateResourceCapacity,
                SetNewCustomNetworkingSpec, KubeletResetsCapacity, vars
  <2>2. UNCHANGED <<Reserved, Excess>>
    BY <2>1 DEF branch, Reserved, Room, Excess
  <2> QED
    BY <1>0, <2>2 DEF AdmittedFits
<1> QED
  BY <1>2, <1>3, <1>4 DEF Next, BranchWork

\* For every instance type, any number of workers and any pods, the branch
\* interfaces of a node exceed its type's limit by less than what all workers
\* together may be creating.
THEOREM BranchLimitRespected == Spec => []LimitRespected
<1>1. Init => AdmittedFits
  <2> SUFFICES ASSUME Init PROVE AdmittedFits
    OBVIOUS
  <2>1. type.BranchInterface \in 0 .. 120 /\ popped = 0 /\ creating = 0 /\ deleting = 0
    BY LimitFacts DEF Init
  <2>2. branches \in Nat /\ Room = 0 /\ Excess \in Nat \ {0}
    BY <2>1, InitTypes, Products DEF Types, BranchType
  <2>3. branches = 0 \/ branches = type.BranchInterface - 1 \/ branches = type.BranchInterface
    BY DEF Init
  <2> QED
    BY <2>1, <2>2, <2>3 DEF AdmittedFits, Reserved
<1>2. Types /\ AdmittedFits /\ [Next]_vars => AdmittedFits'
  BY AdmittedStep
<1>3. Types /\ AdmittedFits => LimitRespected
  <2> SUFFICES ASSUME Types, AdmittedFits
               PROVE  branches + deleting + popped + fresh <= type.BranchInterface - 1 + Excess
    BY DEF LimitRespected, Excess
  <2>1. type.BranchInterface \in 0 .. 120 /\ BranchType
    BY LimitFacts DEF Types, InterfaceType
  <2>2. Room \in Nat /\ Excess \in Nat
    BY <2>1, Products DEF BranchType
  <2> QED
    BY <2>1, <2>2 DEF AdmittedFits, Reserved, BranchType
<1> QED
  BY <1>1, <1>2, <1>3, TypesInvariant, PTL DEF Spec

\* For every instance type a creation that finds no VLAN id meets a node whose
\* interfaces, those under way, in deletion and forgotten included, fill the
\* advertised capacity.
THEOREM VlanIdsSuffice == Spec => VlanForCapacity
<1>1. ASSUME Types, Next, error # "noVlan", error' = "noVlan"
      PROVE  branches + deleting + popped + fresh + forgotten >= type.BranchInterface
  <2>1. used >= MaxAllocatableVlanIds
    BY <1>1 DEF Next, LoadDetails, LoadDetailsFails, InitWithoutAttach, InitTrunk, AttachTrunk, IPAMDAttaches, AdmitBranch,
                AssignVlanId, CreationFails, AssociationFails, CacheBranches, popENIFromDeleteQueue, DeleteCooledDownENIs,
                PodDeleted, InitPools, PrefixDelegationToggled, UpdateResources, discarded,
                UpdateCurrentSubnetAndCidrBlock, UpdateResourceCapacity, SetNewCustomNetworkingSpec, KubeletResetsCapacity
  <2>2. type.BranchInterface \in 0 .. 120 /\ BranchType
    BY <1>1, LimitFacts DEF Types, InterfaceType
  <2> QED
    BY <2>1, <2>2 DEF MaxAllocatableVlanIds, BranchType
<1>2. Types /\ [Next]_vars =>
        [error # "noVlan" /\ error' = "noVlan" =>
           branches + deleting + popped + fresh + forgotten >= type.BranchInterface]_vars
  BY <1>1
<1> QED
  BY <1>2, TypesInvariant, PTL DEF Spec, VlanForCapacity

-----------------------------------------------------------------------------
(***************************************************************************)
(* The subnet.  SubnetConsistent is inductive with the types: what the     *)
(* spec says is one of three cases.                                        *)
(***************************************************************************)

\* An update makes the triple consistent, or changes only the groups.
LEMMA UpdateSubnetConsistent ==
  ASSUME NetworkType, SubnetConsistent, updateCurrentSubnetAndCidrBlock(spec)
  PROVE  SubnetConsistent'
<1> DEFINE groups == IF spec.groups = "" THEN "primary" ELSE spec.groups
           subnet == IF spec.subnet = "" THEN "instance" ELSE spec.subnet
<1>1. \/ subnet = "instance" /\ groups = "primary"
      \/ subnet = "custom" /\ groups \in {"primary", "custom"}
  <2>1. CASE spec = [subnet |-> "", groups |-> ""]
    BY <2>1
  <2>2. CASE spec = [subnet |-> "custom", groups |-> "custom"]
    BY <2>2
  <2>3. CASE spec = [subnet |-> "custom", groups |-> ""]
    BY <2>3
  <2> QED
    BY <2>1, <2>2, <2>3 DEF NetworkType, Specs, NoSpec
<1>2. \/ current' = [subnet |-> subnet, cidr |-> subnet, groups |-> groups]
      \/ current' = [current EXCEPT !.groups = groups] /\ partial' = TRUE
  BY DEF updateCurrentSubnetAndCidrBlock
<1> HIDE DEF groups, subnet
<1>3. CASE current' = [subnet |-> subnet, cidr |-> subnet, groups |-> groups]
  <2>1. current'.cidr = subnet /\ current'.subnet = subnet /\ current'.groups = groups
    BY <1>3
  <2> QED
    BY <1>1, <2>1 DEF SubnetConsistent
<1>4. CASE current' = [current EXCEPT !.groups = groups] /\ partial' = TRUE
  <2>1. current'.cidr = current.cidr /\ current'.subnet = current.subnet
    BY <1>4 DEF NetworkType
  <2> QED
    BY <1>4, <2>1 DEF SubnetConsistent
<1> QED
  BY <1>2, <1>3, <1>4

\* The CIDR block in use is always the one of the subnet in use, and without a
\* failed update the security groups come from the spec of that subnet.
THEOREM SubnetStaysConsistent == Spec => []SubnetConsistent
<1>1. Init => SubnetConsistent
  <2>1. Init => current = Unset
    BY DEF Init
  <2>2. Unset.cidr = Unset.subnet
    BY DEF Unset
  <2> QED
    BY <2>1, <2>2 DEF SubnetConsistent
<1>2. ASSUME Types, SubnetConsistent, [Next]_vars PROVE SubnetConsistent'
  <2>1. CASE LoadDetails \/ UpdateCurrentSubnetAndCidrBlock
    <3>1. updateCurrentSubnetAndCidrBlock(spec)
      BY <2>1 DEF LoadDetails, UpdateCurrentSubnetAndCidrBlock
    <3> QED
      BY <1>2, <3>1, UpdateSubnetConsistent DEF Types
  <2>2. CASE InitTrunk \/ AttachTrunk
    <3>1. current' = Unset \/ UNCHANGED <<current, partial>>
      BY <2>2 DEF InitTrunk, AttachTrunk, discarded
    <3>2. Unset.cidr = Unset.subnet
      BY DEF Unset
    <3> QED
      BY <1>2, <3>1, <3>2 DEF SubnetConsistent
  <2>3. CASE LoadDetailsFails \/ InitWithoutAttach \/ IPAMDAttaches \/ AdmitBranch \/ BranchWork \/ PodDeleted
             \/ InitPools \/ PrefixDelegationToggled \/ UpdateResources
             \/ (\E p \in {"branch", "ip", "prefix"} : UpdateResourceCapacity(p))
             \/ SetNewCustomNetworkingSpec \/ KubeletResetsCapacity \/ UNCHANGED vars
    <3>1. UNCHANGED <<current, partial>>
      BY <2>3, BranchWorkFrame DEF LoadDetailsFails, InitWithoutAttach, IPAMDAttaches, AdmitBranch, PodDeleted,
                  InitPools, PrefixDelegationToggled, UpdateResources, UpdateResourceCapacity, SetNewCustomNetworkingSpec,
                  KubeletResetsCapacity, network, vars
    <3> QED
      BY <1>2, <3>1 DEF SubnetConsistent
  <2> QED
    BY <1>2, <2>1, <2>2, <2>3 DEF Next, BranchWork
<1> QED
  BY <1>1, <1>2, TypesInvariant, PTL DEF Spec
=============================================================================
