------------------------ MODULE WarmPoolSafetyProofs ------------------------
(***************************************************************************)
(* The safety of the warm pool: no address is in two places, none is       *)
(* reused early, what is announced exists, and the pending counters are    *)
(* exact.  The four are proved together, for any number of pods,           *)
(* addresses, jobs, re-syncs and restarts and any warm targets, and for    *)
(* all faults but one: a refused unassignment of secondary addresses       *)
(* (whose names lose their mask).                                          *)
(***************************************************************************)
EXTENDS WarmPoolProofs

Contract == isPDPool \/ "UnassignFails" \notin Faults

-----------------------------------------------------------------------------
(***************************************************************************)
(* The invariant.                                                          *)
(***************************************************************************)

\* Addresses spelt with their mask, which is how EC2's are spelt.
mask == TRUE
Proper == {r \in Resource : r[2] = mask}

usedSet == {usedResources[p] : p \in Used}
coolingSet == {coolDownQueue[i].res : i \in DOMAIN coolDownQueue}
warmSet == {r \in Resource : warmResources[r] > 0}
held == usedSet \cup coolingSet \cup warmSet
heldGroups == {GroupOf(r) : r \in held}

\* The jobs that have groups in their hands, and those that are pending.
holding(j) == jobs[j].op \in {"Created", "Deleted", "Unassigned"}
isPending(j) == jobs[j].op = "Create" \/ holding(j)

\* The re-sync jobs that no other one has superseded.
isCurrent(j) == jobs[j].op \in {"ReSync", "Fetched"} /\ jobs[j].ok

\* A resource is in one place, and spelt with its mask.
Apart ==
  /\ \A p, q \in Used : usedResources[p] = usedResources[q] => p = q
  /\ \A i, k \in DOMAIN coolDownQueue : coolDownQueue[i].res = coolDownQueue[k].res => i = k
  /\ \A r \in Resource : warmResources[r] <= 1
  /\ usedSet \cap coolingSet = {} /\ usedSet \cap warmSet = {} /\ coolingSet \cap warmSet = {}

\* The pool has all of a group or nothing, and only what is assigned to the node.
Whole ==
  /\ held \subseteq Proper /\ ResourcesOf(heldGroups) \subseteq held
  /\ heldGroups \subseteq Masked(upstream)

\* The groups of jobs are assigned to the node, and neither the pool nor another
\* job has them.
GroupInv ==
  /\ \A j \in Job : holding(j) => jobs[j].groups \subseteq Masked(upstream) \ heldGroups
  /\ \A j, k \in Job : holding(j) /\ holding(k) /\ jobs[j].groups \cap jobs[k].groups # {} => j = k

JobInv ==
  /\ \A j \in Job : jobs[j].groups \subseteq Masked(Group)
  /\ \A j \in Job : jobs[j].op \in {"none", "Create", "ReSync"} => jobs[j].groups = {}
  /\ \A j \in Job : isPending(j) => jobs[j].count > 0 /\ Cardinality(jobs[j].groups) <= jobs[j].count
  /\ \A j \in Job : isCurrent(j) =>
       /\ reSyncRequired /\ \A k \in Job : ~isPending(k)
       /\ jobs[j].op = "Fetched" => jobs[j].groups = Masked(upstream)

\* Where the resources are.
StockInv == Apart /\ Whole /\ GroupInv /\ JobInv

isWhole(n) == \E k \in 0 .. n : n = k * PerGroup

\* What PendingAccounted promises.
Accounted ==
  /\ pendingCreate = pendingOf({"Create", "Created"})
  /\ pendingDelete = pendingOf({"Deleted", "Unassigned"})
  /\ totalCreatedResources <= capacity

CountInv ==
  /\ Accounted
  /\ isWhole(pendingCreate) /\ isWhole(pendingDelete)
  /\ Cardinality(upstream) * PerGroup <= capacity

\* Without a pool there are neither jobs nor handlers.
DownInv ==
  /\ pool # "up" => /\ held = {} /\ pendingCreate = 0 /\ pendingDelete = 0 /\ ~reSyncRequired
                    /\ \A j \in Job : jobs[j].op = "none"
                    /\ \A p \in Pod : handlerPc[p] = "none"
  /\ pool = "up" => initPods = {}

isAnnotated(p) == annotation[p] # NoResource

\* The pods whose addresses the next pool may have in use.
restored == {p \in Pod : podPhase[p] = "running"} \cup initPods

\* A running pod owns what it was told to use, or will once the pool is rebuilt.
PodInv ==
  /\ \A p \in Pod : {annotation[p], resID[p]} \subseteq Proper \cup {NoResource}
  /\ \A p \in Pod : podPhase[p] = "absent" => ~isAnnotated(p) /\ handlerPc[p] = "none"
  /\ \A p \in Pod : stoppedFor[p] = NoTime <=> podPhase[p] \in {"absent", "running"}
  /\ \A e \in deleteEvents : podPhase[e[1]] \in {"completed", "gone"}
  /\ \A p \in Pod : handlerPc[p] = "annotate" <=> resID[p] # NoResource
  /\ \A p \in Pod : podPhase[p] = "running" /\ handlerPc[p] = "annotate" =>
       usedResources[p] = resID[p] /\ ~isAnnotated(p)
  /\ pool = "up" => \A p \in Pod : podPhase[p] = "running" /\ isAnnotated(p) => usedResources[p] = annotation[p]
  /\ pool # "up" =>
       /\ \A p \in initPods : podPhase[p] # "absent"
       /\ \A p \in restored : isAnnotated(p) =>
            /\ GroupOf(annotation[p]) \in Masked(upstream)
            /\ \A q \in restored : annotation[q] = annotation[p] => q = p
  /\ pool = "listed" => \A p \in Pod : podPhase[p] = "running" /\ isAnnotated(p) => p \in initPods

PoolInv == StockInv /\ CountInv /\ DownInv /\ PodInv

\* Until a restart, the address of a pod that lost it is in the cool-down queue
\* no longer than the pod has been stopped, or the pod has been stopped long
\* enough.
released(p, r) ==
  /\ stoppedFor[p] # NoTime
  /\ \/ stoppedFor[p] >= CoolDownPeriod
     \/ \E i \in DOMAIN coolDownQueue : coolDownQueue[i].res = r /\ coolDownQueue[i].age <= stoppedFor[p]

ReuseInv ==
  crashes = 0 =>
    \A p \in Pod : \A r \in {annotation[p], resID[p]} \ {NoResource} :
      usedResources[p] = r \/ released(p, r)

-----------------------------------------------------------------------------
(***************************************************************************)
(* Counting.                                                               *)
(***************************************************************************)

\* Sets in bijection have the same size.
LEMMA SameSize ==
  ASSUME NEW S, NEW T, IsFiniteSet(S), NEW f \in [S -> T],
         \A x, y \in S : f[x] = f[y] => x = y,
         \A t \in T : \E x \in S : f[x] = t
  PROVE  IsFiniteSet(T) /\ Cardinality(T) = Cardinality(S)
<1>1. f \in Surjection(S, T) /\ f \in Injection(S, T)
  BY DEF Surjection, Injection, IsInjective
<1> QED
  BY <1>1, FS_Surjection

\* An interval from one has as many elements as its end says.
LEMMA IntervalSize == ASSUME NEW n \in Nat PROVE IsFiniteSet(1 .. n) /\ Cardinality(1 .. n) = n
  BY FS_Interval

\* A set has at most one element if its elements are equal.
LEMMA AtMostOne ==
  ASSUME NEW S, \A x, y \in S : x = y
  PROVE  IsFiniteSet(S) /\ Cardinality(S) \in {0, 1} /\ (Cardinality(S) = 1 <=> S # {})
<1>1. CASE S = {}
  BY <1>1, FS_EmptySet
<1>2. CASE S # {}
  <2>1. PICK x : x \in S
    BY <1>2
  <2>2. S = {x}
    BY <2>1
  <2> QED
    BY <2>2, FS_Singleton
<1> QED
  BY <1>1, <1>2

\* The numbered copies of the elements of D, f[x] of each.
copiesOf(D, f) == UNION {{x} \X (1 .. f[x]) : x \in D}

\* Finitely many elements have finitely many copies.
LEMMA CopiesFinite ==
  ASSUME NEW D, IsFiniteSet(D), NEW f \in [D -> Nat]
  PROVE  IsFiniteSet(copiesOf(D, f)) /\ Cardinality(copiesOf(D, f)) \in Nat
<1> DEFINE part(x) == {x} \X (1 .. f[x])
           all == {part(x) : x \in D}
<1>1. \A x \in D : IsFiniteSet(part(x))
  <2> TAKE x \in D
  <2>1. IsFiniteSet({x})
    BY FS_Singleton
  <2>2. 1 \in Int /\ f[x] \in Int
    OBVIOUS
  <2>3. IsFiniteSet(1 .. f[x])
    BY <2>2, FS_Interval
  <2> QED
    BY <2>1, <2>3, FS_Product
<1>2. IsFiniteSet(all)
  <2> DEFINE h == [x \in D |-> part(x)]
  <2>1. h \in Surjection(D, all)
    BY DEF Surjection
  <2> QED
    BY <2>1, FS_Surjection
<1>3. \A T \in all : IsFiniteSet(T)
  BY <1>1
<1> HIDE DEF all
<1>4. IsFiniteSet(UNION all)
  BY <1>2, <1>3, FS_UNION
<1> QED
  BY <1>4, FS_CardinalityType DEF all, copiesOf

\* The number of copies changes by as much as one count does.
LEMMA CopiesChange ==
  ASSUME NEW D, IsFiniteSet(D), NEW f \in [D -> Nat], NEW g \in [D -> Nat], NEW d \in D,
         \A x \in D \ {d} : f[x] = g[x]
  PROVE  Cardinality(copiesOf(D, g)) = Cardinality(copiesOf(D, f)) - f[d] + g[d]
<1> DEFINE rest(h) == {c \in copiesOf(D, h) : c[1] # d}
<1>1. ASSUME NEW h \in [D -> Nat]
      PROVE  /\ IsFiniteSet(rest(h)) /\ Cardinality(rest(h)) \in Nat
             /\ Cardinality(copiesOf(D, h)) = Cardinality(rest(h)) + h[d]
  <2> DEFINE own == {d} \X (1 .. h[d])
  <2>1. IsFiniteSet(rest(h)) /\ Cardinality(rest(h)) \in Nat
    BY CopiesFinite, FS_Subset, FS_CardinalityType
  <2>2. IsFiniteSet({d}) /\ Cardinality({d}) = 1
    BY FS_Singleton
  <2>0. h[d] \in Nat
    OBVIOUS
  <2>3. IsFiniteSet(1 .. h[d]) /\ Cardinality(1 .. h[d]) = h[d]
    BY <2>0, FS_Interval
  <2>4. IsFiniteSet(own) /\ Cardinality(own) = h[d]
    <3>1. IsFiniteSet(own) /\ Cardinality(own) = Cardinality({d}) * Cardinality(1 .. h[d])
      BY <2>2, <2>3, FS_Product
    <3> QED
      BY <2>0, <2>2, <2>3, <3>1
  <2>5. copiesOf(D, h) = rest(h) \cup own
    BY DEF copiesOf
  <2>6. rest(h) \cap own = {}
    OBVIOUS
  <2>7. Cardinality(rest(h) \cap own) = 0
    BY <2>6, FS_EmptySet
  <2> HIDE DEF rest, own
  <2> QED
    BY <2>0, <2>1, <2>4, <2>5, <2>7, FS_Union
<1>2. rest(f) = rest(g)
  BY DEF copiesOf
<1> HIDE DEF rest
<1> QED
  BY <1>1, <1>2

\* What the jobs of the given kinds will settle.
dueIn(js, ops) == [j \in Job |-> IF js[j].op \in ops THEN js[j].count * PerGroup ELSE 0]
due(ops) == dueIn(jobs, ops)
pendingIn(js, ops) == UNION {{j} \X (1 .. js[j].count * PerGroup) : j \in {i \in Job : js[i].op \in ops}}

\* The pending resources of jobs are numbered copies of the jobs.
LEMMA DueCopies ==
  ASSUME NEW js, NEW ops
  PROVE  pendingIn(js, ops) = copiesOf(Job, dueIn(js, ops))
<1> DEFINE F == [j \in Job |-> IF js[j].op \in ops THEN js[j].count * PerGroup ELSE 0]
<1> DEFINE K == {i \in Job : js[i].op \in ops}
           A == UNION {{j} \X (1 .. js[j].count * PerGroup) : j \in K}
           B == copiesOf(Job, F)
<1>1. \A j \in K : F[j] = js[j].count * PerGroup
  OBVIOUS
<1>2. \A j \in Job \ K : F[j] = 0
  OBVIOUS
<1>3. ASSUME NEW c \in A PROVE c \in B
  <2>1. PICK j \in K : c \in {j} \X (1 .. js[j].count * PerGroup)
    BY <1>3
  <2> QED
    BY <1>1, <2>1 DEF copiesOf
<1>4. ASSUME NEW c \in B PROVE c \in A
  <2>1. PICK j \in Job : c \in {j} \X (1 .. F[j])
    BY <1>4 DEF copiesOf
  <2>2. j \in K
    <3>1. F[j] # 0
      BY <2>1
    <3> QED
      BY <1>2, <3>1
  <2> QED
    BY <1>1, <2>1, <2>2
<1> QED
  BY <1>3, <1>4 DEF pendingIn, dueIn

\* What is pending is what the jobs have due, now and in the next state.
LEMMA PendingIsDue ==
  ASSUME NEW ops
  PROVE  /\ pendingOf(ops) = Cardinality(copiesOf(Job, due(ops)))
         /\ pendingOf(ops)' = Cardinality(copiesOf(Job, due(ops)'))
<1>1. pendingOf(ops) = Cardinality(copiesOf(Job, due(ops)))
  <2>1. pendingOf(ops) = Cardinality(pendingIn(jobs, ops))
    BY DEF pendingOf, pendingIn
  <2> QED
    BY <2>1, DueCopies DEF due
<1>2. pendingOf(ops)' = Cardinality(copiesOf(Job, due(ops)'))
  <2>1. pendingOf(ops)' = Cardinality(pendingIn(jobs', ops))
    BY DEF pendingOf, pendingIn
  <2> QED
    BY <2>1, DueCopies DEF due
<1> QED
  BY <1>1, <1>2

-----------------------------------------------------------------------------
(***************************************************************************)
(* Names, and the size of the pool.                                        *)
(***************************************************************************)
\* How groups and resources are spelt: Proper ones and those of Masked groups have
\* the mask, and a name is given by its parts.
LEMMA NameFacts ==
  /\ \A r \in Resource : r[1] \in Group /\ r[3] \in 1 .. PerGroup /\ GroupOf(r) = <<r[1], r[2]>>
  /\ \A r \in Proper : r \in Resource /\ r = <<r[1], mask, r[3]>> /\ GroupOf(r) = <<r[1], mask>>
  /\ \A r \in Proper : GroupOf(r) \in Masked(Group)
  /\ \A r \in Resource : GroupOf(r) \in Masked(Group) => r \in Proper
  /\ \A g \in Masked(Group), i \in 1 .. PerGroup :
       LET r == <<g[1], mask, i>> IN r \in Proper /\ GroupOf(r) = g /\ r[3] = i
  /\ \A G : G \subseteq Group => Masked(G) \subseteq Masked(Group)
  /\ Masked(Group) \subseteq GroupID
  /\ \A G, g : <<g, mask>> \in Masked(G) <=> g \in G
  /\ \A G : \A g \in Masked(G) : g = <<g[1], mask>> /\ g[1] \in G
<1> DEFINE B == IF isPDPool THEN {TRUE} ELSE BOOLEAN
<1>1. mask \in B
  BY PoolAssumption DEF mask
<1>2. \A G : Masked(G) = G \X {mask}
  BY DEF Masked, mask
<1>3. Resource = Group \X B \X (1 .. PerGroup) /\ GroupID = Group \X B
  BY DEF Resource, GroupID
<1> HIDE DEF B
<1>4. ASSUME NEW r \in Resource PROVE r[1] \in Group /\ r[3] \in 1 .. PerGroup /\ GroupOf(r) = <<r[1], r[2]>>
  BY <1>3 DEF GroupOf
<1>5. ASSUME NEW r \in Proper
      PROVE  /\ r \in Resource /\ r = <<r[1], mask, r[3]>> /\ GroupOf(r) = <<r[1], mask>>
             /\ GroupOf(r) \in Masked(Group)
  BY <1>2, <1>3 DEF Proper, GroupOf
<1>6. ASSUME NEW G, NEW g PROVE <<g, mask>> \in Masked(G) <=> g \in G
  BY <1>2
<1>7. ASSUME NEW G, NEW g \in Masked(G) PROVE g = <<g[1], mask>> /\ g[1] \in G
  BY <1>2
<1>8. ASSUME NEW g \in Masked(Group), NEW i \in 1 .. PerGroup
      PROVE  LET r == <<g[1], mask, i>> IN r \in Proper /\ GroupOf(r) = g /\ r[3] = i
  BY <1>1, <1>3, <1>7 DEF Proper, GroupOf
<1>9. ASSUME NEW G, G \subseteq Group PROVE Masked(G) \subseteq Masked(Group)
  BY <1>2, <1>9
<1>10. Masked(Group) \subseteq GroupID
  BY <1>1, <1>2, <1>3
<1>11. ASSUME NEW r \in Resource, GroupOf(r) \in Masked(Group) PROVE r \in Proper
  BY <1>4, <1>7, <1>11 DEF Proper
<1> QED
  BY <1>4, <1>5, <1>6, <1>7, <1>8, <1>9, <1>10, <1>11

\* Two well-spelt names of one address are the same name.
LEMMA SameName == ASSUME NEW r \in Proper, NEW s \in Proper, SameAddress(r, s) PROVE r = s
  BY NameFacts DEF SameAddress

\* A set of groups has PerGroup resources for each of them.
LEMMA GroupSize ==
  ASSUME NEW gs \in SUBSET Masked(Group)
  PROVE  /\ IsFiniteSet(gs) /\ Cardinality(gs) \in Nat
         /\ IsFiniteSet(ResourcesOf(gs)) /\ Cardinality(ResourcesOf(gs)) = Cardinality(gs) * PerGroup
         /\ ResourcesOf(gs) \subseteq Proper
<1>1. IsFiniteSet(gs) /\ Cardinality(gs) \in Nat
  BY NameFacts, ConstantFacts, FS_Subset, FS_CardinalityType
<1>2. PerGroup \in Nat \ {0}
  BY ConstantFacts
<1>3. IsFiniteSet(1 .. PerGroup) /\ Cardinality(1 .. PerGroup) = PerGroup
  BY <1>2, FS_Interval
<1> DEFINE P == gs \X (1 .. PerGroup)
           f == [x \in P |-> <<x[1][1], mask, x[2]>>]
<1>4. IsFiniteSet(P) /\ Cardinality(P) = Cardinality(gs) * PerGroup
  BY <1>1, <1>3, FS_Product
<1>5. ResourcesOf(gs) \subseteq Proper
  BY NameFacts DEF ResourcesOf
<1>6. \A x \in P : x[1] \in Masked(Group) /\ f[x] \in Proper /\ GroupOf(f[x]) = x[1] /\ f[x][3] = x[2]
  BY NameFacts
<1>7. \A x \in P : f[x] \in ResourcesOf(gs)
  BY <1>6 DEF ResourcesOf, Proper
<1>8. \A x, y \in P : f[x] = f[y] => x = y
  <2> SUFFICES ASSUME NEW x \in P, NEW y \in P, f[x] = f[y] PROVE x = y
    OBVIOUS
  <2> HIDE DEF f
  <2>1. x[1] = y[1] /\ x[2] = y[2]
    BY <1>6
  <2> QED
    BY <2>1
<1>9. \A r \in ResourcesOf(gs) : \E x \in P : f[x] = r
  <2> TAKE r \in ResourcesOf(gs)
  <2>1. r \in Proper /\ GroupOf(r) \in gs
    BY <1>5 DEF ResourcesOf
  <2>2. r = <<r[1], mask, r[3]>> /\ GroupOf(r) = <<r[1], mask>> /\ r[3] \in 1 .. PerGroup
    BY <2>1, NameFacts
  <2> DEFINE x == <<GroupOf(r), r[3]>>
  <2>3. x \in P /\ x[1][1] = r[1] /\ x[2] = r[3]
    BY <2>1, <2>2
  <2>4. f[x] = r
    BY <2>2, <2>3
  <2> QED
    BY <2>3, <2>4
<1>10. f \in [P -> ResourcesOf(gs)]
  BY <1>7
<1> HIDE DEF P, f
<1>11. IsFiniteSet(ResourcesOf(gs)) /\ Cardinality(ResourcesOf(gs)) = Cardinality(P)
  BY <1>4, <1>8, <1>9, <1>10, SameSize
<1> QED
  BY <1>1, <1>4, <1>5, <1>11

\* What the pool counts is the number of resources it holds.
LEMMA PoolSize ==
  ASSUME TypeOK, Apart, Whole
  PROVE  /\ heldGroups \subseteq Masked(Group) /\ ResourcesOf(heldGroups) = held
         /\ numUsed + numCooling + numWarm = Cardinality(heldGroups) * PerGroup
<1>0. numUsed \in Nat /\ numCooling \in Nat /\ numWarm \in Nat
  BY CountType
<1>1. heldGroups \subseteq Masked(Group)
  BY NameFacts DEF Whole, heldGroups
<1>2. held \subseteq ResourcesOf(heldGroups)
  BY NameFacts DEF Whole, heldGroups, ResourcesOf
<1>3. ResourcesOf(heldGroups) = held
  BY <1>2 DEF Whole
<1>4. IsFiniteSet(held) /\ Cardinality(held) = Cardinality(heldGroups) * PerGroup
  BY <1>1, <1>3, GroupSize
<1>5. IsFiniteSet(usedSet) /\ Cardinality(usedSet) = numUsed
  <2> DEFINE f == [p \in Used |-> usedResources[p]]
  <2>1. f \in [Used -> usedSet] /\ IsFiniteSet(Used)
    BY PoolAssumption, FS_Subset DEF usedSet, Used
  <2>2. \A x, y \in Used : f[x] = f[y] => x = y
    BY DEF Apart
  <2>3. \A t \in usedSet : \E x \in Used : f[x] = t
    BY DEF usedSet
  <2> HIDE DEF f
  <2> QED
    BY <2>1, <2>2, <2>3, SameSize DEF numUsed
<1>6. IsFiniteSet(coolingSet) /\ Cardinality(coolingSet) = numCooling
  <2> DEFINE f == [i \in DOMAIN coolDownQueue |-> coolDownQueue[i].res]
  <2>1. DOMAIN coolDownQueue = 1 .. Len(coolDownQueue) /\ Len(coolDownQueue) \in Nat
    BY LenProperties DEF TypeOK
  <2>2. IsFiniteSet(DOMAIN coolDownQueue) /\ Cardinality(DOMAIN coolDownQueue) = numCooling
    BY <2>1, IntervalSize DEF numCooling
  <2>3. f \in [DOMAIN coolDownQueue -> coolingSet]
    BY DEF coolingSet
  <2>4. \A x, y \in DOMAIN coolDownQueue : f[x] = f[y] => x = y
    BY DEF Apart
  <2>5. \A t \in coolingSet : \E x \in DOMAIN coolDownQueue : f[x] = t
    BY DEF coolingSet
  <2> HIDE DEF f
  <2> QED
    BY <2>2, <2>3, <2>4, <2>5, SameSize
<1>7. IsFiniteSet(warmSet) /\ Cardinality(warmSet) = numWarm
  <2> DEFINE f == [r \in warmSet |-> <<r, 1>>]
             C == warmCopies(Resource)
  <2>1. \A r \in warmSet : r \in Resource /\ warmResources[r] = 1
    BY DEF warmSet, Apart, TypeOK
  <2>2. IsFiniteSet(warmSet)
    BY ConstantFacts, FS_Subset DEF warmSet
  <2>3. f \in [warmSet -> C]
    BY <2>1 DEF warmCopies
  <2>4. \A x, y \in warmSet : f[x] = f[y] => x = y
    OBVIOUS
  <2>5. \A t \in C : \E x \in warmSet : f[x] = t
    <3> TAKE t \in C
    <3>1. PICK r \in Resource : t \in {r} \X (1 .. warmResources[r])
      BY DEF warmCopies
    <3>2. r \in warmSet
      BY <3>1 DEF TypeOK, warmSet
    <3>3. warmResources[r] = 1 /\ t = <<r, 1>>
      BY <2>1, <3>1, <3>2
    <3> QED
      BY <3>2, <3>3
  <2> HIDE DEF f, C
  <2>6. Cardinality(C) = Cardinality(warmSet)
    BY <2>2, <2>3, <2>4, <2>5, SameSize
  <2> QED
    BY <2>2, <2>6 DEF C, numWarm
<1>8. Cardinality(held) = Cardinality(usedSet) + Cardinality(coolingSet) + Cardinality(warmSet)
  <2> DEFINE U == usedSet \cup coolingSet
  <2>1. Cardinality(usedSet \cap coolingSet) = 0
    BY FS_EmptySet DEF Apart
  <2>2. IsFiniteSet(U) /\ Cardinality(U) = Cardinality(usedSet) + Cardinality(coolingSet)
    <3>1. IsFiniteSet(U) /\ Cardinality(U) = Cardinality(usedSet) + Cardinality(coolingSet) - Cardinality(usedSet \cap coolingSet)
      BY <1>5, <1>6, FS_Union
    <3> QED
      BY <1>0, <1>5, <1>6, <2>1, <3>1
  <2>3. U \cap warmSet = {}
    BY DEF Apart
  <2>4. Cardinality(U \cap warmSet) = 0
    BY <2>3, FS_EmptySet
  <2>5. held = U \cup warmSet
    BY DEF held
  <2> HIDE DEF U
  <2> QED
    <3>1. Cardinality(held) = Cardinality(U) + Cardinality(warmSet) - Cardinality(U \cap warmSet)
      BY <1>7, <2>2, <2>5, FS_Union
    <3> QED
      BY <1>0, <1>5, <1>6, <1>7, <2>2, <2>4, <3>1
<1> QED
  BY <1>1, <1>3, <1>4, <1>5, <1>6, <1>7, <1>8

-----------------------------------------------------------------------------
(***************************************************************************)
(* Resources move between the places of the pool.                          *)
(***************************************************************************)

\* The cool-down queue as a function.
LEMMA QueueFacts ==
  ASSUME TypeOK
  PROVE  /\ Len(coolDownQueue) \in Nat /\ DOMAIN coolDownQueue = 1 .. Len(coolDownQueue)
         /\ \A i \in DOMAIN coolDownQueue : coolDownQueue[i] \in [res : Resource, age : Age]
<1> DEFINE Q == [res : Resource, age : Age]
<1>1. coolDownQueue \in Seq(Q)
  BY DEF TypeOK
<1> HIDE DEF Q
<1>2. Len(coolDownQueue) \in Nat /\ DOMAIN coolDownQueue = 1 .. Len(coolDownQueue)
  BY <1>1, LenProperties
<1>3. \A i \in DOMAIN coolDownQueue : coolDownQueue[i] \in Q
  BY <1>1, <1>2, ElementOfSeq
<1> QED
  BY <1>2, <1>3 DEF Q

\* The handler takes a resource out of its group's list.
LEMMA AssignApart ==
  ASSUME TypeOK, Apart, NEW p \in Pod, AssignResource(p)
  PROVE  /\ Apart' /\ held' = held
         /\ resID'[p] \in held /\ usedResources'[p] = resID'[p] /\ resID'[p] # NoResource
         /\ \A q \in Pod \ {p} : usedResources'[q] = usedResources[q] /\ resID'[q] = resID[q]
<1>1. PICK r \in assignable : /\ warmResources' = [warmResources EXCEPT ![r] = @ - 1]
                              /\ usedResources' = [usedResources EXCEPT ![p] = r]
                              /\ resID' = [resID EXCEPT ![p] = r]
  BY DEF AssignResource
<1>2. /\ r \in Resource /\ warmResources[r] = 1 /\ r # NoResource
      /\ usedResources[p] = NoResource /\ UNCHANGED coolDownQueue
  BY NoResourceAssumption DEF assignable, AssignResource, Apart, TypeOK
<1>3. Used' = Used \cup {p} /\ p \notin Used /\ usedSet' = usedSet \cup {r}
  BY <1>1, <1>2 DEF Used, usedSet, TypeOK
<1>4. warmSet' = warmSet \ {r} /\ r \in warmSet
  BY <1>1, <1>2 DEF warmSet, TypeOK
<1>5. coolingSet' = coolingSet
  BY <1>2 DEF coolingSet
<1>6. r \notin usedSet /\ r \notin coolingSet
  BY <1>4 DEF Apart
<1>7. \A u, v \in Used' : usedResources'[u] = usedResources'[v] => u = v
  BY <1>1, <1>2, <1>3, <1>6 DEF Apart, usedSet, Used, TypeOK
<1>8. \A s \in Resource : warmResources'[s] <= 1
  BY <1>1, <1>2 DEF Apart, TypeOK
<1>9. Apart'
  BY <1>2, <1>3, <1>4, <1>5, <1>6, <1>7, <1>8 DEF Apart
<1> QED
  BY <1>1, <1>2, <1>3, <1>4, <1>5, <1>9 DEF held, TypeOK

\* The owner's resource goes to the end of the cool-down queue.
LEMMA FreeApart ==
  ASSUME TypeOK, Apart, NEW p \in Pod, NEW r, owns(p, r), FreeResource(p, r)
  PROVE  /\ Apart' /\ held' = held
         /\ usedResources'[p] = NoResource
         /\ \A q \in Pod \ {p} : usedResources'[q] = usedResources[q]
         /\ \A i \in DOMAIN coolDownQueue : i \in DOMAIN coolDownQueue' /\ coolDownQueue'[i] = coolDownQueue[i]
         /\ \E i \in DOMAIN coolDownQueue' : coolDownQueue'[i] = [res |-> r, age |-> 0]
<1>1. r \in Resource /\ r # NoResource /\ usedResources[p] = r /\ p \in Used
  BY DEF owns, TypeOK, Used
<1> DEFINE n == Len(coolDownQueue)
           e == [res |-> r, age |-> 0]
<1>2. n \in Nat /\ DOMAIN coolDownQueue = 1 .. n
  BY QueueFacts
<1>3. /\ DOMAIN coolDownQueue' = 1 .. (n + 1)
      /\ \A i \in 1 .. n : coolDownQueue'[i] = coolDownQueue[i]
      /\ coolDownQueue'[n + 1] = e
  <2>1. coolDownQueue' = Append(coolDownQueue, e) /\ e \in [res : Resource, age : Age]
    BY <1>1, PoolAssumption DEF FreeResource, Age
  <2> HIDE DEF e
  <2>2. Len(coolDownQueue') = n + 1 /\ coolDownQueue' \in Seq([res : Resource, age : Age])
    BY <2>1, AppendProperties DEF TypeOK
  <2> QED
    BY <2>1, <2>2, AppendProperties, LenProperties DEF TypeOK
<1> HIDE DEF n
<1>4. coolingSet' = coolingSet \cup {r}
  <2>1. \A i \in 1 .. n : coolDownQueue'[i].res = coolDownQueue[i].res
    BY <1>3
  <2>2. coolDownQueue'[n + 1].res = r /\ n + 1 \in 1 .. (n + 1) /\ 1 .. (n + 1) = (1 .. n) \cup {n + 1}
    BY <1>2, <1>3
  <2> HIDE DEF e
  <2> QED
    BY <1>2, <1>3, <2>1, <2>2 DEF coolingSet
<1>5. Used' = Used \ {p} /\ usedSet' = usedSet \ {r}
  <2>1. usedResources' = [usedResources EXCEPT ![p] = NoResource]
    BY DEF FreeResource
  <2>2. Used' = Used \ {p}
    BY <2>1 DEF Used, TypeOK
  <2>3. \A q \in Used \ {p} : usedResources'[q] = usedResources[q] /\ usedResources[q] # r
    BY <1>1, <2>1 DEF Used, Apart, TypeOK
  <2> QED
    BY <1>1, <2>2, <2>3 DEF usedSet
<1>6. warmSet' = warmSet /\ UNCHANGED warmResources
  BY DEF FreeResource, warmSet
<1>7. r \in usedSet /\ r \notin coolingSet /\ r \notin warmSet
  BY <1>1 DEF Apart, usedSet
<1>8. \A u, v \in Used' : usedResources'[u] = usedResources'[v] => u = v
  BY <1>5 DEF Apart, FreeResource, Used, TypeOK
<1>9. \A i, k \in DOMAIN coolDownQueue' : coolDownQueue'[i].res = coolDownQueue'[k].res => i = k
  <2>1. \A i \in 1 .. n : coolDownQueue'[i].res = coolDownQueue[i].res /\ coolDownQueue'[i].res # r
    BY <1>2, <1>3, <1>7 DEF coolingSet
  <2>2. coolDownQueue'[n + 1].res = r /\ 1 .. (n + 1) = (1 .. n) \cup {n + 1}
    BY <1>2, <1>3
  <2> HIDE DEF e
  <2> QED
    BY <1>2, <1>3, <2>1, <2>2 DEF Apart
<1>10. Apart'
  BY <1>4, <1>5, <1>6, <1>7, <1>8, <1>9 DEF Apart
<1>11. held' = held
  BY <1>4, <1>5, <1>6, <1>7 DEF held
<1>12. usedResources'[p] = NoResource /\ \A q \in Pod \ {p} : usedResources'[q] = usedResources[q]
  BY DEF FreeResource, TypeOK
<1>13. \A i \in DOMAIN coolDownQueue : i \in DOMAIN coolDownQueue' /\ coolDownQueue'[i] = coolDownQueue[i]
  BY <1>2, <1>3
<1>14. n + 1 \in DOMAIN coolDownQueue'
  BY <1>2, <1>3
<1> QED
  BY <1>3, <1>10, <1>11, <1>12, <1>13, <1>14

\* Resources that have cooled down become warm.
LEMMA CoolDownApart ==
  ASSUME TypeOK, Apart, ProcessCoolDownQueue
  PROVE  /\ Apart' /\ held' = held
         /\ \A i \in DOMAIN coolDownQueue :
              \/ coolDownQueue[i].age >= CoolDownPeriod
              \/ \E k \in DOMAIN coolDownQueue' : coolDownQueue'[k] = coolDownQueue[i]
<1> DEFINE I == {i \in DOMAIN coolDownQueue : \A k \in 1 .. i : coolDownQueue[k].age >= CoolDownPeriod}
           n == Cardinality(I)
           m == Len(coolDownQueue)
           taken(r) == {i \in 1 .. n : coolDownQueue[i].res = r}
           moved == {coolDownQueue[i].res : i \in 1 .. n}
<1>1. m \in Nat /\ DOMAIN coolDownQueue = 1 .. m /\ \A i \in 1 .. m : coolDownQueue[i].res \in Resource
  BY QueueFacts
<1>2. n \in 0 .. m
  BY PositionsType
<1>3. /\ warmResources' = [r \in Resource |-> warmResources[r] + Cardinality(taken(r))]
      /\ coolDownQueue' = SubSeq(coolDownQueue, n + 1, m)
      /\ UNCHANGED usedResources
  BY DEF ProcessCoolDownQueue
<1>4. I = 1 .. n
  <2>1. \A i \in I : \A k \in 1 .. i : k \in I
    <3> SUFFICES ASSUME NEW i \in I, NEW k \in 1 .. i PROVE k \in I
      OBVIOUS
    <3>1. i \in 1 .. m
      BY <1>1
    <3>2. k \in 1 .. m /\ \A l \in 1 .. k : l \in 1 .. i
      BY <1>1, <3>1
    <3> QED
      BY <1>1, <3>2
  <2> HIDE DEF I
  <2>2. I \subseteq 1 .. m
    BY <1>1 DEF I
  <2>3. ASSUME NEW i \in I PROVE i <= n
    <3>1. i \in Nat /\ 1 .. i \subseteq I
      BY <1>1, <2>1, <2>2, <2>3
    <3>2. IsFiniteSet(I)
      BY <2>2, PositionsType, <1>1
    <3>3. Cardinality(1 .. i) <= Cardinality(I) /\ Cardinality(1 .. i) = i
      BY <3>1, <3>2, FS_Subset, IntervalSize
    <3> QED
      BY <3>3
  <2>4. I \subseteq 1 .. n
    BY <1>1, <1>2, <2>2, <2>3
  <2>5. IsFiniteSet(1 .. n) /\ Cardinality(1 .. n) = n
    BY <1>2, IntervalSize
  <2> QED
    BY <2>4, <2>5, FS_Subset
<1>5. \A i \in 1 .. n : coolDownQueue[i].age >= CoolDownPeriod
  <2>1. \A i \in I : i \in 1 .. i
    BY <1>1
  <2>2. \A i \in I : coolDownQueue[i].age >= CoolDownPeriod
    BY <2>1
  <2> HIDE DEF I, n
  <2> QED
    BY <1>4, <2>2
<1> HIDE DEF I, n, m
<1>6. /\ DOMAIN coolDownQueue' = 1 .. (m - n)
      /\ \A i \in 1 .. (m - n) : coolDownQueue'[i] = coolDownQueue[n + i] /\ n + i \in 1 .. m
  <2> DEFINE Q == [res : Resource, age : Age]
  <2>1. coolDownQueue \in Seq(Q)
    BY DEF TypeOK
  <2>2. \A i \in n + 1 .. m : coolDownQueue[i] \in Q
    BY <1>1, <1>2, QueueFacts
  <2>3. n + 1 \in Int /\ m \in Int
    BY <1>1, <1>2
  <2> HIDE DEF Q
  <2>4. /\ SubSeq(coolDownQueue, n + 1, m) \in Seq(Q)
        /\ Len(SubSeq(coolDownQueue, n + 1, m)) = IF n + 1 <= m THEN m - (n + 1) + 1 ELSE 0
        /\ \A i \in 1 .. (m - (n + 1) + 1) : SubSeq(coolDownQueue, n + 1, m)[i] = coolDownQueue[(n + 1) + i - 1]
    BY <2>1, <2>2, <2>3, SubSeqProperties
  <2>5. coolDownQueue' \in Seq(Q) /\ Len(coolDownQueue') = m - n
    BY <1>1, <1>2, <1>3, <2>4
  <2>6. \A i \in 1 .. (m - n) : i \in 1 .. (m - (n + 1) + 1) /\ (n + 1) + i - 1 = n + i /\ n + i \in 1 .. m
    BY <1>1, <1>2
  <2> QED
    BY <1>3, <2>4, <2>5, <2>6, LenProperties
<1>7. coolingSet' = coolingSet \ moved /\ moved \subseteq coolingSet
  <2>1. moved \subseteq coolingSet
    BY <1>1, <1>2 DEF coolingSet
  <2>2. ASSUME NEW i \in 1 .. (m - n)
        PROVE  coolDownQueue'[i].res \in coolingSet \ moved
    <3>1. coolDownQueue'[i].res = coolDownQueue[n + i].res /\ n + i \in 1 .. m
      BY <1>6
    <3>2. \A k \in 1 .. n : k # n + i /\ k \in 1 .. m
      BY <1>1, <1>2
    <3> QED
      BY <1>1, <3>1, <3>2 DEF Apart, coolingSet
  <2>3. ASSUME NEW i \in 1 .. m, coolDownQueue[i].res \notin moved
        PROVE  coolDownQueue[i].res \in coolingSet'
    <3>1. i \notin 1 .. n
      BY <2>3
    <3>2. i - n \in 1 .. (m - n) /\ n + (i - n) = i
      BY <1>1, <1>2, <3>1
    <3>3. coolDownQueue'[i - n] = coolDownQueue[i]
      BY <1>6, <3>2
    <3> QED
      BY <1>6, <3>2, <3>3 DEF coolingSet
  <2> QED
    BY <1>1, <1>6, <2>1, <2>2, <2>3 DEF coolingSet
<1>8. \A r \in Resource : /\ Cardinality(taken(r)) \in {0, 1}
                          /\ Cardinality(taken(r)) = 1 <=> r \in moved
  <2> TAKE r \in Resource
  <2>1. \A i, k \in taken(r) : i = k
    BY <1>1, <1>2 DEF Apart
  <2>2. taken(r) # {} <=> r \in moved
    OBVIOUS
  <2> HIDE DEF taken
  <2> QED
    BY <2>1, <2>2, AtMostOne
<1>9. \A r \in moved : r \in Resource /\ warmResources[r] = 0
  <2>1. moved \subseteq Resource
    BY <1>1, <1>2
  <2> HIDE DEF moved
  <2>2. moved \cap warmSet = {}
    BY <1>7 DEF Apart
  <2> QED
    BY <2>1, <2>2 DEF warmSet, TypeOK
<1> HIDE DEF taken
<1>10. warmSet' = warmSet \cup moved /\ \A r \in Resource : warmResources'[r] <= 1
  <2> HIDE DEF moved
  <2>1. ASSUME NEW r \in Resource
        PROVE  /\ warmResources'[r] <= 1
               /\ warmResources'[r] > 0 <=> warmResources[r] > 0 \/ r \in moved
    <3>1. warmResources[r] \in {0, 1} /\ warmResources'[r] = warmResources[r] + Cardinality(taken(r))
      BY <1>3 DEF Apart, TypeOK
    <3>2. Cardinality(taken(r)) \in {0, 1} /\ (Cardinality(taken(r)) = 1 <=> r \in moved)
      BY <1>8
    <3>3. r \in moved => warmResources[r] = 0
      BY <1>9
    <3> QED
      BY <3>1, <3>2, <3>3
  <2>2. moved \subseteq Resource
    BY <1>9
  <2> QED
    BY <2>1, <2>2 DEF warmSet
<1>11. Used' = Used /\ usedSet' = usedSet
  BY <1>3 DEF Used, usedSet
<1>12. \A i, k \in DOMAIN coolDownQueue' : coolDownQueue'[i].res = coolDownQueue'[k].res => i = k
  <2> SUFFICES ASSUME NEW i \in 1 .. (m - n), NEW k \in 1 .. (m - n), coolDownQueue'[i].res = coolDownQueue'[k].res
               PROVE  i = k
    BY <1>6
  <2>1. n + i = n + k
    BY <1>1, <1>6 DEF Apart
  <2> QED
    BY <1>2, <2>1
<1>13. Apart'
  <2> HIDE DEF moved
  <2> QED
    BY <1>3, <1>7, <1>10, <1>11, <1>12 DEF Apart
<1>14. held' = held
  <2> HIDE DEF moved
  <2> QED
    BY <1>7, <1>10, <1>11 DEF held
<1>15. ASSUME NEW i \in DOMAIN coolDownQueue
       PROVE  \/ coolDownQueue[i].age >= CoolDownPeriod
              \/ \E k \in DOMAIN coolDownQueue' : coolDownQueue'[k] = coolDownQueue[i]
  <2>1. CASE i \in 1 .. n
    BY <1>5, <2>1
  <2>2. CASE i \notin 1 .. n
    <3>1. i - n \in 1 .. (m - n) /\ n + (i - n) = i
      BY <1>1, <1>2, <2>2
    <3>2. coolDownQueue'[i - n] = coolDownQueue[i]
      BY <1>6, <3>1
    <3> QED
      BY <1>6, <3>1, <3>2
  <2> QED
    BY <2>1, <2>2
<1> QED
  BY <1>13, <1>14, <1>15

\* Time passes.
LEMMA TickApart ==
  ASSUME TypeOK, Apart, Tick
  PROVE  /\ Apart' /\ held' = held
         /\ DOMAIN coolDownQueue' = DOMAIN coolDownQueue
         /\ \A i \in DOMAIN coolDownQueue :
              coolDownQueue'[i].res = coolDownQueue[i].res /\ coolDownQueue'[i].age = older(coolDownQueue[i].age)
<1>1. coolDownQueue' = [i \in DOMAIN coolDownQueue |-> [coolDownQueue[i] EXCEPT !.age = older(@)]]
  BY DEF Tick
<1>2. DOMAIN coolDownQueue' = DOMAIN coolDownQueue
  BY <1>1
<1>3. \A i \in DOMAIN coolDownQueue :
        coolDownQueue'[i].res = coolDownQueue[i].res /\ coolDownQueue'[i].age = older(coolDownQueue[i].age)
  <2> TAKE i \in DOMAIN coolDownQueue
  <2>1. coolDownQueue[i] \in [res : Resource, age : Age]
    BY QueueFacts
  <2>2. coolDownQueue'[i] = [coolDownQueue[i] EXCEPT !.age = older(@)]
    BY <1>1
  <2> QED
    BY <2>1, <2>2
<1>4. coolingSet' = coolingSet
  BY <1>2, <1>3 DEF coolingSet
<1>5. UNCHANGED <<usedResources, warmResources>> /\ Used' = Used /\ usedSet' = usedSet /\ warmSet' = warmSet
  BY DEF Tick, Used, usedSet, warmSet
<1> QED
  BY <1>2, <1>3, <1>4, <1>5 DEF Apart, held

\* What the jobs and the groups need not know of such moves.
LEMMA MoveStock ==
  ASSUME StockInv, Apart', held' = held, UNCHANGED <<jobs, upstream, reSyncRequired>>
  PROVE  StockInv' /\ heldGroups' = heldGroups
<1>1. heldGroups' = heldGroups
  BY DEF heldGroups
<1>2. Whole'
  BY <1>1 DEF StockInv, Whole
<1>3. GroupInv'
  BY <1>1 DEF StockInv, GroupInv, holding
<1>4. JobInv'
  BY DEF StockInv, JobInv, isPending, isCurrent, holding
<1> QED
  BY <1>1, <1>2, <1>3, <1>4 DEF StockInv

\* Where resources are depends on the lists and the queue only.
LEMMA SamePlaces ==
  ASSUME UNCHANGED <<usedResources, warmResources, coolDownQueue>>
  PROVE  held' = held /\ heldGroups' = heldGroups /\ (Apart => Apart')
<1>1. Used' = Used /\ usedSet' = usedSet /\ warmSet' = warmSet /\ coolingSet' = coolingSet
  BY DEF Used, usedSet, warmSet, coolingSet
<1> QED
  BY <1>1 DEF held, heldGroups, Apart

-----------------------------------------------------------------------------
(***************************************************************************)
(* The pending counters.                                                   *)
(***************************************************************************)
\* Arithmetic of whole groups.
LEMMA Multiples ==
  ASSUME NEW d \in Nat \ {0}
  PROVE  /\ \A a, b \in Int : (a + b) * d = a * d + b * d /\ (a - b) * d = a * d - b * d
         /\ \A a, b \in Int : a <= b => a * d <= b * d
         /\ \A a \in Int : (a * d) \div d = a /\ (a * d > 0 => a > 0)
         /\ \A a \in Nat : a <= a * d
         /\ \A c \in Nat : c % d = 0 => c = (c \div d) * d
<1>1. ASSUME NEW a \in Int, NEW b \in Int PROVE (a + b) * d = a * d + b * d /\ (a - b) * d = a * d - b * d
  OBVIOUS
<1>2. ASSUME NEW a \in Int, NEW b \in Int, a <= b PROVE a * d <= b * d
  BY <1>2
<1>3. ASSUME NEW a \in Int PROVE (a * d) \div d = a /\ (a * d > 0 => a > 0)
  OBVIOUS
<1>4. ASSUME NEW a \in Nat PROVE a <= a * d
  OBVIOUS
<1>5. ASSUME NEW c \in Nat, c % d = 0 PROVE c = (c \div d) * d
  BY <1>5
<1> QED
  BY <1>1, <1>2, <1>3, <1>4, <1>5

createOps == {"Create", "Created"}
deleteOps == {"Deleted", "Unassigned"}

\* A job never has a negative amount due.
LEMMA DueType ==
  ASSUME TypeOK, JobInv, NEW ops \in {createOps, deleteOps}
  PROVE  due(ops) \in [Job -> Nat]
<1>1. ASSUME NEW j \in Job PROVE due(ops)[j] \in Nat
  <2>1. jobs[j].op \in ops => isPending(j)
    BY DEF createOps, deleteOps, isPending, holding
  <2>2. jobs[j].count \in Int /\ PerGroup \in Nat
    BY ConstantFacts DEF TypeOK, JobType
  <2>3. jobs[j].op \in ops => jobs[j].count * PerGroup \in Nat
    BY <2>1, <2>2 DEF JobInv
  <2> QED
    BY <2>3 DEF due, dueIn
<1> QED
  BY <1>1 DEF due, dueIn

\* Counters at zero mean that nothing is pending.
LEMMA NonePending ==
  ASSUME TypeOK, JobInv, Accounted, pendingCreate = 0, pendingDelete = 0
  PROVE  \A j \in Job : ~isPending(j)
<1> SUFFICES ASSUME NEW j \in Job, isPending(j) PROVE FALSE
  OBVIOUS
<1>1. PICK ops \in {createOps, deleteOps} : jobs[j].op \in ops
  BY DEF isPending, holding, createOps, deleteOps
<1>2. Cardinality(copiesOf(Job, due(ops))) = 0
  BY PendingIsDue DEF Accounted, createOps, deleteOps
<1>3. copiesOf(Job, due(ops)) = {}
  BY <1>2, DueType, CopiesFinite, FS_EmptySet, PoolAssumption
<1>4. due(ops)[j] = jobs[j].count * PerGroup /\ jobs[j].count \in Nat \ {0} /\ PerGroup \in Nat \ {0}
  BY <1>1, ConstantFacts DEF due, dueIn, JobInv, TypeOK, JobType
<1>5. due(ops)[j] >= 1
  BY <1>4, Multiples
<1>6. <<j, 1>> \in copiesOf(Job, due(ops))
  <2>1. due(ops)[j] \in Nat
    BY DueType
  <2> QED
    BY <1>5, <2>1 DEF copiesOf
<1> QED
  BY <1>3, <1>6

\* When one job changes, what is pending changes by what it has due.
LEMMA PendingChange ==
  ASSUME TypeOK, JobInv, TypeOK', JobInv', NEW j \in Job, \A k \in Job \ {j} : jobs'[k] = jobs[k],
         NEW ops \in {createOps, deleteOps}
  PROVE  /\ pendingOf(ops)' = pendingOf(ops) - due(ops)[j] + due(ops)'[j]
         /\ pendingOf(ops) \in Nat /\ pendingOf(ops)' \in Nat /\ due(ops)[j] \in Nat /\ due(ops)'[j] \in Nat
<1>1. due(ops) \in [Job -> Nat]
  BY DueType
<1>2. due(ops)' \in [Job -> Nat]
  <2>1. ASSUME NEW k \in Job PROVE due(ops)'[k] \in Nat
    <3>1. jobs'[k].op \in ops => isPending(k)'
      BY DEF createOps, deleteOps, isPending, holding
    <3>2. jobs'[k].count \in Int /\ PerGroup \in Nat
      BY ConstantFacts DEF TypeOK, JobType
    <3>3. jobs'[k].op \in ops => jobs'[k].count * PerGroup \in Nat
      BY <3>1, <3>2 DEF JobInv
    <3> QED
      BY <3>3 DEF due, dueIn
  <2> QED
    BY <2>1 DEF due, dueIn
<1>3. \A k \in Job \ {j} : due(ops)[k] = due(ops)'[k]
  BY DEF due, dueIn
<1>4. pendingOf(ops) = Cardinality(copiesOf(Job, due(ops)))
  BY PendingIsDue
<1>5. pendingOf(ops)' = Cardinality(copiesOf(Job, due(ops)'))
  BY PendingIsDue
<1> QED
  BY <1>1, <1>2, <1>3, <1>4, <1>5, CopiesChange, CopiesFinite, PoolAssumption

\* The total is what the pool holds and what is pending.
LEMMA TotalFacts ==
  ASSUME TypeOK, Apart, Whole
  PROVE  /\ IsFiniteSet(heldGroups) /\ Cardinality(heldGroups) \in Nat
         /\ totalCreatedResources = Cardinality(heldGroups) * PerGroup + pendingCreate + pendingDelete
<1>1. IsFiniteSet(heldGroups) /\ Cardinality(heldGroups) \in Nat
  BY PoolSize, GroupSize
<1>2. numUsed + numCooling + numWarm = Cardinality(heldGroups) * PerGroup
  BY PoolSize
<1>3. numUsed \in Nat /\ numCooling \in Nat /\ numWarm \in Nat /\ pendingCreate \in Int /\ pendingDelete \in Int
  BY CountType DEF TypeOK
<1> QED
  BY <1>1, <1>2, <1>3 DEF totalCreatedResources, unavailable

\* A create job is for whole groups, at least one, within the capacity.
LEMMA CreateAmount ==
  ASSUME TypeOK, StockInv, CountInv, deviation > maxDeviation, canCreateUpto # 0
  PROVE  LET n == atMost(deviation, canCreateUpto)
         IN  /\ n \in Nat /\ n <= canCreateUpto /\ isWhole(n)
             /\ n \div PerGroup \in Nat \ {0} /\ (n \div PerGroup) * PerGroup = n
<1> DEFINE n == atMost(deviation, canCreateUpto)
           h == Cardinality(heldGroups)
<1>1. PerGroup \in Nat \ {0}
  BY ConstantFacts
<1>2. PICK x \in Int : deviation = x * PerGroup
  BY CountType
<1>3. \E y \in Int : canCreateUpto = y * PerGroup
  <2>1. h \in Nat /\ totalCreatedResources = h * PerGroup + pendingCreate + pendingDelete
    BY TotalFacts DEF StockInv
  <2>2. PICK a \in Int : pendingCreate = a * PerGroup
    BY DEF CountInv, isWhole
  <2>3. PICK b \in Int : pendingDelete = b * PerGroup
    BY DEF CountInv, isWhole
  <2>4. PICK c \in Int : capacity = c * PerGroup
    <3>1. capacity = (capacity \div PerGroup) * PerGroup
      BY <1>1, PoolAssumption, Multiples
    <3>2. capacity \div PerGroup \in Int
      BY <1>1, PoolAssumption
    <3> QED
      BY <3>1, <3>2
  <2> HIDE DEF h
  <2>5. canCreateUpto = c * PerGroup - (h * PerGroup + a * PerGroup + b * PerGroup)
    BY <2>1, <2>2, <2>3, <2>4 DEF canCreateUpto
  <2>6. canCreateUpto = (c - h - a - b) * PerGroup
    BY <1>1, <2>1, <2>5
  <2>7. c - h - a - b \in Int
    BY <2>1
  <2> QED
    BY <2>6, <2>7
<1>4. PICK y \in Int : canCreateUpto = y * PerGroup
  BY <1>3
<1>5. deviation \in Int /\ canCreateUpto \in Int /\ deviation > 0 /\ canCreateUpto > 0
  <2>1. totalCreatedResources <= capacity /\ totalCreatedResources \in Int /\ deviation \in Int
    BY CountType DEF CountInv, Accounted
  <2>2. maxDeviation \in Nat
    BY PoolAssumption DEF maxDeviation
  <2> QED
    BY <2>1, <2>2, PoolAssumption DEF canCreateUpto
<1>6. n \in Nat /\ n <= canCreateUpto /\ n > 0 /\ (n = deviation \/ n = canCreateUpto)
  BY <1>5 DEF atMost
<1>7. PICK z \in Int : n = z * PerGroup
  BY <1>2, <1>4, <1>6
<1> HIDE DEF n
<1>8. n \div PerGroup = z /\ z > 0
  BY <1>1, <1>6, <1>7, Multiples
<1>9. z \in 0 .. n
  BY <1>1, <1>7, <1>8, Multiples
<1> QED
  BY <1>6, <1>7, <1>8, <1>9 DEF isWhole, n

-----------------------------------------------------------------------------
(***************************************************************************)
(* The jobs take groups out of the pool and bring groups into it.          *)
(***************************************************************************)

\* Nothing in the pool changes when a job without groups is submitted.
LEMMA SubmitStock ==
  ASSUME TypeOK, StockInv, NEW j \in Job, NEW job \in JobType, jobs[j] = NoJob,
         jobs' = [jobs EXCEPT ![j] = job], job.groups = {},
         \/ job.op = "Create" /\ job.count > 0 /\ ~reSyncRequired
         \/ job.op = "ReSync" /\ reSyncRequired /\ \A k \in Job : ~isPending(k),
         UNCHANGED <<usedResources, warmResources, coolDownQueue, upstream, reSyncRequired>>
  PROVE  StockInv' /\ heldGroups' = heldGroups
<1>1. Apart' /\ held' = held /\ heldGroups' = heldGroups
  BY SamePlaces DEF StockInv
<1>2. Whole'
  BY <1>1 DEF StockInv, Whole
<1>3. jobs'[j] = job /\ \A k \in Job \ {j} : jobs'[k] = jobs[k]
  BY DEF TypeOK
<1>4. GroupInv'
  BY <1>1, <1>3 DEF StockInv, GroupInv, holding
<1>5. Cardinality(job.groups) = 0 /\ job.count \in Int
  BY FS_EmptySet DEF JobType
<1>6. \A k \in Job : jobs'[k].groups \subseteq Masked(Group)
  BY <1>3 DEF StockInv, JobInv
<1>7. \A k \in Job : jobs'[k].op \in {"none", "Create", "ReSync"} => jobs'[k].groups = {}
  BY <1>3 DEF StockInv, JobInv
<1>8. \A k \in Job : isPending(k)' => jobs'[k].count > 0 /\ Cardinality(jobs'[k].groups) <= jobs'[k].count
  <2> TAKE k \in Job
  <2>1. CASE k = j
    <3>1. isPending(j)' => job.op = "Create"
      BY <1>3 DEF isPending, holding
    <3> QED
      BY <1>3, <1>5, <2>1, <3>1
  <2>2. CASE k # j
    BY <1>3, <2>2 DEF StockInv, JobInv, isPending, holding
  <2> QED
    BY <2>1, <2>2
<1>9. \A k \in Job : isCurrent(k)' =>
        /\ reSyncRequired' /\ \A l \in Job : ~isPending(l)'
        /\ jobs'[k].op = "Fetched" => jobs'[k].groups = Masked(upstream')
  BY <1>3 DEF StockInv, JobInv, isCurrent, isPending, holding
<1>10. JobInv'
  BY <1>6, <1>7, <1>8, <1>9 DEF JobInv
<1> QED
  BY <1>1, <1>2, <1>4, <1>10 DEF StockInv

\* A free group is in the pool, and all its resources are warm.
LEMMA FreeGroup ==
  ASSUME TypeOK, Apart, Whole, NEW g \in freeGroups
  PROVE  g \in heldGroups /\ ResourcesOf({g}) \subseteq warmSet
<1> DEFINE R == ResourcesOf({g})
           W == {r \in R : warmResources[r] > 0}
           C == warmCopies(R)
           f == [r \in W |-> <<r, 1>>]
<1>1. PerGroup \in Nat \ {0} /\ Cardinality(C) = PerGroup /\ IsFiniteSet(R)
  BY ConstantFacts, FS_Subset DEF freeGroups, numWarmIn, ResourcesOf
<1>2. \A r \in W : r \in Resource /\ warmResources[r] = 1 /\ r \in warmSet
  BY DEF ResourcesOf, Apart, TypeOK, warmSet
<1>3. IsFiniteSet(W)
  BY <1>1, FS_Subset
<1>4. f \in [W -> C] /\ \A x, y \in W : f[x] = f[y] => x = y
  BY <1>2 DEF warmCopies
<1>5. \A t \in C : \E x \in W : f[x] = t
  <2> TAKE t \in C
  <2>1. PICK r \in R : t \in {r} \X (1 .. warmResources[r])
    BY DEF warmCopies
  <2>2. r \in W
    BY <2>1 DEF TypeOK, ResourcesOf
  <2>3. warmResources[r] = 1 /\ t = <<r, 1>>
    BY <1>2, <2>1, <2>2
  <2> QED
    BY <2>2, <2>3
<1> HIDE DEF f, C
<1>6. Cardinality(W) = PerGroup
  BY <1>1, <1>3, <1>4, <1>5, SameSize
<1>7. \E r \in W : TRUE
  BY <1>1, <1>3, <1>6, FS_EmptySet
<1>8. g \in heldGroups
  BY <1>2, <1>7 DEF heldGroups, held, ResourcesOf
<1>9. g \in Masked(Group)
  BY <1>8, PoolSize
<1>10. Cardinality(R) = PerGroup
  <2>1. {g} \in SUBSET Masked(Group) /\ Cardinality({g}) = 1
    BY <1>9, FS_Singleton
  <2>2. Cardinality(R) = Cardinality({g}) * PerGroup
    BY <2>1, GroupSize
  <2> QED
    BY <1>1, <2>1, <2>2
<1>11. W = R
  BY <1>1, <1>6, <1>10, FS_Subset
<1> QED
  BY <1>2, <1>8, <1>11

\* Groups leave the pool with a delete job.
LEMMA DeleteStock ==
  ASSUME TypeOK, StockInv, RequestDelete
  PROVE  \E j \in Job, gs \in SUBSET heldGroups :
           /\ StockInv' /\ heldGroups' = heldGroups \ gs
           /\ jobs[j] = NoJob /\ \A k \in Job \ {j} : jobs'[k] = jobs[k]
           /\ jobs'[j].op = "Deleted" /\ jobs'[j].count = Cardinality(gs)
           /\ pendingDelete' = pendingDelete + Cardinality(gs) * PerGroup
<1> DEFINE n == atMost(CeilDivision(-deviation, PerGroup), Cardinality(freeGroups))
<1>1. PICK gs \in kSubset(n, freeGroups) :
        /\ warmResources' = [r \in Resource |-> IF GroupOf(r) \in gs THEN 0 ELSE warmResources[r]]
        /\ pendingDelete' = pendingDelete + Cardinality(gs) * PerGroup
        /\ submit([NoJob EXCEPT !.op = "Deleted", !.count = Cardinality(gs), !.groups = gs])
  BY DEF RequestDelete
<1>2. gs \subseteq freeGroups /\ Cardinality(gs) = n
  BY DEF kSubset
<1>3. gs \subseteq heldGroups /\ ResourcesOf(gs) \subseteq warmSet
  <2>1. gs \subseteq heldGroups
    BY <1>2, FreeGroup DEF StockInv
  <2>2. ASSUME NEW r \in ResourcesOf(gs) PROVE r \in warmSet
    BY <1>2, FreeGroup DEF StockInv, ResourcesOf
  <2> QED
    BY <2>1, <2>2
<1>4. heldGroups \subseteq Masked(Group) /\ ResourcesOf(heldGroups) = held /\ PerGroup \in Nat \ {0}
  BY PoolSize, ConstantFacts DEF StockInv
<1>5. IsFiniteSet(gs) /\ Cardinality(gs) \in Nat
  BY <1>3, <1>4, GroupSize
<1>6. n > 0
  <2>1. deviation \in Int /\ -deviation > 0
    <3>1. maxDeviation \in Nat /\ -deviation > maxDeviation /\ deviation \in Int
      BY PoolAssumption, CountType DEF maxDeviation, RequestDelete
    <3> QED
      BY <3>1
  <2>2. CeilDivision(-deviation, PerGroup) > 0 /\ CeilDivision(-deviation, PerGroup) \in Int
    <3>1. \A x \in Int, d \in Nat \ {0} : x > 0 => (x + d - 1) \div d > 0 /\ (x + d - 1) \div d \in Int
      OBVIOUS
    <3> QED
      BY <1>4, <2>1, <3>1 DEF CeilDivision
  <2>3. Cardinality(freeGroups) \in Nat /\ Cardinality(freeGroups) # 0
    <3>1. IsFiniteSet(freeGroups) /\ freeGroups # {}
      BY CountType DEF RequestDelete
    <3> QED
      BY <3>1, FS_CardinalityType, FS_EmptySet
  <2> QED
    BY <2>2, <2>3 DEF atMost
<1> DEFINE job == [NoJob EXCEPT !.op = "Deleted", !.count = Cardinality(gs), !.groups = gs]
<1>7. job.op = "Deleted" /\ job.count = Cardinality(gs) /\ job.groups = gs
  BY DEF NoJob
<1>8. PICK j \in Job : jobs[j] = NoJob /\ jobs' = [jobs EXCEPT ![j] = job]
  BY <1>1 DEF submit
<1>9. jobs'[j] = job /\ \A k \in Job \ {j} : jobs'[k] = jobs[k]
  BY <1>8 DEF TypeOK
<1> HIDE DEF job, n
<1>10. UNCHANGED <<usedResources, coolDownQueue, upstream, reSyncRequired>> /\ ~reSyncRequired
  BY DEF RequestDelete, mayGrowOrShrink
<1>11. Used' = Used /\ usedSet' = usedSet /\ coolingSet' = coolingSet
  BY <1>10 DEF Used, usedSet, coolingSet
<1>12. warmSet' = warmSet \ ResourcesOf(gs) /\ \A r \in Resource : warmResources'[r] <= 1
  BY <1>1 DEF warmSet, ResourcesOf, StockInv, Apart, TypeOK
<1>13. Apart'
  BY <1>10, <1>11, <1>12 DEF StockInv, Apart
<1>14. held' = held \ ResourcesOf(gs)
  BY <1>3, <1>11, <1>12 DEF held, StockInv, Apart
<1>15. heldGroups' = heldGroups \ gs
  <2>1. held \subseteq Resource
    BY <1>4 DEF ResourcesOf
  <2>2. \A r \in held : r \in held' <=> GroupOf(r) \notin gs
    BY <1>14, <2>1 DEF ResourcesOf
  <2>3. held' \subseteq held
    BY <1>14
  <2> QED
    BY <2>2, <2>3 DEF heldGroups
<1>16. Whole'
  BY <1>4, <1>10, <1>14, <1>15 DEF Whole, ResourcesOf, StockInv
<1>17. GroupInv'
  <2>1. \A k \in Job : holding(k)' => jobs'[k].groups \subseteq Masked(upstream') \ heldGroups'
    BY <1>3, <1>7, <1>9, <1>10, <1>15 DEF GroupInv, holding, StockInv, Whole
  <2>2. \A k \in Job \ {j} : holding(k)' => jobs'[k].groups \cap gs = {}
    BY <1>3, <1>9 DEF GroupInv, holding, StockInv
  <2>3. \A k, l \in Job : holding(k)' /\ holding(l)' /\ jobs'[k].groups \cap jobs'[l].groups # {} => k = l
    BY <1>7, <1>9, <2>2 DEF GroupInv, holding, StockInv
  <2> QED
    BY <2>1, <2>3 DEF GroupInv
<1>18. JobInv'
  <2>1. \A k \in Job : jobs'[k].groups \subseteq Masked(Group)
    BY <1>3, <1>4, <1>7, <1>9 DEF StockInv, JobInv
  <2>2. \A k \in Job : jobs'[k].op \in {"none", "Create", "ReSync"} => jobs'[k].groups = {}
    BY <1>7, <1>9 DEF StockInv, JobInv
  <2>3. \A k \in Job : isPending(k)' => jobs'[k].count > 0 /\ Cardinality(jobs'[k].groups) <= jobs'[k].count
    BY <1>2, <1>5, <1>6, <1>7, <1>9 DEF StockInv, JobInv, isPending, holding
  <2>4. \A k \in Job : ~isCurrent(k)'
    BY <1>7, <1>9, <1>10 DEF StockInv, JobInv, isCurrent, isPending, holding
  <2> QED
    BY <2>1, <2>2, <2>3, <2>4 DEF JobInv
<1> QED
  BY <1>1, <1>3, <1>7, <1>8, <1>9, <1>13, <1>15, <1>16, <1>17, <1>18 DEF StockInv

\* The size of a set of groups does not depend on their spelling.
LEMMA MaskedSize ==
  ASSUME NEW G \in SUBSET Group
  PROVE  /\ IsFiniteSet(G) /\ Cardinality(G) \in Nat
         /\ IsFiniteSet(Masked(G)) /\ Cardinality(Masked(G)) = Cardinality(G)
<1>1. IsFiniteSet(G) /\ Cardinality(G) \in Nat
  BY PoolAssumption, FS_Subset, FS_CardinalityType
<1> DEFINE f == [g \in G |-> <<g, mask>>]
<1>2. f \in [G -> Masked(G)] /\ \A x, y \in G : f[x] = f[y] => x = y
  BY NameFacts
<1>3. \A t \in Masked(G) : \E x \in G : f[x] = t
  BY NameFacts
<1> HIDE DEF f
<1> QED
  BY <1>1, <1>2, <1>3, SameSize

\* EC2 assigns groups the node did not have.
LEMMA CreateStock ==
  ASSUME TypeOK, StockInv, NEW j \in Job, CreateIPV4Resource(j)
  PROVE  /\ StockInv' /\ heldGroups' = heldGroups
         /\ jobs[j].op = "Create" /\ jobs'[j].op = "Created" /\ jobs'[j].count = jobs[j].count
         /\ \A k \in Job \ {j} : jobs'[k] = jobs[k]
         /\ upstream \subseteq upstream' /\ Cardinality(upstream') * PerGroup <= capacity
<1>1. PICK made \in SUBSET (Group \ upstream) : \E got \in SUBSET made :
        /\ Cardinality(made) <= jobs[j].count
        /\ Cardinality(upstream \cup made) * PerGroup <= capacity
        /\ upstream' = upstream \cup made
        /\ \/ jobs' = [jobs EXCEPT ![j].op = "Created", ![j].groups = Masked(got),
                                   ![j].ok = Cardinality(got) >= jobs[j].count]
           \/ jobs' = [jobs EXCEPT ![j].op = "Created"]
  BY DEF CreateIPV4Resource
<1>2. PICK got \in SUBSET made :
        /\ Cardinality(made) <= jobs[j].count
        /\ Cardinality(upstream \cup made) * PerGroup <= capacity
        /\ upstream' = upstream \cup made
        /\ \/ jobs' = [jobs EXCEPT ![j].op = "Created", ![j].groups = Masked(got),
                                   ![j].ok = Cardinality(got) >= jobs[j].count]
           \/ jobs' = [jobs EXCEPT ![j].op = "Created"]
  BY <1>1
<1>3. jobs[j].op = "Create" /\ jobs[j].groups = {} /\ jobs[j].count \in Nat \ {0} /\ jobs[j] \in JobType
  BY DEF CreateIPV4Resource, StockInv, JobInv, isPending, TypeOK, JobType
<1> DEFINE new == jobs'[j].groups
           b == Cardinality(got) >= jobs[j].count
           M == Masked(got)
<1>4. /\ jobs'[j].op = "Created" /\ jobs'[j].count = jobs[j].count /\ new \in {{}, M}
      /\ \A k \in Job \ {j} : jobs'[k] = jobs[k]
  <2>1. CASE jobs' = [jobs EXCEPT ![j].op = "Created", ![j].groups = M, ![j].ok = b]
    <3> HIDE DEF M, b
    <3> QED
      BY <1>3, <2>1 DEF TypeOK, JobType
  <2>2. CASE jobs' = [jobs EXCEPT ![j].op = "Created"]
    BY <1>3, <2>2 DEF TypeOK, JobType
  <2> QED
    BY <1>2, <2>1, <2>2
<1>5. UNCHANGED <<usedResources, warmResources, coolDownQueue, reSyncRequired>>
  BY DEF CreateIPV4Resource, poolVars
<1>6. Apart' /\ held' = held /\ heldGroups' = heldGroups
  BY <1>5, SamePlaces DEF StockInv
<1>7. upstream \subseteq Group /\ made \subseteq Group /\ got \subseteq Group /\ upstream' \subseteq Group
  BY <1>2 DEF TypeOK
<1>8. /\ Masked(upstream) \subseteq Masked(upstream') /\ M \subseteq Masked(upstream')
      /\ M \cap Masked(upstream) = {} /\ M \subseteq Masked(Group)
  <2>1. ASSUME NEW g \in Masked(upstream) PROVE g \in Masked(upstream')
    BY <1>2, <2>1, NameFacts
  <2>2. ASSUME NEW g \in M PROVE g \in Masked(upstream') /\ g \notin Masked(upstream)
    BY <1>2, <2>2, NameFacts
  <2>3. M \subseteq Masked(Group)
    BY <1>7, NameFacts
  <2> QED
    BY <2>1, <2>2, <2>3
<1>9. Cardinality(new) <= jobs[j].count
  <2>1. Cardinality(M) = Cardinality(got) /\ Cardinality(got) <= Cardinality(made) /\ Cardinality(got) \in Nat /\ Cardinality(made) \in Nat
    BY <1>7, MaskedSize, FS_Subset
  <2>2. Cardinality(M) <= jobs[j].count
    BY <1>2, <1>3, <2>1
  <2> HIDE DEF M, new
  <2>3. CASE new = {}
    <3>1. Cardinality(new) = 0
      BY <2>3, FS_EmptySet
    <3> QED
      BY <1>3, <3>1
  <2>4. CASE new = M
    BY <2>2, <2>4
  <2> QED
    BY <1>4, <2>3, <2>4
<1> HIDE DEF new, M
<1>10. Whole'
  BY <1>6, <1>8 DEF Whole, StockInv
<1>11. \A k \in Job : ~isCurrent(k) /\ ~isCurrent(k)'
  BY <1>3, <1>4 DEF StockInv, JobInv, isCurrent, isPending
<1>12. GroupInv'
  <2>1. \A k \in Job \ {j} : holding(k)' => holding(k) /\ jobs'[k].groups \subseteq Masked(upstream)
    BY <1>4 DEF StockInv, GroupInv, holding
  <2>2. new \cap Masked(upstream) = {} /\ new \subseteq Masked(upstream')
    BY <1>4, <1>8
  <2>3. heldGroups \subseteq Masked(upstream)
    BY DEF StockInv, Whole
  <2>4. \A k \in Job : holding(k)' => jobs'[k].groups \subseteq Masked(upstream') \ heldGroups'
    BY <1>4, <1>6, <1>8, <2>1, <2>2, <2>3 DEF StockInv, GroupInv, new
  <2>5. \A k, l \in Job : holding(k)' /\ holding(l)' /\ jobs'[k].groups \cap jobs'[l].groups # {} => k = l
    BY <1>4, <2>1, <2>2 DEF StockInv, GroupInv, new
  <2> QED
    BY <2>4, <2>5 DEF GroupInv
<1>13. JobInv'
  <2>1. \A k \in Job : jobs'[k].groups \subseteq Masked(Group)
    BY <1>4, <1>8 DEF StockInv, JobInv, new
  <2>2. \A k \in Job : jobs'[k].op \in {"none", "Create", "ReSync"} => jobs'[k].groups = {}
    BY <1>4 DEF StockInv, JobInv
  <2>3. \A k \in Job : isPending(k)' => jobs'[k].count > 0 /\ Cardinality(jobs'[k].groups) <= jobs'[k].count
    BY <1>3, <1>4, <1>9 DEF StockInv, JobInv, isPending, holding, new
  <2> QED
    BY <1>11, <2>1, <2>2, <2>3 DEF JobInv
<1> QED
  BY <1>2, <1>3, <1>4, <1>6, <1>10, <1>12, <1>13 DEF StockInv

\* EC2 unassigns groups of a delete job; the job keeps the others.
LEMMA UnassignStock ==
  ASSUME Contract, TypeOK, StockInv, NEW j \in Job, DeleteIPV4Resource(j)
  PROVE  /\ StockInv' /\ heldGroups' = heldGroups
         /\ jobs[j].op = "Deleted" /\ jobs'[j].op = "Unassigned" /\ jobs'[j].count = jobs[j].count
         /\ \A k \in Job \ {j} : jobs'[k] = jobs[k]
         /\ upstream' \subseteq upstream
         /\ heldGroups \subseteq Masked(upstream')
<1> DEFINE known == {g \in jobs[j].groups : g[1] \in upstream}
<1>1. PICK done \in SUBSET known :
        /\ done # known => "UnassignFails" \in Faults
        /\ upstream' = upstream \ {g[1] : g \in done}
        /\ jobs' = [jobs EXCEPT ![j].op = "Unassigned",
                                ![j].groups = returnedNames(jobs[j].groups \ done),
                                ![j].ok = done = jobs[j].groups]
  BY DEF DeleteIPV4Resource
<1>2. jobs[j].op = "Deleted" /\ holding(j) /\ jobs[j].count \in Nat \ {0} /\ jobs[j] \in JobType
  BY DEF DeleteIPV4Resource, StockInv, JobInv, isPending, holding, TypeOK, JobType
<1>3. jobs[j].groups \subseteq Masked(upstream) \ heldGroups
  BY <1>2 DEF StockInv, GroupInv
<1>4. known = jobs[j].groups
  BY <1>3, NameFacts
<1> HIDE DEF known
<1> DEFINE rest == jobs[j].groups \ done
<1>5. returnedNames(rest) = rest
  <2>1. CASE isPDPool
    BY <2>1 DEF returnedNames
  <2>2. CASE ~isPDPool
    <3>1. rest = {}
      BY <1>1, <1>4, <2>2 DEF Contract
    <3>2. Stripped({}) = {}
      BY DEF Stripped
    <3> HIDE DEF rest
    <3> QED
      BY <2>2, <3>1, <3>2 DEF returnedNames
  <2> QED
    BY <2>1, <2>2, PoolAssumption
<1> DEFINE b == done = jobs[j].groups
<1>6. jobs' = [jobs EXCEPT ![j].op = "Unassigned", ![j].groups = rest, ![j].ok = b]
  BY <1>1, <1>5
<1> HIDE DEF rest, b
<1>7. /\ jobs'[j].op = "Unassigned" /\ jobs'[j].count = jobs[j].count /\ jobs'[j].groups = rest
      /\ \A k \in Job \ {j} : jobs'[k] = jobs[k]
  BY <1>2, <1>6 DEF TypeOK, JobType
<1>8. \A g \in Masked(upstream) : g \in Masked(upstream') <=> g \notin done
  <2> TAKE g \in Masked(upstream)
  <2>1. g = <<g[1], mask>> /\ g[1] \in upstream
    BY NameFacts
  <2>2. \A d \in done : d = <<d[1], mask>>
    BY <1>1, <1>3, <1>4, NameFacts
  <2>3. g[1] \in {d[1] : d \in done} <=> g \in done
    BY <2>1, <2>2
  <2>4. g \in Masked(upstream') <=> g[1] \in upstream'
    BY <2>1, NameFacts
  <2> QED
    BY <1>1, <2>1, <2>3, <2>4
<1>9. rest \subseteq jobs[j].groups /\ rest \cap done = {} /\ done \subseteq jobs[j].groups
  BY <1>1, <1>4 DEF rest
<1>10. UNCHANGED <<usedResources, warmResources, coolDownQueue, reSyncRequired>>
  BY DEF DeleteIPV4Resource, poolVars
<1>11. Apart' /\ held' = held /\ heldGroups' = heldGroups
  BY <1>10, SamePlaces DEF StockInv
<1>12. heldGroups \subseteq Masked(upstream')
  BY <1>3, <1>8, <1>9 DEF StockInv, Whole
<1>13. Whole'
  BY <1>11, <1>12 DEF Whole, StockInv
<1>14. \A k \in Job : ~isCurrent(k) /\ ~isCurrent(k)'
  BY <1>2, <1>7 DEF StockInv, JobInv, isCurrent, isPending, holding
<1>15. GroupInv'
  <2>1. \A k \in Job : holding(k)' => holding(k) /\ jobs'[k].groups \subseteq jobs[k].groups
    BY <1>2, <1>7, <1>9 DEF holding
  <2>2. \A k \in Job \ {j} : holding(k) => jobs[k].groups \cap done = {}
    BY <1>2, <1>9 DEF StockInv, GroupInv
  <2>3. \A k \in Job : holding(k)' => jobs'[k].groups \cap done = {}
    BY <1>7, <1>9, <2>1, <2>2
  <2>4. \A k \in Job : holding(k)' => jobs'[k].groups \subseteq Masked(upstream') \ heldGroups'
    BY <1>8, <1>11, <2>1, <2>3 DEF StockInv, GroupInv
  <2>5. \A k, l \in Job : holding(k)' /\ holding(l)' /\ jobs'[k].groups \cap jobs'[l].groups # {} => k = l
    BY <2>1 DEF StockInv, GroupInv
  <2> QED
    BY <2>4, <2>5 DEF GroupInv
<1>16. JobInv'
  <2>1. \A k \in Job : jobs'[k].groups \subseteq Masked(Group)
    BY <1>7, <1>9 DEF StockInv, JobInv
  <2>2. \A k \in Job : jobs'[k].op \in {"none", "Create", "ReSync"} => jobs'[k].groups = {}
    BY <1>7 DEF StockInv, JobInv
  <2>3. Cardinality(rest) <= jobs[j].count
    <3>1. jobs[j].groups \in SUBSET Masked(Group) /\ rest \in SUBSET jobs[j].groups
      BY <1>9 DEF StockInv, JobInv
    <3>2. IsFiniteSet(jobs[j].groups) /\ Cardinality(jobs[j].groups) \in Nat /\ Cardinality(rest) \in Nat
      BY <3>1, GroupSize
    <3>3. Cardinality(rest) <= Cardinality(jobs[j].groups)
      BY <3>1, <3>2, FS_Subset
    <3>4. Cardinality(jobs[j].groups) <= jobs[j].count
      BY <1>2 DEF StockInv, JobInv, isPending
    <3> QED
      BY <1>2, <3>2, <3>3, <3>4
  <2>4. \A k \in Job : isPending(k)' => jobs'[k].count > 0 /\ Cardinality(jobs'[k].groups) <= jobs'[k].count
    BY <1>2, <1>7, <2>3 DEF StockInv, JobInv, isPending, holding
  <2> QED
    BY <1>14, <2>1, <2>2, <2>4 DEF JobInv
<1> QED
  BY <1>1, <1>2, <1>7, <1>11, <1>12, <1>13, <1>15, <1>16 DEF StockInv

\* The groups a job returns become warm.
LEMMA UpdateStock ==
  ASSUME TypeOK, StockInv, NEW j \in Job, UpdatePool(j)
  PROVE  /\ StockInv' /\ heldGroups' = heldGroups \cup jobs[j].groups
         /\ jobs[j].groups \subseteq Masked(Group) \ heldGroups
         /\ isPending(j) /\ jobs' = [jobs EXCEPT ![j] = NoJob]
<1> DEFINE gs == jobs[j].groups
           R == ResourcesOf(gs)
<1>1. /\ jobs[j].op \in {"Created", "Unassigned"} /\ holding(j) /\ isPending(j)
      /\ jobs' = [jobs EXCEPT ![j] = NoJob]
      /\ UNCHANGED <<usedResources, coolDownQueue, upstream>>
  BY DEF UpdatePool, holding, isPending
<1>2. jobs'[j] = NoJob /\ \A k \in Job \ {j} : jobs'[k] = jobs[k]
  BY <1>1 DEF TypeOK
<1>3. gs \subseteq Masked(upstream) \ heldGroups
  BY <1>1 DEF StockInv, GroupInv
<1>4. gs \subseteq Masked(Group) /\ R \subseteq Proper /\ R \subseteq Resource
  <2>1. gs \subseteq Masked(Group)
    BY DEF StockInv, JobInv
  <2> QED
    BY <2>1, GroupSize DEF ResourcesOf
<1>5. R \cap held = {}
  BY <1>3 DEF ResourcesOf, heldGroups
<1>6. \A r \in Resource : warmResources'[r] = IF r \in R THEN warmResources[r] + 1 ELSE warmResources[r]
  BY DEF UpdatePool, withGroupsOf, ResourcesOf, TypeOK
<1>7. \A r \in R : warmResources[r] = 0
  BY <1>4, <1>5 DEF held, warmSet, TypeOK
<1>8. Used' = Used /\ usedSet' = usedSet /\ coolingSet' = coolingSet
  BY <1>1 DEF Used, usedSet, coolingSet
<1> HIDE DEF R
<1>9. warmSet' = warmSet \cup R /\ \A r \in Resource : warmResources'[r] <= 1
  BY <1>4, <1>6, <1>7 DEF warmSet, StockInv, Apart, TypeOK
<1>10. held' = held \cup R
  BY <1>8, <1>9 DEF held
<1>11. Apart'
  BY <1>1, <1>5, <1>8, <1>9 DEF StockInv, Apart, held
<1>12. heldGroups' = heldGroups \cup gs
  <2>1. \A g \in gs : \E r \in R : GroupOf(r) = g
    <3> TAKE g \in gs
    <3>1. 1 \in 1 .. PerGroup
      BY ConstantFacts
    <3>2. PICK r \in Proper : GroupOf(r) = g
      BY <1>4, <3>1, NameFacts
    <3> QED
      BY <3>2 DEF R, ResourcesOf, Proper
  <2>2. \A r \in R : GroupOf(r) \in gs
    BY DEF R, ResourcesOf
  <2> QED
    BY <1>10, <2>1, <2>2 DEF heldGroups
<1>13. Whole'
  <2>1. held' \subseteq Proper
    BY <1>4, <1>10 DEF StockInv, Whole
  <2>2. ResourcesOf(heldGroups') \subseteq held'
    BY <1>10, <1>12 DEF ResourcesOf, R, StockInv, Whole
  <2>3. heldGroups' \subseteq Masked(upstream')
    BY <1>1, <1>3, <1>12 DEF StockInv, Whole
  <2> QED
    BY <2>1, <2>2, <2>3 DEF Whole
<1> HIDE DEF gs
<1>14. \A k \in Job : holding(k)' => k # j /\ holding(k) /\ jobs'[k] = jobs[k]
  BY <1>2 DEF holding, NoJob
<1>15. GroupInv'
  <2>1. \A k \in Job \ {j} : holding(k) => jobs[k].groups \cap gs = {}
    BY <1>1 DEF StockInv, GroupInv, gs
  <2>2. \A k \in Job : holding(k)' => jobs'[k].groups \subseteq Masked(upstream') \ heldGroups'
    BY <1>1, <1>12, <1>14, <2>1 DEF StockInv, GroupInv
  <2>3. \A k, l \in Job : holding(k)' /\ holding(l)' /\ jobs'[k].groups \cap jobs'[l].groups # {} => k = l
    BY <1>14 DEF StockInv, GroupInv
  <2> QED
    BY <2>2, <2>3 DEF GroupInv
<1>16. JobInv'
  <2>1. \A k \in Job : ~isCurrent(k)'
    BY <1>1, <1>2 DEF StockInv, JobInv, isCurrent, NoJob
  <2>2. \A k \in Job : jobs'[k].groups \subseteq Masked(Group)
    BY <1>2 DEF StockInv, JobInv, NoJob
  <2>3. \A k \in Job : jobs'[k].op \in {"none", "Create", "ReSync"} => jobs'[k].groups = {}
    BY <1>2 DEF StockInv, JobInv, NoJob
  <2>4. \A k \in Job : isPending(k)' => jobs'[k].count > 0 /\ Cardinality(jobs'[k].groups) <= jobs'[k].count
    BY <1>2 DEF StockInv, JobInv, NoJob, isPending, holding
  <2> QED
    BY <2>1, <2>2, <2>3, <2>4 DEF JobInv
<1> QED
  BY <1>1, <1>3, <1>4, <1>11, <1>12, <1>13, <1>15, <1>16 DEF StockInv, gs

\* The node's groups are listed for a re-sync, or the job is dropped.
LEMMA FetchStock ==
  ASSUME TypeOK, StockInv, NEW j \in Job, ReSyncFetch(j)
  PROVE  /\ StockInv' /\ heldGroups' = heldGroups
         /\ ~isPending(j) /\ ~isPending(j)' /\ \A k \in Job \ {j} : jobs'[k] = jobs[k]
<1>1. /\ jobs[j].op = "ReSync"
      /\ jobs' \in {[jobs EXCEPT ![j].op = "Fetched", ![j].groups = Masked(upstream)], [jobs EXCEPT ![j] = NoJob]}
      /\ UNCHANGED <<usedResources, warmResources, coolDownQueue, upstream, reSyncRequired>>
  BY DEF ReSyncFetch, poolVars
<1>3. Apart' /\ held' = held /\ heldGroups' = heldGroups
  BY <1>1, SamePlaces DEF StockInv
<1>4. Whole'
  BY <1>1, <1>3 DEF StockInv, Whole
<1>5. /\ \A k \in Job \ {j} : jobs'[k] = jobs[k]
      /\ \/ jobs'[j].op = "Fetched" /\ jobs'[j].groups = Masked(upstream) /\ jobs'[j].ok = jobs[j].ok
         \/ jobs'[j].op = "none" /\ jobs'[j].groups = {}
  <2>1. jobs[j] \in JobType
    BY DEF TypeOK
  <2>0. PICK M : M = Masked(upstream)
    OBVIOUS
  <2>2. CASE jobs' = [jobs EXCEPT ![j].op = "Fetched", ![j].groups = M]
    <3>1. /\ \A k \in Job \ {j} : jobs'[k] = jobs[k]
          /\ jobs'[j].op = "Fetched" /\ jobs'[j].groups = M /\ jobs'[j].ok = jobs[j].ok
      BY <2>1, <2>2 DEF TypeOK, JobType
    <3> QED
      BY <2>0, <3>1
  <2>3. CASE jobs' = [jobs EXCEPT ![j] = NoJob]
    BY <2>3 DEF TypeOK, NoJob
  <2> QED
    BY <1>1, <2>0, <2>2, <2>3
<1>6. /\ ~isPending(j) /\ ~isPending(j)' /\ ~holding(j)'
      /\ \A k \in Job \ {j} : (holding(k)' <=> holding(k)) /\ (isPending(k)' <=> isPending(k))
  BY <1>1, <1>5 DEF isPending, holding
<1>7. GroupInv'
  BY <1>1, <1>3, <1>5, <1>6 DEF StockInv, GroupInv
<1>8. Masked(upstream) \subseteq Masked(Group)
  BY NameFacts DEF TypeOK
<1>9. JobInv'
  <2>1. \A k \in Job : jobs'[k].groups \subseteq Masked(Group)
    BY <1>5, <1>8 DEF StockInv, JobInv
  <2>2. \A k \in Job : jobs'[k].op \in {"none", "Create", "ReSync"} => jobs'[k].groups = {}
    BY <1>5 DEF StockInv, JobInv
  <2>3. \A k \in Job : isCurrent(k)' => isCurrent(k)
    BY <1>1, <1>5 DEF isCurrent
  <2>4. \A k \in Job : isCurrent(k)' =>
          /\ reSyncRequired' /\ \A l \in Job : ~isPending(l)'
          /\ jobs'[k].op = "Fetched" => jobs'[k].groups = Masked(upstream')
    BY <1>1, <1>5, <1>6, <2>3 DEF StockInv, JobInv
  <2>5. \A k \in Job : isPending(k)' => jobs'[k].count > 0 /\ Cardinality(jobs'[k].groups) <= jobs'[k].count
    BY <1>5, <1>6 DEF StockInv, JobInv
  <2> QED
    BY <2>1, <2>2, <2>4, <2>5 DEF JobInv
<1> QED
  BY <1>3, <1>4, <1>5, <1>6, <1>7, <1>9 DEF StockInv

\* An increasing choice of all positions of a sequence keeps all its elements.
LEMMA AllPositions ==
  ASSUME NEW n \in Nat, NEW f \in [1 .. n -> 1 .. n], \A a, b \in 1 .. n : a < b => f[a] < f[b]
  PROVE  /\ \A a, b \in 1 .. n : f[a] = f[b] => a = b
         /\ \A i \in 1 .. n : \E a \in 1 .. n : f[a] = i
<1>1. \A a, b \in 1 .. n : f[a] = f[b] => a = b
  <2> SUFFICES ASSUME NEW a \in 1 .. n, NEW b \in 1 .. n, f[a] = f[b], a # b PROVE FALSE
    OBVIOUS
  <2>1. a < b \/ b < a
    OBVIOUS
  <2>2. f[a] < f[b] \/ f[b] < f[a]
    BY <2>1
  <2>3. f[a] \in Int
    OBVIOUS
  <2> QED
    BY <2>2, <2>3
<1>2. IsFiniteSet(1 .. n) /\ Cardinality(1 .. n) = n
  BY IntervalSize
<1>3. f \in Injection(1 .. n, 1 .. n)
  BY <1>1 DEF Injection, IsInjective
<1>4. f \in Surjection(1 .. n, 1 .. n)
  BY <1>2, <1>3, FS_Injection
<1>5. \A i \in 1 .. n : \E a \in 1 .. n : f[a] = i
  BY <1>4 DEF Surjection
<1> QED
  BY <1>1, <1>5

\* A re-sync job ends without being applied.
LEMMA IgnoredStock ==
  ASSUME TypeOK, StockInv, NEW j \in Job, ReSync(j), ~reSyncRequired
  PROVE  /\ StockInv' /\ heldGroups' = heldGroups
         /\ ~isPending(j) /\ ~isPending(j)' /\ \A k \in Job \ {j} : jobs'[k] = jobs[k]
<1>1. /\ jobs[j].op = "Fetched" /\ jobs' = [jobs EXCEPT ![j] = NoJob]
      /\ UNCHANGED <<usedResources, warmResources, coolDownQueue, upstream, reSyncRequired>>
  BY DEF ReSync
<1>2. Apart' /\ held' = held /\ heldGroups' = heldGroups
  BY <1>1, SamePlaces DEF StockInv
<1>3. Whole'
  BY <1>1, <1>2 DEF StockInv, Whole
<1>4. jobs'[j].op = "none" /\ jobs'[j].groups = {} /\ \A k \in Job \ {j} : jobs'[k] = jobs[k]
  BY <1>1 DEF TypeOK, NoJob
<1>5. /\ ~isPending(j) /\ ~isPending(j)' /\ ~holding(j)' /\ ~isCurrent(j)'
      /\ \A k \in Job \ {j} : (holding(k)' <=> holding(k)) /\ (isPending(k)' <=> isPending(k)) /\ (isCurrent(k)' <=> isCurrent(k))
  BY <1>1, <1>4 DEF isPending, holding, isCurrent
<1>6. GroupInv'
  BY <1>1, <1>2, <1>4, <1>5 DEF StockInv, GroupInv
<1>7. JobInv'
  BY <1>1, <1>4, <1>5 DEF StockInv, JobInv
<1> QED
  BY <1>2, <1>3, <1>4, <1>5, <1>6, <1>7 DEF StockInv

\* A listing that holds makes the pool hold what the node has, and takes nothing
\* from it; the other re-sync jobs are superseded.
LEMMA ReSyncStock ==
  ASSUME TypeOK, StockInv, NEW j \in Job, ReSync(j), reSyncRequired,
         jobs[j].groups = Masked(upstream), \A k \in Job : ~isPending(k)
  PROVE  /\ StockInv' /\ heldGroups' = Masked(upstream)
         /\ \A k \in Job : ~isPending(k)'
         /\ \A i \in DOMAIN coolDownQueue : \E k \in DOMAIN coolDownQueue' : coolDownQueue'[k] = coolDownQueue[i]
<1> DEFINE listed == ResourcesOf(jobs[j].groups)
           I == {i \in DOMAIN coolDownQueue : coolDownQueue[i].res \in listed}
<1>1. jobs[j].op = "Fetched" /\ reSyncDone(j) /\ UNCHANGED <<usedResources, upstream>>
  BY DEF ReSync
<1>2. jobs[j].groups = Masked(upstream)
  OBVIOUS
<1>3. /\ warmResources' = [r \in Resource |-> IF r \in listed \ held THEN 1
                                               ELSE IF r \in held \ listed THEN 0 ELSE warmResources[r]]
      /\ coolDownQueue' \in subsequencesAt(coolDownQueue, I)
  BY DEF ReSync, applyListing, held, usedSet, coolingSet, warmSet
<1>4. /\ held = ResourcesOf(heldGroups) /\ held \subseteq Resource /\ held \subseteq listed
      /\ listed \subseteq Proper /\ listed \subseteq Resource
  <2>1. Masked(upstream) \subseteq Masked(Group)
    BY NameFacts DEF TypeOK
  <2>2. listed \subseteq Proper /\ listed \subseteq Resource
    BY <1>2, <2>1, GroupSize DEF ResourcesOf
  <2>3. held = ResourcesOf(heldGroups)
    BY PoolSize DEF StockInv
  <2> QED
    BY <1>2, <2>2, <2>3 DEF ResourcesOf, StockInv, Whole
<1> DEFINE n == Len(coolDownQueue)
<1>5. n \in Nat /\ DOMAIN coolDownQueue = 1 .. n
  BY QueueFacts
<1>6. I = 1 .. n /\ Cardinality(I) = n
  <2>1. I = 1 .. n
    BY <1>4, <1>5 DEF held, coolingSet
  <2> HIDE DEF I, n
  <2> QED
    BY <1>5, <2>1, IntervalSize
<1> HIDE DEF I, n
<1>7. PICK f \in [1 .. n -> 1 .. n] :
        /\ \A a, b \in 1 .. n : a < b => f[a] < f[b]
        /\ coolDownQueue' = [k \in 1 .. n |-> coolDownQueue[f[k]]]
  BY <1>3, <1>6 DEF subsequencesAt
<1>8. /\ \A a, b \in 1 .. n : f[a] = f[b] => a = b
      /\ \A i \in 1 .. n : \E a \in 1 .. n : f[a] = i
  BY <1>5, <1>7, AllPositions
<1>9. DOMAIN coolDownQueue' = 1 .. n /\ \A k \in 1 .. n : coolDownQueue'[k] = coolDownQueue[f[k]] /\ f[k] \in 1 .. n
  BY <1>7
<1>10. \A i \in DOMAIN coolDownQueue : \E k \in DOMAIN coolDownQueue' : coolDownQueue'[k] = coolDownQueue[i]
  BY <1>5, <1>8, <1>9
<1>11. coolingSet' = coolingSet
  <2>1. \A k \in DOMAIN coolDownQueue' : coolDownQueue'[k].res \in coolingSet
    BY <1>5, <1>9 DEF coolingSet
  <2>2. \A i \in DOMAIN coolDownQueue : coolDownQueue[i].res \in coolingSet'
    BY <1>10 DEF coolingSet
  <2> QED
    BY <2>1, <2>2 DEF coolingSet
<1>12. \A i, k \in DOMAIN coolDownQueue' : coolDownQueue'[i].res = coolDownQueue'[k].res => i = k
  <2> SUFFICES ASSUME NEW i \in 1 .. n, NEW k \in 1 .. n, coolDownQueue'[i].res = coolDownQueue'[k].res
               PROVE  i = k
    BY <1>9
  <2>1. f[i] \in DOMAIN coolDownQueue /\ f[k] \in DOMAIN coolDownQueue
    BY <1>5, <1>9
  <2>2. coolDownQueue[f[i]].res = coolDownQueue[f[k]].res
    BY <1>9
  <2>3. f[i] = f[k]
    BY <2>1, <2>2 DEF StockInv, Apart
  <2> QED
    BY <1>8, <2>3
<1>13. Used' = Used /\ usedSet' = usedSet
  BY <1>1 DEF Used, usedSet
<1> HIDE DEF listed
<1>14. warmSet' = warmSet \cup (listed \ held) /\ \A r \in Resource : warmResources'[r] <= 1
  BY <1>3, <1>4 DEF warmSet, StockInv, Apart, TypeOK
<1>15. Apart'
  BY <1>1, <1>11, <1>12, <1>13, <1>14 DEF StockInv, Apart, held
<1>16. held' = listed
  BY <1>4, <1>11, <1>13, <1>14 DEF held
<1>17. heldGroups' = Masked(upstream)
  <2>1. \A g \in Masked(upstream) : \E r \in listed : GroupOf(r) = g
    <3> TAKE g \in Masked(upstream)
    <3>1. 1 \in 1 .. PerGroup /\ g \in Masked(Group)
      BY ConstantFacts, NameFacts DEF TypeOK
    <3> DEFINE r == <<g[1], mask, 1>>
    <3>2. r \in Proper /\ GroupOf(r) = g
      BY <3>1, NameFacts
    <3> HIDE DEF r
    <3> QED
      BY <1>2, <3>2 DEF listed, ResourcesOf, Proper
  <2>2. \A r \in listed : GroupOf(r) \in Masked(upstream)
    BY <1>2 DEF listed, ResourcesOf
  <2> QED
    BY <1>16, <2>1, <2>2 DEF heldGroups
<1>18. Whole'
  <2>1. ResourcesOf(heldGroups') = held'
    BY <1>2, <1>16, <1>17 DEF listed
  <2> QED
    BY <1>1, <1>4, <1>16, <1>17, <2>1 DEF Whole
<1>19. \A k \in Job :
         \/ jobs'[k].op = "none" /\ jobs'[k].groups = {}
         \/ /\ jobs'[k].op = jobs[k].op /\ jobs'[k].groups = jobs[k].groups
            /\ jobs[k].op \in {"ReSync", "Fetched"} => ~jobs'[k].ok
  <2> TAKE k \in Job
  <2>1. jobs[k] \in JobType
    BY DEF TypeOK
  <2>2. CASE k = j
    BY <1>1, <2>2 DEF reSyncDone, NoJob
  <2>3. CASE k # j /\ jobs[k].op \in {"ReSync", "Fetched"}
    <3>1. jobs'[k] = [jobs[k] EXCEPT !.ok = FALSE]
      BY <1>1, <2>3 DEF reSyncDone
    <3> QED
      BY <2>1, <3>1 DEF JobType
  <2>4. CASE k # j /\ jobs[k].op \notin {"ReSync", "Fetched"}
    <3>1. jobs'[k] = jobs[k]
      BY <1>1, <2>4 DEF reSyncDone
    <3> QED
      BY <2>4, <3>1
  <2> QED
    BY <2>2, <2>3, <2>4
<1>20. \A k \in Job : ~isPending(k)' /\ ~holding(k)' /\ ~isCurrent(k)'
  BY <1>19 DEF isPending, holding, isCurrent
<1>21. GroupInv' /\ JobInv'
  BY <1>19, <1>20 DEF GroupInv, JobInv, StockInv
<1> QED
  BY <1>1, <1>10, <1>15, <1>17, <1>18, <1>20, <1>21 DEF StockInv

\* The pool is rebuilt from the annotations of the running pods.
LEMMA PutStock ==
  ASSUME TypeOK, StockInv, DownInv, PodInv, PutPool
  PROVE  /\ StockInv' /\ heldGroups' = Masked(upstream)
         /\ \A p \in initPods : isAnnotated(p) /\ GroupOf(annotation[p]) \in Masked(upstream) =>
              usedResources'[p] = annotation[p]
<1> DEFINE present == ResourcesOf(Masked(upstream))
           used(p) == IF p \in initPods /\ annotation[p] \in present THEN annotation[p] ELSE NoResource
<1>1. /\ pool = "listed" /\ usedResources' = [p \in Pod |-> used(p)]
      /\ warmResources' = [r \in Resource |-> IF r \in present \ {used(p) : p \in Pod} THEN 1 ELSE 0]
      /\ UNCHANGED <<coolDownQueue, upstream, jobs, reSyncRequired>>
  BY DEF PutPool
<1>2. held = {} /\ ~reSyncRequired /\ \A j \in Job : jobs[j].op = "none" /\ jobs[j].groups = {}
  BY <1>1 DEF DownInv, StockInv, JobInv
<1>3. DOMAIN coolDownQueue = {} /\ coolingSet' = {}
  BY <1>1, <1>2 DEF held, coolingSet
<1>4. present \subseteq Proper /\ present \subseteq Resource /\ NoResource \notin present
  <2>1. Masked(upstream) \subseteq Masked(Group)
    BY NameFacts DEF TypeOK
  <2> QED
    BY <2>1, GroupSize, NoResourceAssumption DEF ResourcesOf
<1>5. \A p \in Pod : used(p) # NoResource => p \in restored /\ isAnnotated(p) /\ used(p) = annotation[p] /\ used(p) \in present
  BY <1>4 DEF restored, isAnnotated
<1>6. \A p, q \in Pod : used(p) # NoResource /\ used(p) = used(q) => p = q
  <2> SUFFICES ASSUME NEW p \in Pod, NEW q \in Pod, used(p) # NoResource, used(p) = used(q) PROVE p = q
    OBVIOUS
  <2>1. p \in restored /\ isAnnotated(p) /\ q \in restored /\ annotation[q] = annotation[p]
    BY <1>5
  <2> HIDE DEF used
  <2> QED
    BY <1>1, <2>1 DEF PodInv
<1> DEFINE U == {used(p) : p \in Pod} \ {NoResource}
<1>7. Used' = {p \in Pod : used(p) # NoResource} /\ usedSet' = U
  <2> HIDE DEF used
  <2>1. Used' = {p \in Pod : used(p) # NoResource} /\ \A p \in Pod : usedResources'[p] = used(p)
    BY <1>1 DEF Used
  <2> QED
    BY <2>1 DEF usedSet
<1>8. U \subseteq present
  BY <1>5
<1> HIDE DEF used, present
<1>9. warmSet' = present \ U /\ \A r \in Resource : warmResources'[r] <= 1
  BY <1>1, <1>4 DEF warmSet
<1>10. Apart'
  <2>1. \A p, q \in Used' : usedResources'[p] = usedResources'[q] => p = q
    BY <1>1, <1>6, <1>7
  <2>2. DOMAIN coolDownQueue' = {}
    BY <1>1, <1>3
  <2>3. usedSet' \cap warmSet' = {}
    BY <1>7, <1>9
  <2> HIDE DEF U
  <2> QED
    BY <1>3, <1>9, <2>1, <2>2, <2>3 DEF Apart
<1>11. held' = present
  <2> HIDE DEF U
  <2> QED
    BY <1>3, <1>7, <1>8, <1>9 DEF held
<1>12. heldGroups' = Masked(upstream)
  <2>1. \A g \in Masked(upstream) : \E r \in present : GroupOf(r) = g
    <3> TAKE g \in Masked(upstream)
    <3>1. 1 \in 1 .. PerGroup /\ g \in Masked(Group)
      BY ConstantFacts, NameFacts DEF TypeOK
    <3> DEFINE r == <<g[1], mask, 1>>
    <3>2. r \in Proper /\ GroupOf(r) = g
      BY <3>1, NameFacts
    <3> HIDE DEF r
    <3> QED
      BY <3>2 DEF present, ResourcesOf, Proper
  <2>2. \A r \in present : GroupOf(r) \in Masked(upstream)
    BY DEF present, ResourcesOf
  <2> QED
    BY <1>11, <2>1, <2>2 DEF heldGroups
<1>13. Whole'
  <2>1. ResourcesOf(heldGroups') = held'
    BY <1>11, <1>12 DEF present
  <2> QED
    BY <1>1, <1>4, <1>11, <1>12, <2>1 DEF Whole
<1>14. GroupInv' /\ JobInv'
  BY <1>1, <1>2 DEF GroupInv, JobInv, isPending, holding, isCurrent
<1>15. \A p \in initPods : isAnnotated(p) /\ GroupOf(annotation[p]) \in Masked(upstream) => usedResources'[p] = annotation[p]
  <2> SUFFICES ASSUME NEW p \in initPods, isAnnotated(p), GroupOf(annotation[p]) \in Masked(upstream)
               PROVE  usedResources'[p] = annotation[p]
    OBVIOUS
  <2>1. p \in Pod /\ annotation[p] \in Resource
    BY DEF TypeOK, isAnnotated
  <2>2. annotation[p] \in present
    BY <2>1 DEF present, ResourcesOf
  <2> QED
    BY <1>1, <2>1, <2>2 DEF used
<1> QED
  BY <1>10, <1>12, <1>13, <1>14, <1>15 DEF StockInv

\* An empty pool without jobs.
LEMMA EmptyStock ==
  ASSUME usedResources = [p \in Pod |-> NoResource], warmResources = NoneWarm, coolDownQueue = <<>>,
         jobs = [j \in Job |-> NoJob]
  PROVE  StockInv /\ held = {} /\ heldGroups = {} /\ \A j \in Job : jobs[j].op = "none"
<1>1. Used = {} /\ usedSet = {} /\ warmSet = {} /\ coolingSet = {} /\ DOMAIN coolDownQueue = {}
  BY DEF Used, usedSet, warmSet, coolingSet, NoneWarm
<1>2. held = {} /\ heldGroups = {} /\ ResourcesOf(heldGroups) = {}
  BY <1>1 DEF held, heldGroups, ResourcesOf
<1>3. \A j \in Job : jobs[j].op = "none" /\ jobs[j].groups = {}
  BY DEF NoJob
<1>4. Apart /\ Whole
  BY <1>1, <1>2 DEF Apart, Whole, NoneWarm
<1>5. GroupInv /\ JobInv
  BY <1>3 DEF GroupInv, JobInv, holding, isPending, isCurrent
<1> QED
  BY <1>2, <1>3, <1>4, <1>5 DEF StockInv

-----------------------------------------------------------------------------
(***************************************************************************)
(* The counters stay exact, and the pool within its capacity.              *)
(***************************************************************************)

\* Whole groups are the multiples of PerGroup that are not negative.
LEMMA WholeFacts ==
  /\ isWhole(0)
  /\ \A n \in Int : isWhole(n) => n >= 0 /\ \E x \in Int : n = x * PerGroup
  /\ \A x \in Int : x * PerGroup >= 0 => isWhole(x * PerGroup)
<1>1. PerGroup \in Nat \ {0}
  BY ConstantFacts
<1>2. isWhole(0)
  <2>1. 0 \in 0 .. 0 /\ 0 = 0 * PerGroup
    BY <1>1
  <2> QED
    BY <2>1 DEF isWhole
<1>3. ASSUME NEW n \in Int, isWhole(n) PROVE n >= 0 /\ \E x \in Int : n = x * PerGroup
  BY <1>3 DEF isWhole
<1>4. ASSUME NEW x \in Int, x * PerGroup >= 0 PROVE isWhole(x * PerGroup)
  <2>1. x >= 0
    <3>1. CASE x < 0
      <4>1. x + 1 \in Int /\ x + 1 <= 0
        BY <3>1
      <4>2. (x + 1) * PerGroup <= 0 * PerGroup /\ (x + 1) * PerGroup = x * PerGroup + 1 * PerGroup
        BY <1>1, <4>1, Multiples
      <4>3. x * PerGroup \in Int /\ 0 * PerGroup = 0 /\ 1 * PerGroup = PerGroup
        BY <1>1
      <4> QED
        BY <1>1, <1>4, <4>2, <4>3
    <3> QED
      BY <3>1
  <2>2. x \in 0 .. x * PerGroup
    <3>1. x <= x * PerGroup /\ x * PerGroup \in Int
      BY <1>1, <2>1, Multiples
    <3> QED
      BY <2>1, <3>1
  <2> QED
    BY <2>2 DEF isWhole
<1> QED
  BY <1>2, <1>3, <1>4

nonePending == \A j \in Job : ~isPending(j)
noneDue == pendingOf(createOps) = 0 /\ pendingOf(deleteOps) = 0

\* Without pending jobs there is nothing to settle.
LEMMA ZeroPending == nonePending => noneDue
<1> SUFFICES ASSUME \A j \in Job : ~isPending(j) PROVE pendingOf(createOps) = 0 /\ pendingOf(deleteOps) = 0
  BY DEF nonePending, noneDue
<1>1. {i \in Job : jobs[i].op \in createOps} = {} /\ {i \in Job : jobs[i].op \in deleteOps} = {}
  BY DEF isPending, holding, createOps, deleteOps
<1>2. UNION {{j} \X (1 .. jobs[j].count * PerGroup) : j \in {}} = {}
  OBVIOUS
<1> QED
  BY <1>1, <1>2, FS_EmptySet DEF pendingOf

\* TotalFacts as one formula, to be used of the next state.
LEMMA TotalNow ==
  TypeOK /\ StockInv =>
    /\ Cardinality(heldGroups) \in Nat
    /\ totalCreatedResources = Cardinality(heldGroups) * PerGroup + pendingCreate + pendingDelete
  BY TotalFacts DEF StockInv

\* What has to be shown of the next state's counters.
LEMMA CountStep ==
  ASSUME TypeOK', StockInv',
         pendingCreate' = pendingOf(createOps)', pendingDelete' = pendingOf(deleteOps)',
         isWhole(pendingCreate'), isWhole(pendingDelete'),
         Cardinality(heldGroups') * PerGroup + pendingCreate' + pendingDelete' <= capacity,
         Cardinality(upstream') * PerGroup <= capacity
  PROVE  CountInv'
<1>1. totalCreatedResources' = Cardinality(heldGroups') * PerGroup + pendingCreate' + pendingDelete'
  <2>1. /\ (Cardinality(heldGroups) \in Nat)'
        /\ (totalCreatedResources = Cardinality(heldGroups) * PerGroup + pendingCreate + pendingDelete)'
    BY TotalNow, PTL
  <2> QED
    BY <2>1
<1>2. Accounted'
  BY <1>1 DEF Accounted, createOps, deleteOps
<1> QED
  BY <1>2 DEF CountInv, isWhole

\* No job changes.
LEMMA CountSame ==
  ASSUME TypeOK, TypeOK', StockInv, StockInv', CountInv, heldGroups' = heldGroups,
         UNCHANGED <<jobs, pendingCreate, pendingDelete, upstream>>
  PROVE  CountInv'
<1>1. pendingOf(createOps)' = pendingOf(createOps) /\ pendingOf(deleteOps)' = pendingOf(deleteOps)
  BY DEF pendingOf
<1>2. totalCreatedResources = Cardinality(heldGroups) * PerGroup + pendingCreate + pendingDelete
  BY TotalNow
<1> QED
  BY <1>1, <1>2, CountStep DEF CountInv, Accounted, createOps, deleteOps

\* One job changes, and a counter by as much.
LEMMA CountOne ==
  ASSUME TypeOK, TypeOK', StockInv, StockInv', CountInv, NEW j \in Job, \A k \in Job \ {j} : jobs'[k] = jobs[k],
         NEW a \in Int, NEW b \in Int,
         due(createOps)'[j] = due(createOps)[j] + a * PerGroup, pendingCreate' = pendingCreate + a * PerGroup,
         due(deleteOps)'[j] = due(deleteOps)[j] + b * PerGroup, pendingDelete' = pendingDelete + b * PerGroup,
         Cardinality(heldGroups') * PerGroup + pendingCreate' + pendingDelete' <= capacity,
         Cardinality(upstream') * PerGroup <= capacity
  PROVE  CountInv'
<1>1. PerGroup \in Nat \ {0} /\ a * PerGroup \in Int /\ b * PerGroup \in Int
  BY ConstantFacts
<1>2. pendingCreate = pendingOf(createOps) /\ pendingDelete = pendingOf(deleteOps)
  BY DEF CountInv, Accounted, createOps, deleteOps
<1>3. pendingCreate' = pendingOf(createOps)' /\ pendingCreate' \in Nat
  <2>1. /\ pendingOf(createOps)' = pendingOf(createOps) - due(createOps)[j] + due(createOps)'[j]
        /\ pendingOf(createOps) \in Nat /\ pendingOf(createOps)' \in Nat
        /\ due(createOps)[j] \in Nat /\ due(createOps)'[j] \in Nat
    BY PendingChange DEF StockInv
  <2> QED
    BY <1>1, <1>2, <2>1
<1>4. pendingDelete' = pendingOf(deleteOps)' /\ pendingDelete' \in Nat
  <2>1. /\ pendingOf(deleteOps)' = pendingOf(deleteOps) - due(deleteOps)[j] + due(deleteOps)'[j]
        /\ pendingOf(deleteOps) \in Nat /\ pendingOf(deleteOps)' \in Nat
        /\ due(deleteOps)[j] \in Nat /\ due(deleteOps)'[j] \in Nat
    BY PendingChange DEF StockInv
  <2> QED
    BY <1>1, <1>2, <2>1
<1>5. ASSUME NEW n \in Int, NEW m \in Nat, isWhole(n), NEW x \in Int, m = n + x * PerGroup PROVE isWhole(m)
  <2>1. PICK y \in Int : n = y * PerGroup
    BY <1>5, WholeFacts
  <2>2. m = (y + x) * PerGroup /\ y + x \in Int
    BY <1>1, <1>5, <2>1, Multiples
  <2> QED
    BY <2>2, WholeFacts
<1>6. isWhole(pendingCreate') /\ isWhole(pendingDelete')
  BY <1>3, <1>4, <1>5 DEF CountInv, TypeOK
<1> QED
  BY <1>3, <1>4, <1>6, CountStep

\* What a job has due.
LEMMA DueOf ==
  ASSUME NEW j \in Job
  PROVE  /\ jobs[j].op \in createOps => due(createOps)[j] = jobs[j].count * PerGroup
         /\ jobs[j].op \notin createOps => due(createOps)[j] = 0
         /\ jobs[j].op \in deleteOps => due(deleteOps)[j] = jobs[j].count * PerGroup
         /\ jobs[j].op \notin deleteOps => due(deleteOps)[j] = 0
         /\ jobs'[j].op \in createOps => due(createOps)'[j] = jobs'[j].count * PerGroup
         /\ jobs'[j].op \notin createOps => due(createOps)'[j] = 0
         /\ jobs'[j].op \in deleteOps => due(deleteOps)'[j] = jobs'[j].count * PerGroup
         /\ jobs'[j].op \notin deleteOps => due(deleteOps)'[j] = 0
  BY DEF due, dueIn

\* A re-sync job is submitted only when nothing is pending, and has nothing due.
LEMMA RequestReSyncCount ==
  ASSUME TypeOK, TypeOK', StockInv, CountInv, RequestReSync
  PROVE  StockInv' /\ CountInv' /\ heldGroups' = heldGroups
<1> DEFINE job == [NoJob EXCEPT !.op = "ReSync"]
<1>1. /\ job \in JobType /\ job.op = "ReSync" /\ job.groups = {}
  BY NoJobType DEF NoJob
<1>2. /\ reSyncRequired /\ pendingCreate = 0 /\ pendingDelete = 0
      /\ UNCHANGED <<usedResources, warmResources, coolDownQueue, upstream, reSyncRequired, pendingCreate, pendingDelete>>
  BY DEF RequestReSync, poolVars
<1>3. PICK j \in Job : jobs[j] = NoJob /\ jobs' = [jobs EXCEPT ![j] = job]
  BY DEF RequestReSync, submit
<1>4. \A k \in Job : ~isPending(k)
  BY <1>2, NonePending DEF StockInv, CountInv
<1> HIDE DEF job
<1>5. StockInv' /\ heldGroups' = heldGroups
  BY <1>1, <1>2, <1>3, <1>4, SubmitStock
<1>6. jobs'[j].op = "ReSync" /\ \A k \in Job \ {j} : jobs'[k] = jobs[k]
  BY <1>1, <1>3 DEF TypeOK
<1>7. nonePending'
  BY <1>4, <1>6 DEF nonePending, isPending, holding
<1>8. noneDue'
  BY <1>7, ZeroPending, PTL
<1>9. totalCreatedResources = Cardinality(heldGroups) * PerGroup + pendingCreate + pendingDelete
  BY TotalNow
<1> QED
  BY <1>2, <1>5, <1>8, <1>9, CountStep, WholeFacts DEF CountInv, Accounted, noneDue

\* A create job is counted with what it was submitted for.
LEMMA RequestCreateCount ==
  ASSUME TypeOK, TypeOK', StockInv, CountInv, RequestCreate
  PROVE  StockInv' /\ CountInv' /\ heldGroups' = heldGroups
<1> DEFINE n == atMost(deviation, canCreateUpto)
           c == n \div PerGroup
           job == [NoJob EXCEPT !.op = "Create", !.count = c]
<1>0. PerGroup \in Nat \ {0}
  BY ConstantFacts
<1>1. n \in Nat /\ n <= canCreateUpto /\ c \in Nat \ {0} /\ c * PerGroup = n
  BY CreateAmount DEF RequestCreate
<1>2. /\ ~reSyncRequired /\ pendingCreate' = pendingCreate + n
      /\ UNCHANGED <<usedResources, warmResources, coolDownQueue, upstream, reSyncRequired, pendingDelete>>
  BY DEF RequestCreate, mayGrowOrShrink
<1>3. PICK j \in Job : jobs[j] = NoJob /\ jobs' = [jobs EXCEPT ![j] = job]
  BY DEF RequestCreate, submit
<1> HIDE DEF n, c
<1>4. job \in JobType /\ job.op = "Create" /\ job.count = c /\ job.groups = {} /\ job.count > 0
  <2>1. c \in Int /\ c > 0
    BY <1>1
  <2>2. job \in JobType
    BY <2>1, NoJobType
  <2>3. job.op = "Create" /\ job.count = c /\ job.groups = {}
    BY DEF NoJob
  <2> HIDE DEF job
  <2> QED
    BY <2>1, <2>2, <2>3
<1> HIDE DEF job
<1>5. StockInv' /\ heldGroups' = heldGroups
  BY <1>1, <1>2, <1>3, <1>4, SubmitStock
<1>6. jobs'[j] = job /\ \A k \in Job \ {j} : jobs'[k] = jobs[k]
  BY <1>3 DEF TypeOK
<1>7. due(createOps)[j] = 0 /\ due(createOps)'[j] = c * PerGroup /\ due(deleteOps)[j] = 0 /\ due(deleteOps)'[j] = 0
  <2>1. jobs[j].op = "none" /\ jobs'[j].op = "Create" /\ jobs'[j].count = c
    BY <1>3, <1>4, <1>6 DEF NoJob
  <2> QED
    BY <2>1, DueOf DEF createOps, deleteOps
<1>8. Cardinality(heldGroups') * PerGroup + pendingCreate' + pendingDelete' <= capacity
  <2>1. /\ Cardinality(heldGroups) \in Nat
        /\ totalCreatedResources = Cardinality(heldGroups) * PerGroup + pendingCreate + pendingDelete
    BY TotalNow
  <2>2. Cardinality(heldGroups) * PerGroup \in Int /\ pendingCreate \in Int /\ pendingDelete \in Int /\ capacity \in Int
    BY <1>0, <2>1, PoolAssumption DEF TypeOK
  <2> QED
    BY <1>1, <1>2, <1>5, <2>1, <2>2 DEF canCreateUpto
<1>9. c \in Int /\ 0 \in Int /\ 0 * PerGroup = 0 /\ pendingDelete' = pendingDelete + 0 /\ c * PerGroup \in Int
  BY <1>0, <1>1, <1>2 DEF TypeOK
<1>10. due(createOps)'[j] = due(createOps)[j] + c * PerGroup /\ due(deleteOps)'[j] = due(deleteOps)[j] + 0 * PerGroup
  BY <1>7, <1>9
<1>11. pendingCreate' = pendingCreate + c * PerGroup /\ pendingDelete' = pendingDelete + 0 * PerGroup
  BY <1>1, <1>2, <1>9
<1>12. Cardinality(upstream') * PerGroup <= capacity
  BY <1>2 DEF CountInv
<1> QED
  BY <1>5, <1>6, <1>8, <1>9, <1>10, <1>11, <1>12, CountOne

\* A delete job is counted with the groups it takes from the pool.
LEMMA RequestDeleteCount ==
  ASSUME TypeOK, TypeOK', StockInv, CountInv, RequestDelete
  PROVE  StockInv' /\ CountInv'
<1>0. PerGroup \in Nat \ {0}
  BY ConstantFacts
<1>1. PICK j \in Job, gs \in SUBSET heldGroups :
        /\ StockInv' /\ heldGroups' = heldGroups \ gs
        /\ jobs[j] = NoJob /\ \A k \in Job \ {j} : jobs'[k] = jobs[k]
        /\ jobs'[j].op = "Deleted" /\ jobs'[j].count = Cardinality(gs)
        /\ pendingDelete' = pendingDelete + Cardinality(gs) * PerGroup
  BY DeleteStock
<1> DEFINE c == Cardinality(gs)
           h == Cardinality(heldGroups)
<1>2. c \in Nat /\ h \in Nat /\ Cardinality(heldGroups') = h - c
  <2>1. IsFiniteSet(heldGroups) /\ h \in Nat
    BY TotalFacts DEF StockInv
  <2>2. IsFiniteSet(gs) /\ c \in Nat
    BY <2>1, FS_Subset, FS_CardinalityType
  <2>3. Cardinality(heldGroups \ gs) = h - Cardinality(heldGroups \cap gs) /\ heldGroups \cap gs = gs
    BY <2>1, FS_Difference
  <2> QED
    BY <1>1, <2>1, <2>2, <2>3
<1>3. UNCHANGED <<pendingCreate, upstream>>
  BY DEF RequestDelete
<1>4. due(createOps)[j] = 0 /\ due(createOps)'[j] = 0 /\ due(deleteOps)[j] = 0 /\ due(deleteOps)'[j] = c * PerGroup
  <2>1. jobs[j].op = "none" /\ jobs'[j].op = "Deleted" /\ jobs'[j].count = c
    BY <1>1 DEF NoJob
  <2> HIDE DEF c
  <2> QED
    BY <2>1, DueOf DEF createOps, deleteOps
<1>5. totalCreatedResources = h * PerGroup + pendingCreate + pendingDelete /\ totalCreatedResources <= capacity
  BY TotalNow DEF CountInv, Accounted
<1> HIDE DEF c, h
<1>6. Cardinality(heldGroups') * PerGroup = h * PerGroup - c * PerGroup /\ h * PerGroup \in Int /\ c * PerGroup \in Int
  BY <1>0, <1>2, Multiples
<1>7. pendingCreate \in Int /\ pendingDelete \in Int /\ capacity \in Int /\ pendingDelete' = pendingDelete + c * PerGroup
  BY <1>1, PoolAssumption DEF TypeOK, c
<1>8. Cardinality(heldGroups') * PerGroup + pendingCreate' + pendingDelete' <= capacity
  BY <1>3, <1>5, <1>6, <1>7
<1>9. c \in Int /\ 0 \in Int /\ 0 * PerGroup = 0
  BY <1>0, <1>2
<1>10. due(createOps)'[j] = due(createOps)[j] + 0 * PerGroup /\ due(deleteOps)'[j] = due(deleteOps)[j] + c * PerGroup
  BY <1>4, <1>6, <1>9
<1>11. pendingCreate' = pendingCreate + 0 * PerGroup /\ pendingDelete' = pendingDelete + c * PerGroup
  BY <1>3, <1>7, <1>9
<1>12. Cardinality(upstream') * PerGroup <= capacity
  BY <1>3 DEF CountInv
<1> QED
  BY <1>1, <1>8, <1>9, <1>10, <1>11, <1>12, CountOne

\* EC2's answer to a create job leaves the counters alone.
LEMMA CreateCount ==
  ASSUME TypeOK, TypeOK', StockInv, CountInv, NEW j \in Job, CreateIPV4Resource(j)
  PROVE  StockInv' /\ CountInv' /\ heldGroups' = heldGroups
<1>0. PerGroup \in Nat \ {0} /\ 0 \in Int /\ 0 * PerGroup = 0
  BY ConstantFacts
<1>1. /\ StockInv' /\ heldGroups' = heldGroups
      /\ jobs[j].op = "Create" /\ jobs'[j].op = "Created" /\ jobs'[j].count = jobs[j].count
      /\ \A k \in Job \ {j} : jobs'[k] = jobs[k]
      /\ Cardinality(upstream') * PerGroup <= capacity
  BY CreateStock
<1>2. UNCHANGED <<pendingCreate, pendingDelete>>
  BY DEF CreateIPV4Resource, poolVars
<1>3. due(createOps)'[j] = due(createOps)[j] /\ due(deleteOps)'[j] = due(deleteOps)[j]
  BY <1>1, DueOf DEF createOps, deleteOps
<1>4. due(createOps)[j] \in Int /\ due(deleteOps)[j] \in Int /\ pendingCreate \in Int /\ pendingDelete \in Int
  BY DueType DEF StockInv, TypeOK
<1>5. due(createOps)'[j] = due(createOps)[j] + 0 * PerGroup /\ due(deleteOps)'[j] = due(deleteOps)[j] + 0 * PerGroup
  BY <1>0, <1>3, <1>4
<1>6. pendingCreate' = pendingCreate + 0 * PerGroup /\ pendingDelete' = pendingDelete + 0 * PerGroup
  BY <1>0, <1>2, <1>4
<1>7. Cardinality(heldGroups') * PerGroup + pendingCreate' + pendingDelete' <= capacity
  BY <1>1, <1>2, TotalNow DEF CountInv, Accounted
<1> QED
  BY <1>0, <1>1, <1>5, <1>6, <1>7, CountOne

\* EC2's answer to a delete job leaves the counters alone.
LEMMA UnassignCount ==
  ASSUME Contract, TypeOK, TypeOK', StockInv, CountInv, NEW j \in Job, DeleteIPV4Resource(j)
  PROVE  StockInv' /\ CountInv' /\ heldGroups' = heldGroups
<1>0. PerGroup \in Nat \ {0} /\ 0 \in Int /\ 0 * PerGroup = 0
  BY ConstantFacts
<1>1. /\ StockInv' /\ heldGroups' = heldGroups
      /\ jobs[j].op = "Deleted" /\ jobs'[j].op = "Unassigned" /\ jobs'[j].count = jobs[j].count
      /\ \A k \in Job \ {j} : jobs'[k] = jobs[k]
      /\ upstream' \subseteq upstream
  BY UnassignStock
<1>2. UNCHANGED <<pendingCreate, pendingDelete>>
  BY DEF DeleteIPV4Resource, poolVars
<1>3. due(createOps)'[j] = due(createOps)[j] /\ due(deleteOps)'[j] = due(deleteOps)[j]
  BY <1>1, DueOf DEF createOps, deleteOps
<1>4. due(createOps)[j] \in Int /\ due(deleteOps)[j] \in Int /\ pendingCreate \in Int /\ pendingDelete \in Int
  BY DueType DEF StockInv, TypeOK
<1>5. due(createOps)'[j] = due(createOps)[j] + 0 * PerGroup /\ due(deleteOps)'[j] = due(deleteOps)[j] + 0 * PerGroup
  BY <1>0, <1>3, <1>4
<1>6. pendingCreate' = pendingCreate + 0 * PerGroup /\ pendingDelete' = pendingDelete + 0 * PerGroup
  BY <1>0, <1>2, <1>4
<1>7. Cardinality(heldGroups') * PerGroup + pendingCreate' + pendingDelete' <= capacity
  BY <1>1, <1>2, TotalNow DEF CountInv, Accounted
<1>8. Cardinality(upstream') * PerGroup <= capacity
  <2>1. /\ Cardinality(upstream') <= Cardinality(upstream)
        /\ Cardinality(upstream') \in Nat /\ Cardinality(upstream) \in Nat
    <3>1. IsFiniteSet(upstream)
      BY MaskedSize DEF TypeOK
    <3> QED
      BY <1>1, <3>1, FS_Subset, FS_CardinalityType
  <2>2. Cardinality(upstream') * PerGroup <= Cardinality(upstream) * PerGroup
    BY <1>0, <2>1, Multiples
  <2>3. Cardinality(upstream') * PerGroup \in Int /\ Cardinality(upstream) * PerGroup \in Int /\ capacity \in Int
    BY <1>0, <2>1, PoolAssumption
  <2> QED
    BY <2>2, <2>3 DEF CountInv
<1> QED
  BY <1>0, <1>1, <1>5, <1>6, <1>7, <1>8, CountOne

\* A counter is settled with what the job was submitted for, which is at least what
\* it returns.
LEMMA UpdateCount ==
  ASSUME TypeOK, TypeOK', StockInv, CountInv, NEW j \in Job, UpdatePool(j)
  PROVE  StockInv' /\ CountInv'
<1>0. PerGroup \in Nat \ {0} /\ 0 \in Int /\ 0 * PerGroup = 0
  BY ConstantFacts
<1> DEFINE gs == jobs[j].groups
           c == jobs[j].count
           h == Cardinality(heldGroups)
           g == Cardinality(gs)
<1>1. /\ StockInv' /\ heldGroups' = heldGroups \cup gs /\ gs \subseteq Masked(Group) \ heldGroups
      /\ isPending(j) /\ jobs' = [jobs EXCEPT ![j] = NoJob]
  BY UpdateStock
<1>2. c \in Int /\ g <= c
  BY <1>1 DEF StockInv, JobInv, TypeOK, JobType
<1>3. h \in Nat /\ g \in Nat /\ Cardinality(heldGroups') = h + g
  <2>1. IsFiniteSet(heldGroups) /\ h \in Nat
    BY TotalFacts DEF StockInv
  <2>2. IsFiniteSet(gs) /\ g \in Nat
    BY <1>1, GroupSize
  <2>3. heldGroups \cap gs = {}
    BY <1>1
  <2>4. Cardinality(heldGroups \cap gs) = 0
    BY <2>3, FS_EmptySet
  <2> HIDE DEF gs
  <2>5. Cardinality(heldGroups \cup gs) = h + g - Cardinality(heldGroups \cap gs)
    BY <2>1, <2>2, FS_Union
  <2> QED
    BY <1>1, <2>1, <2>2, <2>4, <2>5
<1>4. jobs'[j].op = "none" /\ \A k \in Job \ {j} : jobs'[k] = jobs[k]
  BY <1>1 DEF TypeOK, NoJob
<1>5. UNCHANGED upstream
  BY DEF UpdatePool
<1>6. totalCreatedResources = h * PerGroup + pendingCreate + pendingDelete /\ totalCreatedResources <= capacity
  BY TotalNow DEF CountInv, Accounted
<1> HIDE DEF gs, c, h, g
<1>7. /\ Cardinality(heldGroups') * PerGroup = h * PerGroup + g * PerGroup /\ g * PerGroup <= c * PerGroup
      /\ h * PerGroup \in Int /\ g * PerGroup \in Int /\ c * PerGroup \in Int
  BY <1>0, <1>2, <1>3, Multiples
<1>8. /\ -c \in Int /\ (-c) * PerGroup = -(c * PerGroup)
      /\ pendingCreate \in Int /\ pendingDelete \in Int /\ capacity \in Int
  BY <1>0, <1>2, PoolAssumption DEF TypeOK
<1>9. Cardinality(upstream') * PerGroup <= capacity
  BY <1>5 DEF CountInv
<1>10. CASE jobs[j].op = "Created"
  <2>1. pendingCreate' = pendingCreate - c * PerGroup /\ UNCHANGED pendingDelete
    BY <1>10 DEF UpdatePool, c
  <2>2. due(createOps)[j] = c * PerGroup /\ due(createOps)'[j] = 0 /\ due(deleteOps)[j] = 0 /\ due(deleteOps)'[j] = 0
    BY <1>4, <1>10, DueOf DEF createOps, deleteOps, c
  <2>3. Cardinality(heldGroups') * PerGroup + pendingCreate' + pendingDelete' <= capacity
    BY <1>6, <1>7, <1>8, <2>1
  <2>4. due(createOps)'[j] = due(createOps)[j] + (-c) * PerGroup /\ due(deleteOps)'[j] = due(deleteOps)[j] + 0 * PerGroup
    BY <1>0, <1>7, <1>8, <2>2
  <2>5. pendingCreate' = pendingCreate + (-c) * PerGroup /\ pendingDelete' = pendingDelete + 0 * PerGroup
    BY <1>0, <1>7, <1>8, <2>1
  <2> QED
    BY <1>0, <1>1, <1>4, <1>8, <1>9, <2>3, <2>4, <2>5, CountOne
<1>11. CASE jobs[j].op = "Unassigned"
  <2>1. pendingDelete' = pendingDelete - c * PerGroup /\ UNCHANGED pendingCreate
    BY <1>11 DEF UpdatePool, c
  <2>2. due(deleteOps)[j] = c * PerGroup /\ due(deleteOps)'[j] = 0 /\ due(createOps)[j] = 0 /\ due(createOps)'[j] = 0
    BY <1>4, <1>11, DueOf DEF createOps, deleteOps, c
  <2>3. Cardinality(heldGroups') * PerGroup + pendingCreate' + pendingDelete' <= capacity
    BY <1>6, <1>7, <1>8, <2>1
  <2>4. due(deleteOps)'[j] = due(deleteOps)[j] + (-c) * PerGroup /\ due(createOps)'[j] = due(createOps)[j] + 0 * PerGroup
    BY <1>0, <1>7, <1>8, <2>2
  <2>5. pendingDelete' = pendingDelete + (-c) * PerGroup /\ pendingCreate' = pendingCreate + 0 * PerGroup
    BY <1>0, <1>7, <1>8, <2>1
  <2> QED
    BY <1>0, <1>1, <1>4, <1>8, <1>9, <2>3, <2>4, <2>5, CountOne
<1> QED
  BY <1>10, <1>11 DEF UpdatePool

\* Nothing is pending, before and after.
LEMMA IdleCount ==
  ASSUME TypeOK, TypeOK', StockInv', CountInv,
         nonePending, nonePending',
         heldGroups' \subseteq Masked(upstream'), UNCHANGED <<pendingCreate, pendingDelete, upstream>>
  PROVE  CountInv'
<1>1. PerGroup \in Nat \ {0}
  BY ConstantFacts
<1>2. pendingCreate = 0 /\ pendingDelete = 0
  BY ZeroPending DEF CountInv, Accounted, createOps, deleteOps, noneDue
<1>3. noneDue'
  BY ZeroPending, PTL
<1>4. Cardinality(heldGroups') * PerGroup + pendingCreate' + pendingDelete' <= capacity
  <2>1. IsFiniteSet(Masked(upstream)) /\ Cardinality(Masked(upstream)) = Cardinality(upstream) /\ Cardinality(upstream) \in Nat
    BY MaskedSize DEF TypeOK
  <2>2. Cardinality(heldGroups') <= Cardinality(upstream) /\ Cardinality(heldGroups') \in Nat
    BY <2>1, FS_Subset, FS_CardinalityType
  <2>3. Cardinality(heldGroups') * PerGroup <= Cardinality(upstream) * PerGroup
    BY <1>1, <2>1, <2>2, Multiples
  <2>4. Cardinality(heldGroups') * PerGroup \in Int /\ Cardinality(upstream) * PerGroup \in Int /\ capacity \in Int
    BY <1>1, <2>1, <2>2, PoolAssumption
  <2> QED
    BY <1>2, <2>3, <2>4 DEF CountInv
<1>5. isWhole(pendingCreate') /\ isWhole(pendingDelete')
  BY <1>2, WholeFacts
<1> QED
  BY <1>2, <1>3, <1>4, <1>5, CountStep DEF CountInv, noneDue

-----------------------------------------------------------------------------
(***************************************************************************)
(* The pods, their handlers and the start of the pool.                     *)
(***************************************************************************)

\* A job changes that has nothing due, before and after.
LEMMA NotDueCount ==
  ASSUME TypeOK, TypeOK', StockInv, StockInv', CountInv, heldGroups' = heldGroups, NEW j \in Job,
         ~isPending(j), ~isPending(j)', \A k \in Job \ {j} : jobs'[k] = jobs[k],
         UNCHANGED <<pendingCreate, pendingDelete, upstream>>
  PROVE  CountInv'
<1>1. PerGroup \in Nat \ {0} /\ 0 * PerGroup = 0 /\ 0 \in Int
  BY ConstantFacts
<1>2. /\ due(createOps)[j] = 0 /\ due(createOps)'[j] = 0
      /\ due(deleteOps)[j] = 0 /\ due(deleteOps)'[j] = 0
  BY DueOf DEF isPending, holding, createOps, deleteOps
<1>3. totalCreatedResources = Cardinality(heldGroups) * PerGroup + pendingCreate + pendingDelete
  BY TotalNow
<1>4. /\ Cardinality(heldGroups') * PerGroup + pendingCreate' + pendingDelete' <= capacity
      /\ Cardinality(upstream') * PerGroup <= capacity
  BY <1>3 DEF CountInv, Accounted
<1> DEFINE none == 0
<1>5. /\ none \in Int /\ pendingCreate' = pendingCreate + none * PerGroup /\ pendingDelete' = pendingDelete + none * PerGroup
      /\ due(createOps)'[j] = due(createOps)[j] + none * PerGroup
      /\ due(deleteOps)'[j] = due(deleteOps)[j] + none * PerGroup
  BY <1>1, <1>2 DEF TypeOK
<1> HIDE DEF none
<1> QED
  BY <1>4, <1>5, CountOne

\* A listing is applied only if it holds, or from then on the pool is outdated.
LEMMA ListingHolds ==
  ASSUME TypeOK, StockInv, CountInv, NEW j \in Job, ReSync(j), reSyncRequired, ~outdated'
  PROVE  jobs[j].groups = Masked(upstream) /\ \A k \in Job : ~isPending(k)
<1>1. jobs[j].op = "Fetched" /\ (jobs[j].ok \/ listingHolds(j))
  BY DEF ReSync
<1>2. CASE jobs[j].ok
  BY <1>1, <1>2 DEF StockInv, JobInv, isCurrent
<1>3. CASE listingHolds(j)
  BY <1>3, NonePending DEF listingHolds, StockInv, CountInv
<1> QED
  BY <1>1, <1>2, <1>3

\* Resources that only move within the pool leave its size as it is.
LEMMA MoveCount ==
  ASSUME TypeOK, TypeOK', StockInv, CountInv, Apart', held' = held,
         UNCHANGED <<jobs, upstream, reSyncRequired, pendingCreate, pendingDelete>>
  PROVE  StockInv' /\ CountInv'
<1>1. StockInv' /\ heldGroups' = heldGroups
  BY MoveStock
<1> QED
  BY <1>1, CountSame

\* Steps outside the pool.
LEMMA SameCount ==
  ASSUME TypeOK, TypeOK', StockInv, CountInv, UNCHANGED <<poolVars, jobs, upstream>>
  PROVE  StockInv' /\ CountInv' /\ held' = held
<1>1. UNCHANGED <<usedResources, warmResources, coolDownQueue, reSyncRequired, pendingCreate, pendingDelete>>
  BY DEF poolVars
<1>2. Apart' /\ held' = held
  BY <1>1, SamePlaces DEF StockInv
<1> QED
  BY <1>1, <1>2, MoveCount

\* A step of a pool that is up and stays up, and that leaves the pods alone.
LEMMA UpFrame ==
  ASSUME DownInv, PodInv, pool = "up",
         UNCHANGED <<handlerVars, deleteEvents, podVars, usedResources, pool, initPods>>
  PROVE  DownInv' /\ PodInv'
<1>1. DownInv'
  BY DEF DownInv
<1>2. PodInv'
  BY DEF PodInv, handlerVars, podVars, isAnnotated
<1> QED
  BY <1>1, <1>2

\* A busy job or handler has a pool.
LEMMA BusyUp ==
  ASSUME DownInv
  PROVE  /\ \A j \in Job : jobs[j].op # "none" => pool = "up"
         /\ \A p \in Pod : handlerPc[p] # "none" => pool = "up"
  BY DEF DownInv

\* A new pod has neither an address nor a handler.
LEMMA ScheduledPod ==
  ASSUME TypeOK, TypeOK', PoolInv, NEW p \in Pod, PodScheduled(p)
  PROVE  PoolInv'
<1>1. /\ podPhase[p] = "absent" /\ podPhase' = [podPhase EXCEPT ![p] = "running"]
      /\ UNCHANGED <<poolVars, jobs, handlerPc, resID, deleteEvents, annotation, stoppedFor, upstream, pool, initPods>>
  BY DEF PodScheduled, handlerVars, initVars
<1>2. StockInv' /\ CountInv' /\ held' = held
  BY <1>1, SameCount DEF PoolInv
<1>3. DownInv'
  BY <1>1, <1>2 DEF PoolInv, DownInv, poolVars
<1>4. ~isAnnotated(p) /\ handlerPc[p] = "none" /\ stoppedFor[p] = NoTime /\ p \notin {e[1] : e \in deleteEvents}
  BY <1>1 DEF PoolInv, PodInv
<1>5. usedResources' = usedResources
  BY <1>1 DEF poolVars
<1>6. restored' = restored \cup {p} /\ \A q \in Pod : isAnnotated(q)' <=> isAnnotated(q)
  BY <1>1 DEF restored, isAnnotated, TypeOK
<1>7. PodInv'
  <2>1. \A q \in Pod : {annotation'[q], resID'[q]} \subseteq Proper \cup {NoResource}
    BY <1>1 DEF PoolInv, PodInv
  <2>2. \A q \in Pod : podPhase'[q] = "absent" => ~isAnnotated(q)' /\ handlerPc'[q] = "none"
    BY <1>1, <1>6 DEF PoolInv, PodInv, TypeOK
  <2>3. \A q \in Pod : stoppedFor'[q] = NoTime <=> podPhase'[q] \in {"absent", "running"}
    BY <1>1, <1>4 DEF PoolInv, PodInv, TypeOK
  <2>4. \A e \in deleteEvents' : podPhase'[e[1]] \in {"completed", "gone"}
    BY <1>1, <1>4 DEF PoolInv, PodInv, TypeOK, PodEvent
  <2>5. \A q \in Pod : handlerPc'[q] = "annotate" <=> resID'[q] # NoResource
    BY <1>1 DEF PoolInv, PodInv
  <2>6. \A q \in Pod : podPhase'[q] = "running" /\ handlerPc'[q] = "annotate" =>
          usedResources'[q] = resID'[q] /\ ~isAnnotated(q)'
    BY <1>1, <1>4, <1>5, <1>6 DEF PoolInv, PodInv, TypeOK
  <2>7. pool' = "up" => \A q \in Pod : podPhase'[q] = "running" /\ isAnnotated(q)' => usedResources'[q] = annotation'[q]
    BY <1>1, <1>4, <1>5, <1>6 DEF PoolInv, PodInv, TypeOK
  <2>8. pool' # "up" =>
          /\ \A q \in initPods' : podPhase'[q] # "absent"
          /\ \A q \in restored' : isAnnotated(q)' =>
               /\ GroupOf(annotation'[q]) \in Masked(upstream')
               /\ \A s \in restored' : annotation'[s] = annotation'[q] => s = q
    <3> SUFFICES ASSUME pool # "up"
                 PROVE  /\ \A q \in initPods : podPhase'[q] # "absent"
                        /\ \A q \in restored \cup {p} : isAnnotated(q)' =>
                             /\ GroupOf(annotation[q]) \in Masked(upstream)
                             /\ \A s \in restored \cup {p} : annotation[s] = annotation[q] => s = q
      BY <1>1, <1>6
    <3>1. \A q \in initPods : podPhase'[q] # "absent"
      BY <1>1 DEF PoolInv, PodInv, TypeOK
    <3>2. restored \subseteq Pod
      BY DEF restored, TypeOK
    <3> QED
      BY <1>4, <1>6, <3>1, <3>2 DEF PoolInv, PodInv, isAnnotated
  <2>9. pool' = "listed" => \A q \in Pod : podPhase'[q] = "running" /\ isAnnotated(q)' => q \in initPods'
    BY <1>1, <1>4, <1>6 DEF PoolInv, PodInv, TypeOK
  <2> QED
    BY <2>1, <2>2, <2>3, <2>4, <2>5, <2>6, <2>7, <2>8, <2>9 DEF PodInv
<1> QED
  BY <1>2, <1>3, <1>7 DEF PoolInv

\* A pod that stops keeps its address until it is freed.
LEMMA StoppedPod ==
  ASSUME TypeOK, TypeOK', PoolInv, NEW p \in Pod, NEW phase \in {"completed", "gone"}, PodStops(p, phase)
  PROVE  PoolInv'
<1>1. /\ podPhase[p] \in {"running", "completed"} /\ podPhase' = [podPhase EXCEPT ![p] = phase]
      /\ stoppedFor' = [stoppedFor EXCEPT ![p] = IF @ = NoTime THEN 0 ELSE @]
      /\ deleteEvents' = deleteEvents \cup {<<p, phase>>}
      /\ UNCHANGED <<poolVars, jobs, handlerPc, resID, annotation, upstream, pool, initPods>>
  BY DEF PodStops, handlerVars, initVars
<1>2. StockInv' /\ CountInv' /\ held' = held
  BY <1>1, SameCount DEF PoolInv
<1>3. DownInv'
  BY <1>1, <1>2 DEF PoolInv, DownInv, poolVars
<1>5. usedResources' = usedResources
  BY <1>1 DEF poolVars
<1>6. restored' \subseteq restored /\ \A q \in Pod : isAnnotated(q)' <=> isAnnotated(q)
  BY <1>1 DEF restored, isAnnotated, TypeOK
<1>7. PodInv'
  <2>1. \A q \in Pod : {annotation'[q], resID'[q]} \subseteq Proper \cup {NoResource}
    BY <1>1 DEF PoolInv, PodInv
  <2>2. \A q \in Pod : podPhase'[q] = "absent" => ~isAnnotated(q)' /\ handlerPc'[q] = "none"
    BY <1>1, <1>6 DEF PoolInv, PodInv, TypeOK
  <2>3. \A q \in Pod : stoppedFor'[q] = NoTime <=> podPhase'[q] \in {"absent", "running"}
    BY <1>1 DEF PoolInv, PodInv, TypeOK, NoTime
  <2>4. \A e \in deleteEvents' : podPhase'[e[1]] \in {"completed", "gone"}
    BY <1>1 DEF PoolInv, PodInv, TypeOK, PodEvent
  <2>5. \A q \in Pod : handlerPc'[q] = "annotate" <=> resID'[q] # NoResource
    BY <1>1 DEF PoolInv, PodInv
  <2>6. \A q \in Pod : podPhase'[q] = "running" /\ handlerPc'[q] = "annotate" =>
          usedResources'[q] = resID'[q] /\ ~isAnnotated(q)'
    BY <1>1, <1>5, <1>6 DEF PoolInv, PodInv, TypeOK
  <2>7. pool' = "up" => \A q \in Pod : podPhase'[q] = "running" /\ isAnnotated(q)' => usedResources'[q] = annotation'[q]
    BY <1>1, <1>5, <1>6 DEF PoolInv, PodInv, TypeOK
  <2>8. pool' # "up" =>
          /\ \A q \in initPods' : podPhase'[q] # "absent"
          /\ \A q \in restored' : isAnnotated(q)' =>
               /\ GroupOf(annotation'[q]) \in Masked(upstream')
               /\ \A s \in restored' : annotation'[s] = annotation'[q] => s = q
    <3>1. restored \subseteq Pod
      BY DEF restored, TypeOK
    <3>2. pool # "up" => \A q \in initPods : podPhase'[q] # "absent"
      BY <1>1 DEF PoolInv, PodInv, TypeOK
    <3> QED
      BY <1>1, <1>6, <3>1, <3>2 DEF PoolInv, PodInv
  <2>9. pool' = "listed" => \A q \in Pod : podPhase'[q] = "running" /\ isAnnotated(q)' => q \in initPods'
    BY <1>1, <1>6 DEF PoolInv, PodInv, TypeOK
  <2> QED
    BY <2>1, <2>2, <2>3, <2>4, <2>5, <2>6, <2>7, <2>8, <2>9 DEF PodInv
<1> QED
  BY <1>2, <1>3, <1>7 DEF PoolInv

\* What the steps of a handler have to show, while there is a pool.
HandledInv ==
  /\ \A p \in Pod : {annotation[p], resID[p]} \subseteq Proper \cup {NoResource}
  /\ \A p \in Pod : podPhase[p] = "absent" => ~isAnnotated(p) /\ handlerPc[p] = "none"
  /\ \A p \in Pod : handlerPc[p] = "annotate" <=> resID[p] # NoResource
  /\ \A p \in Pod : podPhase[p] = "running" /\ handlerPc[p] = "annotate" =>
       usedResources[p] = resID[p] /\ ~isAnnotated(p)
  /\ \A p \in Pod : podPhase[p] = "running" /\ isAnnotated(p) => usedResources[p] = annotation[p]

\* While there is a pool, that is all there is to show.
LEMMA HandledPods ==
  ASSUME DownInv, PodInv, pool = "up", UNCHANGED <<pool, initPods, podPhase, stoppedFor>>,
         deleteEvents' \subseteq deleteEvents
  PROVE  HandledInv /\ (HandledInv' => PodInv' /\ DownInv')
<1>1. HandledInv
  BY DEF PodInv, HandledInv
<1>2. ASSUME HandledInv' PROVE PodInv'
  BY <1>2 DEF PodInv, HandledInv
<1>3. DownInv'
  BY DEF DownInv
<1> QED
  BY <1>1, <1>2, <1>3

\* The steps of HandleCreate.
LEMMA HandlerPod ==
  ASSUME TypeOK, TypeOK', PoolInv, NEW p \in Pod, HandleCreate(p) \/ HandlerStep(p)
  PROVE  PoolInv'
<1>1. /\ pool = "up" /\ deleteEvents' \subseteq deleteEvents
      /\ UNCHANGED <<pool, initPods, podPhase, stoppedFor, jobs, upstream, reSyncRequired, pendingCreate, pendingDelete>>
  <2>1. CASE HandleCreate(p)
    BY <2>1 DEF HandleCreate, podVars, initVars, poolVars
  <2>2. CASE AssignResource(p)
    BY <2>2, BusyUp DEF AssignResource, podVars, initVars, poolVars, PoolInv
  <2>3. CASE AssignResourceFails(p)
    BY <2>3, BusyUp DEF AssignResourceFails, podVars, initVars, poolVars, PoolInv
  <2>4. CASE AnnotatePod(p)
    BY <2>4, BusyUp DEF AnnotatePod, podVars, initVars, poolVars, PoolInv
  <2>5. CASE AnnotatePodFails(p)
    BY <2>5, BusyUp DEF AnnotatePodFails, podVars, initVars, poolVars, PoolInv
  <2> QED
    BY <2>1, <2>2, <2>3, <2>4, <2>5 DEF HandlerStep
<1>2. HandledInv /\ (HandledInv' => PodInv' /\ DownInv')
  BY <1>1, HandledPods DEF PoolInv
<1>3. CASE HandleCreate(p)
  <2>1. UNCHANGED <<poolVars, jobs, upstream, resID, annotation>>
    BY <1>3 DEF HandleCreate, podVars
  <2>2. StockInv' /\ CountInv'
    BY <2>1, SameCount DEF PoolInv
  <2>3. handlerPc[p] = "none" /\ podPhase[p] = "running" /\ handlerPc' = [handlerPc EXCEPT ![p] = "assign"]
    BY <1>3 DEF HandleCreate
  <2>4. HandledInv'
    BY <1>1, <1>2, <2>1, <2>3 DEF HandledInv, TypeOK, poolVars, isAnnotated
  <2> QED
    BY <1>2, <2>2, <2>4 DEF PoolInv
<1>4. CASE AssignResource(p)
  <2>1. /\ Apart' /\ held' = held
        /\ resID'[p] \in held /\ usedResources'[p] = resID'[p] /\ resID'[p] # NoResource
        /\ \A q \in Pod \ {p} : usedResources'[q] = usedResources[q] /\ resID'[q] = resID[q]
    BY <1>4, AssignApart DEF PoolInv, StockInv
  <2>2. StockInv' /\ CountInv'
    BY <1>1, <2>1, MoveCount DEF PoolInv
  <2>3. /\ handlerPc[p] = "assign" /\ handlerPc' = [handlerPc EXCEPT ![p] = "annotate"]
        /\ usedResources[p] = NoResource /\ annotation' = annotation
    BY <1>4 DEF AssignResource, podVars
  <2>4. podPhase[p] # "absent" /\ (podPhase[p] = "running" => ~isAnnotated(p)) /\ resID'[p] \in Proper
    BY <1>2, <2>1, <2>3 DEF HandledInv, isAnnotated, PoolInv, StockInv, Whole
  <2>5. \A q \in Pod : isAnnotated(q)' <=> isAnnotated(q)
    BY <2>3 DEF isAnnotated
  <2>6. \A q \in Pod \ {p} : handlerPc'[q] = handlerPc[q]
    BY <2>3 DEF TypeOK
  <2>7. handlerPc'[p] = "annotate"
    BY <2>3 DEF TypeOK
  <2>8. HandledInv'
    BY <1>1, <1>2, <2>1, <2>3, <2>4, <2>5, <2>6, <2>7 DEF HandledInv
  <2> QED
    BY <1>2, <2>2, <2>8 DEF PoolInv
<1>5. CASE AssignResourceFails(p)
  <2>1. UNCHANGED <<poolVars, jobs, upstream, resID, annotation>>
    BY <1>5 DEF AssignResourceFails, podVars
  <2>2. StockInv' /\ CountInv'
    BY <2>1, SameCount DEF PoolInv
  <2>3. handlerPc[p] = "assign" /\ handlerPc' = [handlerPc EXCEPT ![p] = "none"]
    BY <1>5 DEF AssignResourceFails
  <2>4. HandledInv'
    BY <1>1, <1>2, <2>1, <2>3 DEF HandledInv, TypeOK, poolVars, isAnnotated
  <2> QED
    BY <1>2, <2>2, <2>4 DEF PoolInv
<1>6. CASE AnnotatePod(p)
  <2>1. /\ handlerPc[p] = "annotate" /\ podPhase[p] \in {"running", "completed"}
        /\ annotation' = [annotation EXCEPT ![p] = resID[p]]
        /\ handlerPc' = [handlerPc EXCEPT ![p] = "none"] /\ resID' = [resID EXCEPT ![p] = NoResource]
        /\ UNCHANGED <<poolVars, jobs, upstream>>
    BY <1>6 DEF AnnotatePod, handlerDone
  <2>2. StockInv' /\ CountInv'
    BY <2>1, SameCount DEF PoolInv
  <2>3. HandledInv'
    BY <1>1, <1>2, <2>1 DEF HandledInv, TypeOK, poolVars, isAnnotated
  <2> QED
    BY <1>2, <2>2, <2>3 DEF PoolInv
<1>7. CASE AnnotatePodFails(p)
  <2>1. /\ handlerPc[p] = "annotate" /\ annotation' = annotation
        /\ handlerPc' = [handlerPc EXCEPT ![p] = "none"] /\ resID' = [resID EXCEPT ![p] = NoResource]
    BY <1>7 DEF AnnotatePodFails, handlerDone, podVars
  <2>2. Apart' /\ held' = held /\ \A q \in Pod \ {p} : usedResources'[q] = usedResources[q]
    <3>1. CASE owns(p, resID[p]) /\ FreeResource(p, resID[p])
      BY <3>1, FreeApart DEF PoolInv, StockInv
    <3>2. CASE UNCHANGED <<usedResources, coolDownQueue, warmResources>>
      BY <3>2, SamePlaces DEF PoolInv, StockInv
    <3> QED
      BY <1>7, <3>1, <3>2 DEF AnnotatePodFails
  <2>3. StockInv' /\ CountInv'
    BY <1>1, <2>2, MoveCount DEF PoolInv
  <2>4. podPhase[p] # "absent" /\ (podPhase[p] = "running" => ~isAnnotated(p))
    BY <1>2, <2>1 DEF HandledInv
  <2>5. \A q \in Pod : isAnnotated(q)' <=> isAnnotated(q)
    BY <2>1 DEF isAnnotated
  <2>6. handlerPc'[p] = "none" /\ resID'[p] = NoResource /\ \A q \in Pod \ {p} : handlerPc'[q] = handlerPc[q] /\ resID'[q] = resID[q]
    BY <2>1 DEF TypeOK
  <2>7. HandledInv'
    BY <1>1, <1>2, <2>1, <2>2, <2>4, <2>5, <2>6 DEF HandledInv
  <2> QED
    BY <1>2, <2>3, <2>7 DEF PoolInv
<1> QED
  BY <1>3, <1>4, <1>5, <1>6, <1>7 DEF HandlerStep

\* HandleDelete frees what a stopped pod owns, and frees it once.
LEMMA DeletedPod ==
  ASSUME TypeOK, TypeOK', PoolInv, NEW p \in Pod, NEW phase \in {"completed", "gone"}, HandleDelete(p, phase)
  PROVE  PoolInv'
<1> DEFINE r == IF annotation[p] # NoResource THEN annotation[p] ELSE usedResources[p]
<1>1. /\ <<p, phase>> \in deleteEvents /\ deleteEvents' \subseteq deleteEvents
      /\ \/ pool = "up" /\ owns(p, r) /\ FreeResource(p, r)
         \/ UNCHANGED <<usedResources, coolDownQueue, warmResources>>
      /\ UNCHANGED <<pendingCreate, pendingDelete, reSyncRequired, jobs, handlerPc, resID, podPhase, annotation,
                     stoppedFor, upstream, pool, initPods>>
  BY DEF HandleDelete, handlerVars, podVars, initVars
<1>2. podPhase[p] \in {"completed", "gone"}
  BY <1>1 DEF PoolInv, PodInv
<1>3. CASE pool = "up" /\ owns(p, r) /\ FreeResource(p, r)
  <2>1. Apart' /\ held' = held /\ \A q \in Pod \ {p} : usedResources'[q] = usedResources[q]
    BY <1>3, FreeApart DEF PoolInv, StockInv
  <2>2. StockInv' /\ CountInv'
    BY <1>1, <2>1, MoveCount DEF PoolInv
  <2> HIDE DEF r
  <2>3. HandledInv /\ (HandledInv' => PodInv' /\ DownInv')
    BY <1>1, <1>3, HandledPods DEF PoolInv
  <2>4. \A q \in Pod : isAnnotated(q)' <=> isAnnotated(q)
    BY <1>1 DEF isAnnotated
  <2>5. HandledInv'
    BY <1>1, <1>2, <2>1, <2>3, <2>4 DEF HandledInv
  <2> QED
    BY <2>2, <2>3, <2>5 DEF PoolInv
<1>4. CASE UNCHANGED <<usedResources, coolDownQueue, warmResources>>
  <2>1. StockInv' /\ CountInv' /\ held' = held
    BY <1>1, <1>4, SameCount DEF PoolInv, poolVars
  <2>2. DownInv'
    BY <1>1, <2>1 DEF DownInv, PoolInv
  <2>3. PodInv'
    BY <1>1, <1>4 DEF PodInv, PoolInv, isAnnotated, restored
  <2> QED
    BY <2>1, <2>2, <2>3 DEF PoolInv
<1> QED
  BY <1>1, <1>3, <1>4

\* ReconcilePool preserves the invariant.
LEMMA ReconcileInv ==
  ASSUME Contract, TypeOK, TypeOK', PoolInv, ReconcilePool
  PROVE  PoolInv'
<1>1. CASE RequestReSync
  <2>1. pool = "up" /\ UNCHANGED <<handlerVars, deleteEvents, podVars, usedResources, initVars>>
    BY <1>1 DEF RequestReSync, poolVars
  <2> QED
    BY <1>1, <2>1, RequestReSyncCount, UpFrame DEF PoolInv, initVars
<1>2. CASE RequestCreate
  <2>1. pool = "up" /\ UNCHANGED <<handlerVars, deleteEvents, podVars, usedResources, initVars>>
    BY <1>2 DEF RequestCreate, mayGrowOrShrink
  <2> QED
    BY <1>2, <2>1, RequestCreateCount, UpFrame DEF PoolInv, initVars
<1>3. CASE RequestDelete
  <2>1. pool = "up" /\ UNCHANGED <<handlerVars, deleteEvents, podVars, usedResources, initVars>>
    BY <1>3 DEF RequestDelete, mayGrowOrShrink
  <2> QED
    BY <1>3, <2>1, RequestDeleteCount, UpFrame DEF PoolInv, initVars
<1> QED
  BY <1>1, <1>2, <1>3 DEF ReconcilePool

\* The steps of jobs preserve the invariant.
LEMMA JobStepInv ==
  ASSUME Contract, TypeOK, TypeOK', PoolInv, NEW j \in Job, JobStep(j), ~outdated'
  PROVE  PoolInv'
<1>1. CASE CreateIPV4Resource(j)
  <2>1. jobs[j].op # "none" /\ UNCHANGED <<handlerVars, deleteEvents, podVars, usedResources, initVars>>
    BY <1>1 DEF CreateIPV4Resource, poolVars
  <2>2. pool = "up"
    BY <2>1, BusyUp DEF PoolInv
  <2> QED
    BY <1>1, <2>1, <2>2, CreateCount, UpFrame DEF PoolInv, initVars
<1>2. CASE DeleteIPV4Resource(j)
  <2>1. jobs[j].op # "none" /\ UNCHANGED <<handlerVars, deleteEvents, podVars, usedResources, initVars>>
    BY <1>2 DEF DeleteIPV4Resource, poolVars
  <2>2. pool = "up"
    BY <2>1, BusyUp DEF PoolInv
  <2> QED
    BY <1>2, <2>1, <2>2, UnassignCount, UpFrame DEF PoolInv, initVars
<1>3. CASE UpdatePool(j)
  <2>1. jobs[j].op # "none" /\ UNCHANGED <<handlerVars, deleteEvents, podVars, usedResources, initVars>>
    BY <1>3 DEF UpdatePool
  <2>2. pool = "up"
    BY <2>1, BusyUp DEF PoolInv
  <2> QED
    BY <1>3, <2>1, <2>2, UpdateCount, UpFrame DEF PoolInv, initVars
<1>4. CASE ReSyncFetch(j)
  <2>1. /\ jobs[j].op # "none"
        /\ UNCHANGED <<handlerVars, deleteEvents, podVars, usedResources, initVars, pendingCreate, pendingDelete, upstream>>
    BY <1>4 DEF ReSyncFetch, poolVars
  <2>2. pool = "up"
    BY <2>1, BusyUp DEF PoolInv
  <2>3. /\ StockInv' /\ heldGroups' = heldGroups
        /\ ~isPending(j) /\ ~isPending(j)' /\ \A k \in Job \ {j} : jobs'[k] = jobs[k]
    BY <1>4, FetchStock DEF PoolInv
  <2>5. CountInv'
    BY <2>1, <2>3, NotDueCount DEF PoolInv
  <2> QED
    BY <2>1, <2>2, <2>3, <2>5, UpFrame DEF PoolInv, initVars
<1>5. CASE ReSync(j)
  <2>1. /\ jobs[j].op # "none"
        /\ UNCHANGED <<handlerVars, deleteEvents, podVars, usedResources, pool, initPods, pendingCreate, pendingDelete, upstream>>
    BY <1>5 DEF ReSync
  <2>2. pool = "up"
    BY <2>1, BusyUp DEF PoolInv
  <2>3. StockInv' /\ CountInv'
    <3>1. CASE ~reSyncRequired
      <4>1. /\ StockInv' /\ heldGroups' = heldGroups
            /\ ~isPending(j) /\ ~isPending(j)' /\ \A k \in Job \ {j} : jobs'[k] = jobs[k]
        BY <1>5, <3>1, IgnoredStock DEF PoolInv
      <4> QED
        BY <2>1, <4>1, NotDueCount DEF PoolInv
    <3>2. CASE reSyncRequired
      <4>1. jobs[j].groups = Masked(upstream) /\ \A k \in Job : ~isPending(k)
        BY <1>5, <3>2, ListingHolds DEF PoolInv
      <4>2. StockInv' /\ \A k \in Job : ~isPending(k)'
        BY <1>5, <3>2, <4>1, ReSyncStock DEF PoolInv
      <4>3. nonePending /\ nonePending' /\ heldGroups' \subseteq Masked(upstream')
        BY <4>1, <4>2 DEF nonePending, StockInv, Whole
      <4> QED
        BY <2>1, <4>2, <4>3, IdleCount DEF PoolInv
    <3> QED
      BY <3>1, <3>2
  <2> QED
    BY <2>1, <2>2, <2>3, UpFrame DEF PoolInv
<1> QED
  BY <1>1, <1>2, <1>3, <1>4, <1>5 DEF JobStep

\* The delete-queue job and a change of configuration.
LEMMA CoolDownInv ==
  ASSUME TypeOK, TypeOK', PoolInv, ProcessCoolDownQueue \/ SetConfig
  PROVE  PoolInv'
<1>1. pool = "up" /\ UNCHANGED <<handlerVars, deleteEvents, podVars, usedResources, initVars>>
  BY DEF ProcessCoolDownQueue, SetConfig, poolVars
<1>2. CASE ProcessCoolDownQueue
  <2>1. UNCHANGED <<jobs, upstream, reSyncRequired, pendingCreate, pendingDelete>>
    BY <1>2 DEF ProcessCoolDownQueue
  <2>2. Apart' /\ held' = held
    BY <1>2, CoolDownApart DEF PoolInv, StockInv
  <2> QED
    BY <1>1, <2>1, <2>2, MoveCount, UpFrame DEF PoolInv, initVars
<1>3. CASE SetConfig
  <2>1. UNCHANGED <<poolVars, jobs, upstream>>
    BY <1>3 DEF SetConfig
  <2> QED
    BY <1>1, <2>1, SameCount, UpFrame DEF PoolInv, initVars
<1> QED
  BY <1>2, <1>3

\* Time preserves the invariant.
LEMMA TickInv ==
  ASSUME TypeOK, TypeOK', PoolInv, Tick
  PROVE  PoolInv'
<1>1. UNCHANGED <<usedResources, pendingCreate, pendingDelete, reSyncRequired, jobs, handlerPc, resID, deleteEvents,
                  podPhase, annotation, upstream, pool, initPods>>
  BY DEF Tick, handlerVars, initVars
<1>2. Apart' /\ held' = held
  BY TickApart DEF PoolInv, StockInv
<1>3. StockInv' /\ CountInv'
  BY <1>1, <1>2, MoveCount DEF PoolInv
<1>4. DownInv'
  BY <1>1, <1>2 DEF PoolInv, DownInv
<1>5. \A p \in Pod : stoppedFor'[p] = NoTime <=> stoppedFor[p] = NoTime
  BY PoolAssumption DEF Tick, TypeOK, older, atMost, Age, NoTime
<1>6. PodInv'
  BY <1>1, <1>5 DEF PoolInv, PodInv, isAnnotated, restored
<1> QED
  BY <1>3, <1>4, <1>6 DEF PoolInv

\* InitResource.
LEMMA ListInv ==
  ASSUME TypeOK, TypeOK', PoolInv, InitResource
  PROVE  PoolInv'
<1>1. /\ pool # "up" /\ pool' = "listed" /\ initPods' = {p \in Pod : podPhase[p] = "running"}
      /\ UNCHANGED <<poolVars, jobs, handlerPc, resID, deleteEvents, podPhase, annotation, stoppedFor, upstream>>
  BY DEF InitResource, handlerVars, podVars
<1>2. StockInv' /\ CountInv' /\ held' = held
  BY <1>1, SameCount DEF PoolInv
<1>3. DownInv'
  BY <1>1, <1>2 DEF PoolInv, DownInv, poolVars
<1>4. restored' \subseteq restored /\ restored \subseteq Pod /\ usedResources' = usedResources
  BY <1>1 DEF restored, poolVars, TypeOK
<1>5. PodInv'
  BY <1>1, <1>4 DEF PoolInv, PodInv, isAnnotated
<1> QED
  BY <1>2, <1>3, <1>5 DEF PoolInv

\* The rebuilt pool satisfies the invariant.
LEMMA PutInv ==
  ASSUME TypeOK, TypeOK', PoolInv, PutPool
  PROVE  PoolInv'
<1>1. /\ pool = "listed" /\ pool' = "up" /\ initPods' = {}
      /\ UNCHANGED <<pendingCreate, pendingDelete, jobs, handlerPc, resID, deleteEvents, podPhase, annotation,
                     stoppedFor, upstream>>
  BY DEF PutPool, handlerVars, podVars
<1>2. /\ StockInv' /\ heldGroups' = Masked(upstream)
      /\ \A p \in initPods : isAnnotated(p) /\ GroupOf(annotation[p]) \in Masked(upstream) =>
           usedResources'[p] = annotation[p]
  BY PutStock DEF PoolInv
<1>3. nonePending /\ nonePending'
  BY <1>1 DEF PoolInv, DownInv, nonePending, isPending, holding
<1>4. CountInv'
  BY <1>1, <1>2, <1>3, IdleCount DEF PoolInv
<1>5. DownInv'
  BY <1>1 DEF DownInv
<1>6. \A p \in Pod : podPhase[p] = "running" /\ isAnnotated(p) => usedResources'[p] = annotation[p]
  <2> SUFFICES ASSUME NEW p \in Pod, podPhase[p] = "running", isAnnotated(p) PROVE usedResources'[p] = annotation[p]
    OBVIOUS
  <2>1. p \in initPods /\ p \in restored
    BY <1>1 DEF PoolInv, PodInv, restored
  <2> QED
    BY <1>1, <1>2, <2>1 DEF PoolInv, PodInv
<1>7. PodInv'
  <2>1. \A p \in Pod : handlerPc[p] = "none"
    BY <1>1 DEF PoolInv, DownInv
  <2> QED
    BY <1>1, <1>6, <2>1 DEF PoolInv, PodInv, isAnnotated
<1> QED
  BY <1>2, <1>4, <1>5, <1>7 DEF PoolInv

emptyPool ==
  /\ usedResources = [p \in Pod |-> NoResource] /\ warmResources = NoneWarm /\ coolDownQueue = <<>>
  /\ jobs = [j \in Job |-> NoJob]
  /\ pendingCreate = 0 /\ pendingDelete = 0

\* An empty pool satisfies the pool's part of the invariant.
LEMMA EmptyPool ==
  TypeOK /\ emptyPool /\ Cardinality(upstream) * PerGroup <= capacity =>
    StockInv /\ CountInv /\ held = {} /\ \A j \in Job : jobs[j].op = "none"
<1> SUFFICES ASSUME TypeOK, emptyPool, Cardinality(upstream) * PerGroup <= capacity
             PROVE  StockInv /\ CountInv /\ held = {} /\ \A j \in Job : jobs[j].op = "none"
  OBVIOUS
<1>1. StockInv /\ held = {} /\ heldGroups = {} /\ \A j \in Job : jobs[j].op = "none"
  BY EmptyStock DEF emptyPool
<1>2. nonePending
  BY <1>1 DEF nonePending, isPending, holding
<1>3. pendingOf(createOps) = 0 /\ pendingOf(deleteOps) = 0
  BY <1>2, ZeroPending DEF noneDue
<1>4. totalCreatedResources <= capacity
  <2>1. Cardinality(heldGroups) = 0 /\ PerGroup \in Nat \ {0}
    BY <1>1, FS_EmptySet, ConstantFacts
  <2>2. totalCreatedResources = Cardinality(heldGroups) * PerGroup + pendingCreate + pendingDelete
    BY <1>1, TotalNow
  <2> QED
    BY <2>1, <2>2, PoolAssumption DEF emptyPool
<1> QED
  BY <1>1, <1>3, <1>4, WholeFacts DEF CountInv, Accounted, emptyPool, createOps, deleteOps

\* After a restart the running pods' annotations are distinct and assigned to the
\* node.
LEMMA CrashInv ==
  ASSUME TypeOK, TypeOK', PoolInv, Crash
  PROVE  PoolInv'
<1>1. /\ pool = "up" /\ pool' = "down" /\ emptyPool' /\ ~reSyncRequired'
      /\ handlerPc' = [p \in Pod |-> "none"] /\ resID' = [p \in Pod |-> NoResource]
      /\ deleteEvents' = {<<p, "completed">> : p \in {q \in Pod : podPhase[q] = "completed"}}
      /\ UNCHANGED <<initPods, podPhase, annotation, stoppedFor, upstream>>
  BY DEF Crash, emptyPool, podVars
<1>2. (StockInv /\ CountInv /\ held = {} /\ \A j \in Job : jobs[j].op = "none")'
  <2>1. (Cardinality(upstream) * PerGroup <= capacity)'
    BY <1>1 DEF PoolInv, CountInv
  <2> QED
    BY <1>1, <2>1, EmptyPool, PTL
<1>3. initPods = {} /\ restored' = {p \in Pod : podPhase[p] = "running"}
  BY <1>1 DEF PoolInv, DownInv, restored
<1>4. DownInv'
  BY <1>1, <1>2 DEF DownInv, emptyPool
<1>5. \A p \in Pod : podPhase[p] = "running" /\ isAnnotated(p) =>
        /\ GroupOf(annotation[p]) \in Masked(upstream)
        /\ \A q \in Pod : podPhase[q] = "running" /\ annotation[q] = annotation[p] => q = p
  <2>1. \A p \in Pod : podPhase[p] = "running" /\ isAnnotated(p) =>
          p \in Used /\ usedResources[p] = annotation[p] /\ annotation[p] \in held
    BY <1>1 DEF PoolInv, PodInv, isAnnotated, Used, held, usedSet
  <2>2. \A r \in held : GroupOf(r) \in Masked(upstream)
    BY DEF PoolInv, StockInv, Whole, heldGroups
  <2> QED
    BY <2>1, <2>2 DEF PoolInv, StockInv, Apart, isAnnotated
<1>6. PodInv'
  <2>1. \A p \in Pod : isAnnotated(p)' <=> isAnnotated(p)
    BY <1>1 DEF isAnnotated
  <2>2. \A e \in deleteEvents' : podPhase'[e[1]] \in {"completed", "gone"}
    BY <1>1
  <2>3. \A p \in Pod : handlerPc'[p] = "none" /\ resID'[p] = NoResource
    BY <1>1
  <2> QED
    BY <1>1, <1>3, <1>5, <2>1, <2>2, <2>3 DEF PoolInv, PodInv
<1> QED
  BY <1>2, <1>4, <1>6 DEF PoolInv

\* The invariant holds initially.
LEMMA InitInv == Init => PoolInv
<1> SUFFICES ASSUME Init PROVE PoolInv
  OBVIOUS
<1>1. TypeOK
  BY InitType
<1>2. emptyPool /\ Cardinality(upstream) * PerGroup <= capacity
  <2>1. Cardinality(upstream) = 0 /\ PerGroup \in Nat \ {0} /\ capacity \in Nat
    BY FS_EmptySet, ConstantFacts, PoolAssumption DEF Init
  <2> QED
    BY <2>1 DEF Init, emptyPool
<1>3. StockInv /\ CountInv /\ held = {} /\ \A j \in Job : jobs[j].op = "none"
  BY <1>1, <1>2, EmptyPool
<1>4. DownInv
  BY <1>3 DEF DownInv, Init
<1>5. PodInv
  BY DEF PodInv, Init, isAnnotated, restored
<1> QED
  BY <1>3, <1>4, <1>5 DEF PoolInv

\* The invariant is inductive under the contract.
LEMMA NextInv == Contract /\ TypeOK /\ PoolInv /\ [Next]_vars => PoolInv' \/ outdated'
<1> SUFFICES ASSUME Contract, TypeOK, PoolInv, [Next]_vars, ~outdated' PROVE PoolInv'
  OBVIOUS
<1>1. TypeOK'
  BY NextType
<1>2. ASSUME NEW p \in Pod,
             \/ PodScheduled(p) \/ HandleCreate(p) \/ HandlerStep(p)
             \/ \E phase \in {"completed", "gone"} : PodStops(p, phase) \/ HandleDelete(p, phase)
      PROVE  PoolInv'
  <2>1. CASE PodScheduled(p)
    BY <1>1, <2>1, ScheduledPod
  <2>2. CASE HandleCreate(p) \/ HandlerStep(p)
    BY <1>1, <2>2, HandlerPod
  <2>3. ASSUME NEW phase \in {"completed", "gone"}, PodStops(p, phase) PROVE PoolInv'
    BY <1>1, <2>3, StoppedPod
  <2>4. ASSUME NEW phase \in {"completed", "gone"}, HandleDelete(p, phase) PROVE PoolInv'
    BY <1>1, <2>4, DeletedPod
  <2> QED
    BY <1>2, <2>1, <2>2, <2>3, <2>4
<1>3. ASSUME NEW j \in Job, JobStep(j) PROVE PoolInv'
  BY <1>1, <1>3, JobStepInv
<1>4. CASE ReconcilePool
  BY <1>1, <1>4, ReconcileInv
<1>5. CASE ProcessCoolDownQueue \/ SetConfig
  BY <1>1, <1>5, CoolDownInv
<1>6. CASE InitResource
  BY <1>1, <1>6, ListInv
<1>7. CASE PutPool
  BY <1>1, <1>7, PutInv
<1>8. CASE Crash
  BY <1>1, <1>8, CrashInv
<1>9. CASE Tick
  BY <1>1, <1>9, TickInv
<1>10. CASE UNCHANGED vars
  <2>1. UNCHANGED <<poolVars, jobs, handlerPc, resID, deleteEvents, podPhase, annotation, stoppedFor, upstream,
                    pool, initPods>>
    BY <1>10 DEF vars, handlerVars, podVars, initVars
  <2>2. StockInv' /\ CountInv' /\ held' = held
    BY <1>1, <2>1, SameCount DEF PoolInv
  <2>3. DownInv' /\ PodInv'
    BY <2>1, <2>2 DEF PoolInv, DownInv, PodInv, isAnnotated, restored, poolVars
  <2> QED
    BY <2>2, <2>3 DEF PoolInv
<1> QED
  BY <1>2, <1>3, <1>4, <1>5, <1>6, <1>7, <1>8, <1>9, <1>10 DEF Next

\* That an outdated listing was applied is never forgotten.
LEMMA OutdatedKept == outdated /\ [Next]_vars => outdated'
<1> SUFFICES ASSUME outdated, [Next]_vars PROVE outdated'
  OBVIOUS
<1>1. ASSUME NEW p \in Pod,
             \/ PodScheduled(p) \/ HandleCreate(p) \/ HandlerStep(p)
             \/ \E phase \in {"completed", "gone"} : PodStops(p, phase) \/ HandleDelete(p, phase)
      PROVE  UNCHANGED outdated
  BY <1>1 DEF PodScheduled, HandleCreate, HandlerStep, AssignResource, AssignResourceFails, AnnotatePod,
              AnnotatePodFails, PodStops, HandleDelete, initVars
<1>2. ASSUME NEW j \in Job, JobStep(j) PROVE UNCHANGED outdated \/ outdated' = (outdated \/ (~jobs[j].ok /\ ~listingHolds(j)))
  BY <1>2 DEF JobStep, CreateIPV4Resource, DeleteIPV4Resource, UpdatePool, ReSyncFetch, ReSync, initVars
<1>3. ASSUME ReconcilePool \/ ProcessCoolDownQueue \/ SetConfig \/ InitResource \/ PutPool \/ Crash \/ Tick \/ UNCHANGED vars
      PROVE  UNCHANGED outdated
  BY <1>3 DEF ReconcilePool, RequestReSync, RequestCreate, RequestDelete, ProcessCoolDownQueue, SetConfig,
              InitResource, PutPool, Crash, Tick, vars, initVars
<1> QED
  BY <1>1, <1>2, <1>3 DEF Next

\* The invariant holds in every reachable state until an outdated listing is applied.
LEMMA PoolCorrect == ASSUME Contract PROVE Spec => [](TypeOK /\ (PoolInv \/ outdated))
<1>1. Init => TypeOK /\ PoolInv
  BY InitType, InitInv
<1> QED
  BY <1>1, NextType, NextInv, OutdatedKept, PTL DEF Spec

-----------------------------------------------------------------------------
(***************************************************************************)
(* The cool-down period.                                                   *)
(***************************************************************************)

\* A pod that has been released stays so while nothing leaves the queue early.
LEMMA ReleasedKept ==
  ASSUME TypeOK, NEW p \in Pod, NEW r, released(p, r), stoppedFor'[p] = stoppedFor[p],
         \A i \in DOMAIN coolDownQueue :
           \/ coolDownQueue[i].age >= CoolDownPeriod
           \/ \E k \in DOMAIN coolDownQueue' : coolDownQueue'[k] = coolDownQueue[i]
  PROVE  released(p, r)'
<1>1. stoppedFor[p] # NoTime
  BY DEF released
<1>2. CASE stoppedFor[p] >= CoolDownPeriod
  BY <1>1, <1>2 DEF released
<1>3. ASSUME NEW i \in DOMAIN coolDownQueue, coolDownQueue[i].res = r, coolDownQueue[i].age <= stoppedFor[p]
      PROVE  released(p, r)'
  <2>1. CASE coolDownQueue[i].age >= CoolDownPeriod
    <3>1. coolDownQueue[i].age \in Int /\ stoppedFor[p] \in Int /\ CoolDownPeriod \in Int
      BY QueueFacts, PoolAssumption DEF TypeOK, Age, NoTime
    <3>2. stoppedFor[p] >= CoolDownPeriod
      BY <1>3, <2>1, <3>1
    <3> QED
      BY <1>1, <3>2 DEF released
  <2>2. CASE \E k \in DOMAIN coolDownQueue' : coolDownQueue'[k] = coolDownQueue[i]
    BY <1>1, <1>3, <2>2 DEF released
  <2> QED
    BY <2>1, <2>2
<1> QED
  BY <1>2, <1>3 DEF released

\* A freed resource is in the queue for no longer than its owner has been stopped.
LEMMA ReleasedNow ==
  ASSUME TypeOK, NEW p \in Pod, NEW r, stoppedFor[p] # NoTime, stoppedFor'[p] = stoppedFor[p],
         \E i \in DOMAIN coolDownQueue' : coolDownQueue'[i] = [res |-> r, age |-> 0]
  PROVE  released(p, r)'
<1>1. PICK i \in DOMAIN coolDownQueue' : coolDownQueue'[i] = [res |-> r, age |-> 0]
  OBVIOUS
<1>2. coolDownQueue'[i].res = r /\ coolDownQueue'[i].age = 0
  BY <1>1
<1>3. 0 <= stoppedFor[p]
  BY DEF TypeOK, Age, NoTime
<1> QED
  BY <1>1, <1>2, <1>3 DEF released

\* Steps that leave the pods' addresses alone.
LEMMA ReuseFrame ==
  ASSUME TypeOK, ReuseInv, UNCHANGED <<usedResources, annotation, resID, stoppedFor, crashes>>,
         \A i \in DOMAIN coolDownQueue :
           \/ coolDownQueue[i].age >= CoolDownPeriod
           \/ \E k \in DOMAIN coolDownQueue' : coolDownQueue'[k] = coolDownQueue[i]
  PROVE  ReuseInv'
<1> SUFFICES ASSUME crashes = 0, NEW p \in Pod, NEW r \in {annotation[p], resID[p]} \ {NoResource}, usedResources[p] # r
             PROVE  released(p, r)'
  BY DEF ReuseInv
<1>1. released(p, r)
  BY DEF ReuseInv
<1> QED
  BY <1>1, ReleasedKept

\* The handler of a creation takes an address away only from a stopped pod, and
\* only into the queue.
LEMMA ReuseHandler ==
  ASSUME TypeOK, PoolInv, ReuseInv, NEW p \in Pod, HandlerStep(p)
  PROVE  ReuseInv'
<1>1. CASE AssignResource(p)
  <2>1. /\ resID'[p] \in held /\ usedResources'[p] = resID'[p] /\ resID'[p] # NoResource
        /\ \A q \in Pod \ {p} : usedResources'[q] = usedResources[q] /\ resID'[q] = resID[q]
    BY <1>1, AssignApart DEF PoolInv, StockInv
  <2>2. usedResources[p] = NoResource /\ UNCHANGED <<coolDownQueue, annotation, stoppedFor, crashes>>
    BY <1>1 DEF AssignResource, podVars, initVars
  <2>3. \A i \in DOMAIN coolDownQueue : \E k \in DOMAIN coolDownQueue' : coolDownQueue'[k] = coolDownQueue[i]
    BY <2>2
  <2> SUFFICES ASSUME crashes = 0, NEW q \in Pod, NEW r \in {annotation[q], resID'[q]} \ {NoResource}, usedResources'[q] # r
               PROVE  released(q, r)'
    BY <2>2 DEF ReuseInv
  <2>4. r \in {annotation[q], resID[q]} /\ usedResources[q] # r
    BY <2>1, <2>2
  <2>5. released(q, r)
    BY <2>4 DEF ReuseInv
  <2> QED
    BY <2>2, <2>3, <2>5, ReleasedKept
<1>2. CASE AssignResourceFails(p)
  <2>1. UNCHANGED <<usedResources, annotation, resID, stoppedFor, crashes, coolDownQueue>>
    BY <1>2 DEF AssignResourceFails, podVars, initVars, poolVars
  <2> QED
    BY <2>1, ReuseFrame
<1>3. CASE AnnotatePod(p)
  <2>1. /\ annotation' = [annotation EXCEPT ![p] = resID[p]] /\ resID' = [resID EXCEPT ![p] = NoResource]
        /\ UNCHANGED <<usedResources, coolDownQueue, stoppedFor, crashes>>
    BY <1>3 DEF AnnotatePod, handlerDone, initVars, poolVars
  <2>2. \A q \in Pod : {annotation'[q], resID'[q]} \ {NoResource} \subseteq {annotation[q], resID[q]} \ {NoResource}
    BY <2>1 DEF TypeOK
  <2> SUFFICES ASSUME crashes = 0, NEW q \in Pod, NEW r \in {annotation'[q], resID'[q]} \ {NoResource}, usedResources[q] # r
               PROVE  released(q, r)'
    BY <2>1 DEF ReuseInv
  <2>3. released(q, r)
    BY <2>2 DEF ReuseInv
  <2>4. \A i \in DOMAIN coolDownQueue : \E k \in DOMAIN coolDownQueue' : coolDownQueue'[k] = coolDownQueue[i]
    BY <2>1
  <2> QED
    BY <2>1, <2>3, <2>4, ReleasedKept
<1>4. CASE AnnotatePodFails(p)
  <2>1. /\ handlerPc[p] = "annotate" /\ resID' = [resID EXCEPT ![p] = NoResource]
        /\ UNCHANGED <<annotation, stoppedFor, crashes>>
    BY <1>4 DEF AnnotatePodFails, handlerDone, podVars, initVars
  <2>2. \A q \in Pod : {annotation'[q], resID'[q]} \ {NoResource} \subseteq {annotation[q], resID[q]} \ {NoResource}
    BY <2>1 DEF TypeOK
  <2>3. CASE owns(p, resID[p]) /\ FreeResource(p, resID[p])
    <3>1. /\ \A q \in Pod \ {p} : usedResources'[q] = usedResources[q]
          /\ \A i \in DOMAIN coolDownQueue : i \in DOMAIN coolDownQueue' /\ coolDownQueue'[i] = coolDownQueue[i]
          /\ \E i \in DOMAIN coolDownQueue' : coolDownQueue'[i] = [res |-> resID[p], age |-> 0]
      BY <2>3, FreeApart DEF PoolInv, StockInv
    <3>2. usedResources[p] = resID[p] /\ resID'[p] = NoResource
      BY <2>1, <2>3 DEF owns, TypeOK
    <3>3. podPhase[p] # "absent" /\ (podPhase[p] = "running" => annotation[p] = NoResource)
      BY <2>1 DEF PoolInv, PodInv, isAnnotated
    <3> SUFFICES ASSUME crashes = 0, NEW q \in Pod, NEW r \in {annotation'[q], resID'[q]} \ {NoResource}, usedResources'[q] # r
                 PROVE  released(q, r)'
      BY <2>1 DEF ReuseInv
    <3>4. CASE released(q, r)
      BY <2>1, <3>1, <3>4, ReleasedKept
    <3>5. CASE ~released(q, r)
      <4>1. usedResources[q] = r
        BY <2>2, <3>5 DEF ReuseInv
      <4>2. q = p /\ r = annotation[p] /\ r = resID[p] /\ podPhase[p] \notin {"absent", "running"}
        BY <2>1, <3>1, <3>2, <3>3, <4>1
      <4>3. stoppedFor[p] # NoTime
        BY <4>2 DEF PoolInv, PodInv
      <4> QED
        BY <2>1, <3>1, <4>2, <4>3, ReleasedNow
    <3> QED
      BY <3>4, <3>5
  <2>4. CASE UNCHANGED <<usedResources, coolDownQueue, warmResources>>
    <3> SUFFICES ASSUME crashes = 0, NEW q \in Pod, NEW r \in {annotation'[q], resID'[q]} \ {NoResource}, usedResources[q] # r
                 PROVE  released(q, r)'
      BY <2>1, <2>4 DEF ReuseInv
    <3>1. released(q, r)
      BY <2>2 DEF ReuseInv
    <3>2. \A i \in DOMAIN coolDownQueue : \E k \in DOMAIN coolDownQueue' : coolDownQueue'[k] = coolDownQueue[i]
      BY <2>4
    <3> QED
      BY <2>1, <3>1, <3>2, ReleasedKept
  <2> QED
    BY <1>4, <2>3, <2>4 DEF AnnotatePodFails
<1> QED
  BY <1>1, <1>2, <1>3, <1>4 DEF HandlerStep

\* So does the handler of a deletion.
LEMMA ReuseStopped ==
  ASSUME TypeOK, PoolInv, ReuseInv, NEW p \in Pod, NEW phase \in {"completed", "gone"},
         PodStops(p, phase) \/ HandleDelete(p, phase)
  PROVE  ReuseInv'
<1>1. CASE PodStops(p, phase)
  <2>1. /\ stoppedFor' = [stoppedFor EXCEPT ![p] = IF @ = NoTime THEN 0 ELSE @]
        /\ UNCHANGED <<usedResources, coolDownQueue, annotation, resID, crashes>>
    BY <1>1 DEF PodStops, poolVars, handlerVars, initVars
  <2> SUFFICES ASSUME crashes = 0, NEW q \in Pod, NEW r \in {annotation[q], resID[q]} \ {NoResource}, usedResources[q] # r
               PROVE  released(q, r)'
    BY <2>1 DEF ReuseInv
  <2>2. released(q, r)
    BY DEF ReuseInv
  <2>3. stoppedFor'[q] = stoppedFor[q]
    BY <2>1, <2>2 DEF released, TypeOK
  <2>4. \A i \in DOMAIN coolDownQueue : \E k \in DOMAIN coolDownQueue' : coolDownQueue'[k] = coolDownQueue[i]
    BY <2>1
  <2> QED
    BY <2>2, <2>3, <2>4, ReleasedKept
<1>2. CASE HandleDelete(p, phase)
  <2> DEFINE s == IF annotation[p] # NoResource THEN annotation[p] ELSE usedResources[p]
  <2>1. <<p, phase>> \in deleteEvents /\ UNCHANGED <<annotation, resID, stoppedFor, crashes>>
    BY <1>2 DEF HandleDelete, handlerVars, podVars, initVars
  <2>2. stoppedFor[p] # NoTime
    BY <2>1 DEF PoolInv, PodInv
  <2>3. CASE owns(p, s) /\ FreeResource(p, s)
    <3>1. /\ \A q \in Pod \ {p} : usedResources'[q] = usedResources[q]
          /\ \A i \in DOMAIN coolDownQueue : i \in DOMAIN coolDownQueue' /\ coolDownQueue'[i] = coolDownQueue[i]
          /\ \E i \in DOMAIN coolDownQueue' : coolDownQueue'[i] = [res |-> s, age |-> 0]
      BY <2>3, FreeApart DEF PoolInv, StockInv
    <3>2. usedResources[p] = s
      BY <2>3 DEF owns
    <3> HIDE DEF s
    <3> SUFFICES ASSUME crashes = 0, NEW q \in Pod, NEW r \in {annotation[q], resID[q]} \ {NoResource}, usedResources'[q] # r
                 PROVE  released(q, r)'
      BY <2>1 DEF ReuseInv
    <3>4. CASE released(q, r)
      BY <2>1, <3>1, <3>4, ReleasedKept
    <3>5. CASE ~released(q, r)
      <4>1. usedResources[q] = r
        BY <3>5 DEF ReuseInv
      <4>2. q = p /\ r = s
        BY <3>1, <3>2, <4>1
      <4> QED
        BY <2>1, <2>2, <3>1, <4>2, ReleasedNow
    <3> QED
      BY <3>4, <3>5
  <2>4. CASE UNCHANGED <<usedResources, coolDownQueue, warmResources>>
    BY <2>1, <2>4, ReuseFrame
  <2> QED
    BY <1>2, <2>3, <2>4 DEF HandleDelete
<1> QED
  BY <1>1, <1>2

\* Pods and the queue age together.
LEMMA ReuseTick ==
  ASSUME TypeOK, PoolInv, ReuseInv, Tick
  PROVE  ReuseInv'
<1>1. /\ stoppedFor' = [p \in Pod |-> IF stoppedFor[p] = NoTime THEN NoTime ELSE older(stoppedFor[p])]
      /\ UNCHANGED <<usedResources, annotation, resID, crashes>>
  BY DEF Tick, handlerVars, initVars
<1>2. /\ DOMAIN coolDownQueue' = DOMAIN coolDownQueue
      /\ \A i \in DOMAIN coolDownQueue :
           coolDownQueue'[i].res = coolDownQueue[i].res /\ coolDownQueue'[i].age = older(coolDownQueue[i].age)
  BY TickApart DEF PoolInv, StockInv
<1>3. /\ \A a, b \in Age : a <= b => older(a) <= older(b)
      /\ \A a \in Age : a >= CoolDownPeriod => older(a) >= CoolDownPeriod
      /\ \A a \in Age : older(a) # NoTime
  BY PoolAssumption DEF Age, older, atMost, NoTime
<1> SUFFICES ASSUME crashes = 0, NEW p \in Pod, NEW r \in {annotation[p], resID[p]} \ {NoResource}, usedResources[p] # r
             PROVE  released(p, r)'
  BY <1>1 DEF ReuseInv
<1>4. released(p, r)
  BY DEF ReuseInv
<1>5. stoppedFor[p] \in Age /\ stoppedFor'[p] = older(stoppedFor[p]) /\ stoppedFor'[p] # NoTime
  <2>1. stoppedFor[p] # NoTime /\ stoppedFor[p] \in Age
    BY <1>4 DEF released, TypeOK
  <2> QED
    BY <1>1, <1>3, <2>1
<1>6. CASE stoppedFor[p] >= CoolDownPeriod
  BY <1>3, <1>5, <1>6 DEF released
<1>7. ASSUME NEW i \in DOMAIN coolDownQueue, coolDownQueue[i].res = r, coolDownQueue[i].age <= stoppedFor[p]
      PROVE  released(p, r)'
  <2>1. coolDownQueue[i].age \in Age
    BY QueueFacts
  <2>2. coolDownQueue'[i].age <= stoppedFor'[p] /\ coolDownQueue'[i].res = r /\ i \in DOMAIN coolDownQueue'
    BY <1>2, <1>3, <1>5, <1>7, <2>1
  <2> QED
    BY <1>5, <2>2 DEF released
<1> QED
  BY <1>4, <1>6, <1>7 DEF released

\* A pool that is built leaves released pods released.
LEMMA ReusePut ==
  ASSUME TypeOK, PoolInv, ReuseInv, PutPool
  PROVE  ReuseInv'
<1>1. pool = "listed" /\ UNCHANGED <<coolDownQueue, annotation, resID, stoppedFor, crashes>>
  BY DEF PutPool, handlerVars, podVars
<1>2. \A p \in Pod : usedResources[p] = NoResource
  BY <1>1 DEF PoolInv, DownInv, held, usedSet, Used
<1> SUFFICES ASSUME crashes = 0, NEW p \in Pod, NEW r \in {annotation[p], resID[p]} \ {NoResource}
             PROVE  released(p, r)'
  BY <1>1 DEF ReuseInv
<1>3. released(p, r)
  BY <1>2 DEF ReuseInv
<1>4. \A i \in DOMAIN coolDownQueue : \E k \in DOMAIN coolDownQueue' : coolDownQueue'[k] = coolDownQueue[i]
  BY <1>1
<1> QED
  BY <1>1, <1>3, <1>4, ReleasedKept

\* The invariant of the cool-down period is inductive.
LEMMA ReuseNext == TypeOK /\ PoolInv /\ ReuseInv /\ [Next]_vars => ReuseInv' \/ outdated'
<1> SUFFICES ASSUME TypeOK, PoolInv, ReuseInv, [Next]_vars, ~outdated' PROVE ReuseInv'
  OBVIOUS
<1>1. ASSUME UNCHANGED <<usedResources, annotation, resID, stoppedFor, crashes, coolDownQueue>> PROVE ReuseInv'
  BY <1>1, ReuseFrame
<1>2. ASSUME NEW p \in Pod,
             \/ PodScheduled(p) \/ HandleCreate(p) \/ HandlerStep(p)
             \/ \E phase \in {"completed", "gone"} : PodStops(p, phase) \/ HandleDelete(p, phase)
      PROVE  ReuseInv'
  <2>1. CASE PodScheduled(p) \/ HandleCreate(p)
    BY <1>1, <2>1 DEF PodScheduled, HandleCreate, poolVars, handlerVars, podVars, initVars
  <2> QED
    BY <1>2, <2>1, ReuseHandler, ReuseStopped
<1>3. ASSUME NEW j \in Job, JobStep(j) PROVE ReuseInv'
  <2>1. UNCHANGED <<usedResources, annotation, resID, stoppedFor, crashes>>
    BY <1>3 DEF JobStep, CreateIPV4Resource, DeleteIPV4Resource, UpdatePool, ReSyncFetch, ReSync,
                poolVars, handlerVars, podVars, initVars
  <2>2. CASE ReSync(j)
    <3>1. \A i \in DOMAIN coolDownQueue : \E k \in DOMAIN coolDownQueue' : coolDownQueue'[k] = coolDownQueue[i]
      <4>1. CASE ~reSyncRequired
        BY <2>2, <4>1 DEF ReSync
      <4>2. CASE reSyncRequired
        <5>1. jobs[j].groups = Masked(upstream) /\ \A k \in Job : ~isPending(k)
          BY <2>2, <4>2, ListingHolds DEF PoolInv
        <5> QED
          BY <2>2, <4>2, <5>1, ReSyncStock DEF PoolInv
      <4> QED
        BY <4>1, <4>2
    <3> QED
      BY <2>1, <3>1, ReuseFrame
  <2>3. CASE ~ReSync(j)
    <3>1. UNCHANGED coolDownQueue
      BY <1>3, <2>3 DEF JobStep, CreateIPV4Resource, DeleteIPV4Resource, UpdatePool, ReSyncFetch, poolVars
    <3> QED
      BY <1>1, <2>1, <3>1
  <2> QED
    BY <2>2, <2>3
<1>4. CASE ReconcilePool
  BY <1>1, <1>4 DEF ReconcilePool, RequestReSync, RequestCreate, RequestDelete, poolVars, handlerVars, podVars, initVars
<1>5. CASE ProcessCoolDownQueue
  <2>1. UNCHANGED <<usedResources, annotation, resID, stoppedFor, crashes>>
    BY <1>5 DEF ProcessCoolDownQueue, handlerVars, podVars, initVars
  <2>2. \A i \in DOMAIN coolDownQueue :
          \/ coolDownQueue[i].age >= CoolDownPeriod
          \/ \E k \in DOMAIN coolDownQueue' : coolDownQueue'[k] = coolDownQueue[i]
    BY <1>5, CoolDownApart DEF PoolInv, StockInv
  <2> QED
    BY <2>1, <2>2, ReuseFrame
<1>6. CASE SetConfig \/ InitResource \/ UNCHANGED vars
  BY <1>1, <1>6 DEF SetConfig, InitResource, vars, poolVars, handlerVars, podVars, initVars
<1>7. CASE PutPool
  BY <1>7, ReusePut
<1>8. CASE Crash
  <2>1. crashes' # 0
    BY <1>8 DEF Crash, TypeOK
  <2> QED
    BY <2>1 DEF ReuseInv
<1>9. CASE Tick
  BY <1>9, ReuseTick
<1> QED
  BY <1>2, <1>3, <1>4, <1>5, <1>6, <1>7, <1>8, <1>9 DEF Next

-----------------------------------------------------------------------------
(***************************************************************************)
(* The theorems.                                                           *)
(***************************************************************************)
\* The invariant makes addresses exclusive.
LEMMA OneHolder == TypeOK /\ PoolInv => AddressExclusive
<1> SUFFICES ASSUME TypeOK, PoolInv, NEW a \in Resource PROVE holders(a) <= 1
  BY DEF AddressExclusive
<1> DEFINE sameAs(r) == r # NoResource /\ SameAddress(r, a)
           g == <<a[1], mask>>
           b == <<a[1], mask, a[3]>>
           P == {p \in Pod : sameAs(usedResources[p])}
           C == {i \in DOMAIN coolDownQueue : sameAs(coolDownQueue[i].res)}
           W == warmCopies({r \in Resource : sameAs(r)})
           J == {j \in Job : jobs[j].op \in {"Created", "Deleted", "Unassigned"} /\ \E h \in jobs[j].groups : h[1] = a[1]}
<1>1. g \in Masked(Group) /\ b \in Proper /\ GroupOf(b) = g
  <2>1. a[1] \in Group /\ a[3] \in 1 .. PerGroup
    BY NameFacts
  <2>2. g \in Masked(Group) /\ g[1] = a[1]
    BY <2>1, NameFacts
  <2> QED
    BY <2>1, <2>2, NameFacts
<1>2. \A r \in Proper : sameAs(r) => r = b
  BY NameFacts DEF SameAddress
<1>3. held \subseteq Proper /\ Apart
  BY DEF PoolInv, StockInv, Whole
<1>4. (\A x, y \in P : x = y) /\ (P # {} => b \in usedSet)
  <2>1. \A p \in P : p \in Used /\ usedResources[p] \in held /\ usedResources[p] \in usedSet
    BY DEF Used, held, usedSet
  <2>2. \A p \in P : usedResources[p] = b
    BY <1>2, <1>3, <2>1
  <2> HIDE DEF P, b
  <2> QED
    BY <1>3, <2>1, <2>2 DEF Apart
<1>5. (\A x, y \in C : x = y) /\ (C # {} => b \in coolingSet)
  <2>1. \A i \in C : i \in DOMAIN coolDownQueue /\ coolDownQueue[i].res \in held /\ coolDownQueue[i].res \in coolingSet
    BY DEF held, coolingSet
  <2>2. \A i \in C : coolDownQueue[i].res = b
    BY <1>2, <1>3, <2>1
  <2> HIDE DEF C, b
  <2> QED
    BY <1>3, <2>1, <2>2 DEF Apart
<1>6. (\A x, y \in W : x = y) /\ (W # {} => b \in warmSet)
  <2>1. ASSUME NEW w \in W PROVE w = <<b, 1>> /\ b \in warmSet
    <3>1. PICK r \in Resource : sameAs(r) /\ w \in {r} \X (1 .. warmResources[r])
      BY <2>1 DEF warmCopies
    <3>2. warmResources[r] \in Nat /\ warmResources[r] <= 1
      BY <1>3 DEF Apart, TypeOK
    <3>3. r \in warmSet /\ w = <<r, 1>>
      BY <3>1, <3>2 DEF warmSet
    <3>4. r = b
      BY <1>2, <1>3, <3>1, <3>3 DEF held
    <3> QED
      BY <3>3, <3>4
  <2> HIDE DEF W, b
  <2> QED
    BY <2>1
<1>7. (\A x, y \in J : x = y) /\ (J # {} => b \notin held)
  <2>1. \A j \in J : j \in Job /\ holding(j) /\ g \in jobs[j].groups
    BY NameFacts DEF PoolInv, StockInv, JobInv, holding
  <2>2. \A j \in J : g \notin heldGroups
    BY <2>1 DEF PoolInv, StockInv, GroupInv
  <2>3. b \in held => g \in heldGroups
    BY <1>1 DEF heldGroups
  <2> HIDE DEF J, b, g
  <2> QED
    BY <2>1, <2>2, <2>3 DEF PoolInv, StockInv, GroupInv
<1>8. holders(a) = Cardinality(P) + Cardinality(C) + Cardinality(W) + Cardinality(J)
  BY DEF holders
<1> HIDE DEF P, C, W, J, b, g
<1>9. /\ Cardinality(P) \in {0, 1} /\ (Cardinality(P) = 1 => b \in usedSet)
      /\ Cardinality(C) \in {0, 1} /\ (Cardinality(C) = 1 => b \in coolingSet)
      /\ Cardinality(W) \in {0, 1} /\ (Cardinality(W) = 1 => b \in warmSet)
      /\ Cardinality(J) \in {0, 1} /\ (Cardinality(J) = 1 => b \notin held)
  BY <1>4, <1>5, <1>6, <1>7, AtMostOne
<1>10. /\ ~(b \in usedSet /\ b \in coolingSet) /\ ~(b \in usedSet /\ b \in warmSet) /\ ~(b \in coolingSet /\ b \in warmSet)
       /\ b \notin held => b \notin usedSet /\ b \notin coolingSet /\ b \notin warmSet
  BY <1>3 DEF Apart, held
<1> QED
  BY <1>8, <1>9, <1>10

\* The invariant makes announced addresses exist.
LEMMA AnnouncedOwned == TypeOK /\ PoolInv => AnnouncedExists
<1> SUFFICES ASSUME TypeOK, PoolInv, NEW p \in Pod, podPhase[p] = "running", annotation[p] # NoResource
             PROVE  annotation[p][1] \in upstream
  BY DEF AnnouncedExists
<1>1. GroupOf(annotation[p]) \in Masked(upstream)
  <2>1. CASE pool = "up"
    <3>1. usedResources[p] = annotation[p] /\ p \in Used
      BY <2>1 DEF PoolInv, PodInv, isAnnotated, Used
    <3> QED
      BY <3>1 DEF PoolInv, StockInv, Whole, heldGroups, held, usedSet
  <2>2. CASE pool # "up"
    BY <2>2 DEF PoolInv, PodInv, isAnnotated, restored
  <2> QED
    BY <2>1, <2>2
<1>2. annotation[p] \in Proper
  BY DEF PoolInv, PodInv
<1> QED
  BY <1>1, <1>2, NameFacts

\* The two invariants exclude early reuse.
LEMMA ReusedLate == TypeOK /\ PoolInv /\ ReuseInv => NoEarlyReuse
<1> SUFFICES ASSUME TypeOK, PoolInv, ReuseInv, NEW p \in Pod, NEW q \in Pod, p # q,
                    annotation[p] # NoResource, usedResources[q] # NoResource,
                    SameAddress(annotation[p], usedResources[q])
             PROVE  stoppedFor[p] # NoTime /\ (stoppedFor[p] >= CoolDownPeriod \/ crashes > 0)
  BY DEF NoEarlyReuse
<1>1. q \in Used /\ usedResources[q] \in usedSet /\ usedResources[q] \in held
  BY DEF Used, usedSet, held
<1>2. annotation[p] = usedResources[q]
  <2>1. annotation[p] \in Proper /\ usedResources[q] \in Proper
    BY <1>1 DEF PoolInv, PodInv, StockInv, Whole
  <2> QED
    BY <2>1, SameName
<1>3. usedResources[p] # annotation[p]
  BY <1>1, <1>2 DEF PoolInv, StockInv, Apart, Used
<1>4. stoppedFor[p] # NoTime
  <2>1. pool = "up"
    BY <1>1 DEF PoolInv, DownInv
  <2>2. podPhase[p] \notin {"absent", "running"}
    BY <1>3, <2>1 DEF PoolInv, PodInv, isAnnotated
  <2> QED
    BY <2>2 DEF PoolInv, PodInv
<1>5. CASE crashes = 0
  <2>1. released(p, annotation[p])
    BY <1>3, <1>5 DEF ReuseInv
  <2>2. annotation[p] \notin coolingSet
    BY <1>1, <1>2 DEF PoolInv, StockInv, Apart
  <2> QED
    BY <1>4, <2>1, <2>2 DEF released, coolingSet
<1>6. CASE crashes # 0
  BY <1>4, <1>6 DEF TypeOK
<1> QED
  BY <1>5, <1>6

\* Whatever order the answers of jobs, failures and restarts come in, no address
\* is twice in the used, warm and cooling resources and the results of jobs.
THEOREM AddressesExclusive == ASSUME Contract PROVE Spec => []AddressExclusive
<1>1. outdated => AddressExclusive
  BY DEF AddressExclusive
<1> QED
  BY <1>1, PoolCorrect, OneHolder, PTL

\* What a running pod was told to use is assigned to its node, through every
\* deletion of free groups, re-sync and restart.
THEOREM AnnouncedAddressesExist == ASSUME Contract PROVE Spec => []AnnouncedExists
<1>1. outdated => AnnouncedExists
  BY DEF AnnouncedExists
<1> QED
  BY <1>1, PoolCorrect, AnnouncedOwned, PTL

\* The pending counters are exact, and the pool with what is pending never
\* outgrows the interface.
THEOREM PendingExact == ASSUME Contract PROVE Spec => []PendingAccounted
<1>1. PoolInv \/ outdated => PendingAccounted
  BY DEF PoolInv, CountInv, Accounted, PendingAccounted
<1> QED
  BY <1>1, PoolCorrect, PTL

\* An address announced to a pod goes to another one only after the first has
\* been stopped for the cool-down period, or at least stopped after a restart.
THEOREM NoAddressReusedEarly == ASSUME Contract PROVE Spec => []NoEarlyReuse
<1>1. Init => ReuseInv
  BY DEF Init, ReuseInv
<1>2. outdated => NoEarlyReuse
  BY DEF NoEarlyReuse
<1> QED
  BY <1>1, <1>2, PoolCorrect, OutdatedKept, ReuseNext, ReusedLate, PTL DEF Spec
=============================================================================
