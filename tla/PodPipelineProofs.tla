------------------------- MODULE PodPipelineProofs -------------------------
(***************************************************************************)
(* Theorems about PodPipeline: the interface in a pod's annotation is the  *)
(* one the trunk holds for it, for any number of incarnations of the pod,  *)
(* of interfaces, retries and failing calls.                               *)
(***************************************************************************)
EXTENDS PodPipeline, SequenceTheorems, TLAPS

Event == [type : {"Updated", "Deleted", "DeletedFinalStateUnknown"}, pod : Pod]

\* What a sequence holds.
elements(s) == {s[i] : i \in DOMAIN s}

-----------------------------------------------------------------------------
(***************************************************************************)
(* Queues and pods.                                                        *)
(***************************************************************************)

\* Appending adds one element, at the end.
LEMMA AppendFacts ==
  ASSUME NEW S, NEW s \in Seq(S), NEW e \in S
  PROVE  /\ Append(s, e) \in Seq(S) /\ Append(s, e) # << >>
         /\ elements(Append(s, e)) = elements(s) \cup {e}
         /\ DOMAIN s = 1 .. Len(s) /\ Len(s) \in Nat
         /\ DOMAIN Append(s, e) = 1 .. Len(s) + 1
         /\ \A i \in 1 .. Len(s) : Append(s, e)[i] = s[i]
         /\ Append(s, e)[Len(s) + 1] = e
<1>1. /\ Append(s, e) \in Seq(S) /\ Append(s, e) # << >> /\ Len(s) \in Nat /\ DOMAIN s = 1 .. Len(s)
      /\ Len(Append(s, e)) = Len(s) + 1
      /\ \A i \in 1 .. Len(s) : Append(s, e)[i] = s[i]
      /\ Append(s, e)[Len(s) + 1] = e
  BY AppendProperties, LenProperties
<1>2. DOMAIN Append(s, e) = 1 .. Len(s) + 1
  BY <1>1, LenProperties
<1>3. elements(Append(s, e)) = elements(s) \cup {e}
  <2>1. \A i \in 1 .. Len(s) + 1 : i \in 1 .. Len(s) \/ i = Len(s) + 1
    BY <1>1
  <2>2. \A i \in 1 .. Len(s) : i \in 1 .. Len(s) + 1
    BY <1>1
  <2>3. Len(s) + 1 \in 1 .. Len(s) + 1
    BY <1>1
  <2>4. ASSUME NEW x \in elements(Append(s, e)) PROVE x \in elements(s) \cup {e}
    BY <1>1, <1>2, <2>1, <2>4 DEF elements
  <2>5. ASSUME NEW x \in elements(s) PROVE x \in elements(Append(s, e))
    BY <1>1, <1>2, <2>2, <2>5 DEF elements
  <2>6. e \in elements(Append(s, e))
    BY <1>1, <1>2, <2>3 DEF elements
  <2> QED
    BY <2>4, <2>5, <2>6
<1> QED
  BY <1>1, <1>2, <1>3

\* Taking the head leaves the rest, one place further in front.
LEMMA TailFacts ==
  ASSUME NEW S, NEW s \in Seq(S), s # << >>
  PROVE  /\ Head(s) \in S /\ Head(s) = s[1] /\ 1 \in DOMAIN s /\ Head(s) \in elements(s)
         /\ Tail(s) \in Seq(S) /\ elements(Tail(s)) \subseteq elements(s)
         /\ \A i \in DOMAIN Tail(s) : i \in Nat \ {0} /\ i + 1 \in DOMAIN s /\ Tail(s)[i] = s[i + 1]
<1>1. /\ Len(s) \in Nat \ {0} /\ DOMAIN s = 1 .. Len(s) /\ Head(s) \in S /\ Head(s) = s[1]
      /\ Tail(s) \in Seq(S) /\ DOMAIN Tail(s) = 1 .. Len(s) - 1
      /\ \A i \in 1 .. Len(s) - 1 : Tail(s)[i] = s[i + 1]
  BY EmptySeq, LenProperties, HeadTailProperties
<1>2. \A i \in DOMAIN Tail(s) : i \in Nat \ {0} /\ i + 1 \in DOMAIN s /\ Tail(s)[i] = s[i + 1]
  BY <1>1
<1>3. 1 \in DOMAIN s
  BY <1>1
<1> QED
  BY <1>1, <1>2, <1>3 DEF elements

\* Dropping a prefix leaves no other element.
LEMMA DropFacts ==
  ASSUME NEW S, NEW s \in Seq(S), NEW n \in 1 .. Len(s)
  PROVE  /\ SubSeq(s, n + 1, Len(s)) \in Seq(S)
         /\ elements(SubSeq(s, n + 1, Len(s))) \subseteq elements(s)
<1> DEFINE t == SubSeq(s, n + 1, Len(s))
<1>1. Len(s) \in Nat /\ DOMAIN s = 1 .. Len(s) /\ \A i \in 1 .. Len(s) : s[i] \in S
  BY LenProperties, ElementOfSeq
<1>2. n + 1 \in Int /\ Len(s) \in Int /\ \A i \in n + 1 .. Len(s) : s[i] \in S
  BY <1>1
<1>3. /\ t \in Seq(S) /\ Len(t) = IF n + 1 <= Len(s) THEN Len(s) - (n + 1) + 1 ELSE 0
      /\ \A i \in 1 .. Len(s) - (n + 1) + 1 : t[i] = s[n + 1 + i - 1]
  BY <1>2, SubSeqProperties
<1> HIDE DEF t
<1>4. ASSUME NEW i \in DOMAIN t PROVE t[i] \in elements(s)
  <2>1. DOMAIN t = 1 .. Len(t)
    BY <1>3, LenProperties
  <2>2. n + 1 <= Len(s) /\ i \in 1 .. Len(s) - (n + 1) + 1
    <3>1. CASE n + 1 <= Len(s)
      BY <1>3, <2>1, <3>1
    <3>2. CASE ~(n + 1 <= Len(s))
      <4>1. DOMAIN t = 1 .. 0
        BY <1>3, <2>1, <3>2
      <4> QED
        BY <4>1
    <3> QED
      BY <3>1, <3>2
  <2>3. n + 1 + i - 1 \in 1 .. Len(s)
    BY <1>1, <2>2
  <2> QED
    BY <1>1, <1>3, <2>2, <2>3 DEF elements
<1>5. elements(t) \subseteq elements(s)
  BY <1>4 DEF elements
<1> QED
  BY <1>3, <1>5 DEF t

\* Sequences without and with one element.
LEMMA ShortFacts ==
  ASSUME NEW S
  PROVE  /\ << >> \in Seq(S) /\ elements(<< >>) = {} /\ DOMAIN << >> = {}
         /\ \A e \in S : <<e>> \in Seq(S) /\ elements(<<e>>) = {e} /\ <<e>> # << >>
<1>1. << >> \in Seq(S) /\ DOMAIN << >> = {}
  BY EmptySeq
<1>2. ASSUME NEW e \in S PROVE <<e>> \in Seq(S) /\ elements(<<e>>) = {e} /\ <<e>> # << >>
  <2>1. <<e>> \in Seq(S) /\ Len(<<e>>) = 1 /\ <<e>>[1] = e
    OBVIOUS
  <2>2. DOMAIN <<e>> = {1}
    OBVIOUS
  <2>3. <<e>> # << >>
    BY <1>1, <2>2
  <2> QED
    BY <2>1, <2>2, <2>3 DEF elements
<1> QED
  BY <1>1, <1>2 DEF elements

\* The fields of a pod; no pod has no UID and no annotation.
LEMMA PodFacts ==
  ASSUME NEW p \in Pod \cup {NoPod}
  PROVE  /\ p.uid \in UID \cup {None} /\ p.ann \in ENI \cup {None}
         /\ p.phase \in {"none", "unbound", "bound", "completed"} /\ p.request \in BOOLEAN
         /\ p # NoPod => p \in Pod /\ p.uid \in UID /\ p.phase # "none" /\ p.uid # None
         /\ p = NoPod => p.uid = None /\ p.ann = None /\ p.phase = "none"
<1>1. None \notin UID
  BY PipelineAssumption DEF None, UID
<1>2. CASE p = NoPod
  BY <1>2 DEF NoPod
<1>3. CASE p \in Pod
  <2>1. p.uid \in UID /\ p.ann \in ENI \cup {None} /\ p.phase \in {"unbound", "bound", "completed"} /\ p.request \in BOOLEAN
    BY <1>3 DEF Pod
  <2> QED
    BY <1>1, <1>3, <2>1 DEF NoPod
<1> QED
  BY <1>2, <1>3

\* A pod is not the absent one.
LEMMA IsPod == \A p \in Pod : p # NoPod /\ p.uid \in UID /\ p.phase # "none"
<1> SUFFICES ASSUME NEW p \in Pod PROVE p # NoPod /\ p.uid \in UID /\ p.phase # "none"
  OBVIOUS
<1>1. p.phase \in {"unbound", "bound", "completed"} /\ p.uid \in UID
  BY DEF Pod
<1> QED
  BY <1>1 DEF NoPod

-----------------------------------------------------------------------------
(***************************************************************************)
(* Which steps change what.                                                *)
(***************************************************************************)
LEMMA Frames ==
  ASSUME [Next]_vars
  PROVE  /\ UNCHANGED <<api, created>> \/ PodCreated \/ PodUpdated \/ PodDeleted \/ Patch
         /\ UNCHANGED node \/ NodeSeen \/ NodeRemoved
         /\ UNCHANGED watch \/ PodCreated \/ PodUpdated \/ PodDeleted \/ WatchGap \/ Process \/ ProcessFails \/ Patch
         /\ UNCHANGED queues \/ Process \/ Resync \/ Reconcile \/ ReconcileDeleted
         /\ UNCHANGED jobs \/ Reconcile \/ ReconcileDeleted \/ QueueAgain \/ RunCreateJob \/ DeleteBranchUsedByPods
         /\ UNCHANGED again \/ Reconcile \/ ReconcileDeleted \/ QueueAgain \/ GetPodFromAPIServer
              \/ CreateAndAssociateBranchENIs \/ AnnotatePod \/ Patch
         /\ UNCHANGED <<job, retries>> \/ RunCreateJob \/ GetPodFromAPIServer \/ CreateAndAssociateBranchENIs
              \/ addBranchToCache \/ AnnotatePod \/ Patch
         /\ UNCHANGED <<view, listed, trunk>> \/ AddNode \/ InitResource \/ InitTrunk \/ DeleteNode \/ removeTrunkFromCache
         /\ UNCHANGED branches \/ CreateAndAssociateBranchENIs \/ addBranchToCache \/ AnnotatePod \/ Patch
              \/ DeleteBranchUsedByPods \/ DeleteCooledDownENIs \/ ReconcileNode \/ InitTrunk \/ DeleteAllBranchENIs \/ removeTrunkFromCache
         /\ UNCHANGED failures \/ fails
         /\ UNCHANGED foreign \/ PodDeleted \/ Patch
         /\ UNCHANGED stolen \/ PodDeleted \/ addBranchToCache \/ ReconcileNode
<1>1. UNCHANGED <<api, created>> \/ PodCreated \/ PodUpdated \/ PodDeleted \/ Patch
  BY DEF Next, Environment, RunJob, NodeStep, WatchGap, NodeRemoved, Process, ProcessFails, Resync, Reconcile,
         ReconcileDeleted, QueueAgain, RunCreateJob, GetPodFromAPIServer, CreateAndAssociateBranchENIs, addBranchToCache,
         AnnotatePod, DeleteBranchUsedByPods, DeleteCooledDownENIs, ReconcileNode, NodeSeen, AddNode, InitResource,
         InitTrunk, DeleteNode, DeleteAllBranchENIs, removeTrunkFromCache, vars, cluster
<1>2. UNCHANGED node \/ NodeSeen \/ NodeRemoved
  BY DEF Next, Environment, RunJob, NodeStep, PodCreated, PodUpdated, PodDeleted, WatchGap, Process, ProcessFails, Resync,
         Reconcile, ReconcileDeleted, QueueAgain, RunCreateJob, GetPodFromAPIServer, CreateAndAssociateBranchENIs,
         addBranchToCache, AnnotatePod, Patch, DeleteBranchUsedByPods, DeleteCooledDownENIs, ReconcileNode, AddNode,
         InitResource, InitTrunk, DeleteNode, DeleteAllBranchENIs, removeTrunkFromCache, vars, cluster
<1>3. UNCHANGED watch \/ PodCreated \/ PodUpdated \/ PodDeleted \/ WatchGap \/ Process \/ ProcessFails \/ Patch
  BY DEF Next, Environment, RunJob, NodeStep, NodeRemoved, Resync, Reconcile, ReconcileDeleted, QueueAgain, RunCreateJob,
         GetPodFromAPIServer, CreateAndAssociateBranchENIs, addBranchToCache, AnnotatePod, DeleteBranchUsedByPods,
         DeleteCooledDownENIs, ReconcileNode, NodeSeen, AddNode, InitResource, InitTrunk, DeleteNode, DeleteAllBranchENIs, removeTrunkFromCache,
         vars
<1>4. UNCHANGED queues \/ Process \/ Resync \/ Reconcile \/ ReconcileDeleted
  BY DEF Next, Environment, RunJob, NodeStep, PodCreated, PodUpdated, PodDeleted, WatchGap, NodeRemoved, ProcessFails,
         QueueAgain, RunCreateJob, GetPodFromAPIServer, CreateAndAssociateBranchENIs, addBranchToCache, AnnotatePod, Patch,
         DeleteBranchUsedByPods, DeleteCooledDownENIs, ReconcileNode, NodeSeen, AddNode, InitResource, InitTrunk,
         DeleteNode, DeleteAllBranchENIs, removeTrunkFromCache, vars
<1>5. UNCHANGED jobs \/ Reconcile \/ ReconcileDeleted \/ QueueAgain \/ RunCreateJob \/ DeleteBranchUsedByPods
  BY DEF Next, Environment, RunJob, NodeStep, PodCreated, PodUpdated, PodDeleted, WatchGap, NodeRemoved, Process,
         ProcessFails, Resync, GetPodFromAPIServer, CreateAndAssociateBranchENIs, addBranchToCache, AnnotatePod, Patch,
         DeleteCooledDownENIs, ReconcileNode, NodeSeen, AddNode, InitResource, InitTrunk, DeleteNode, DeleteAllBranchENIs, removeTrunkFromCache,
         vars, work
<1>6. UNCHANGED again \/ Reconcile \/ ReconcileDeleted \/ QueueAgain \/ GetPodFromAPIServer
        \/ CreateAndAssociateBranchENIs \/ AnnotatePod \/ Patch
  BY DEF Next, Environment, RunJob, NodeStep, PodCreated, PodUpdated, PodDeleted, WatchGap, NodeRemoved, Process,
         ProcessFails, Resync, RunCreateJob, addBranchToCache, DeleteBranchUsedByPods, DeleteCooledDownENIs, ReconcileNode,
         NodeSeen, AddNode, InitResource, InitTrunk, DeleteNode, DeleteAllBranchENIs, removeTrunkFromCache, vars, work
<1>7. UNCHANGED <<job, retries>> \/ RunCreateJob \/ GetPodFromAPIServer \/ CreateAndAssociateBranchENIs
        \/ addBranchToCache \/ AnnotatePod \/ Patch
  BY DEF Next, Environment, RunJob, NodeStep, PodCreated, PodUpdated, PodDeleted, WatchGap, NodeRemoved, Process,
         ProcessFails, Resync, Reconcile, ReconcileDeleted, QueueAgain, DeleteBranchUsedByPods, DeleteCooledDownENIs,
         ReconcileNode, NodeSeen, AddNode, InitResource, InitTrunk, DeleteNode, DeleteAllBranchENIs, removeTrunkFromCache, vars, work
<1>8. UNCHANGED <<view, listed, trunk>> \/ AddNode \/ InitResource \/ InitTrunk \/ DeleteNode \/ removeTrunkFromCache
  BY DEF Next, Environment, RunJob, NodeStep, PodCreated, PodUpdated, PodDeleted, WatchGap, NodeRemoved, Process,
         ProcessFails, Resync, Reconcile, ReconcileDeleted, QueueAgain, RunCreateJob, GetPodFromAPIServer,
         CreateAndAssociateBranchENIs, addBranchToCache, AnnotatePod, Patch, DeleteBranchUsedByPods, DeleteCooledDownENIs,
         ReconcileNode, NodeSeen, DeleteAllBranchENIs, vars, provider
<1>9. UNCHANGED branches \/ CreateAndAssociateBranchENIs \/ addBranchToCache \/ AnnotatePod \/ Patch
        \/ DeleteBranchUsedByPods \/ DeleteCooledDownENIs \/ ReconcileNode \/ InitTrunk \/ DeleteAllBranchENIs \/ removeTrunkFromCache
  BY DEF Next, Environment, RunJob, NodeStep, PodCreated, PodUpdated, PodDeleted, WatchGap, NodeRemoved, Process,
         ProcessFails, Resync, Reconcile, ReconcileDeleted, QueueAgain, RunCreateJob, GetPodFromAPIServer, NodeSeen, AddNode,
         InitResource, DeleteNode, vars, provider
<1>10. UNCHANGED failures \/ fails
  BY DEF Next, Environment, RunJob, NodeStep, PodCreated, PodUpdated, PodDeleted, WatchGap, NodeRemoved, Process,
         ProcessFails, Resync, Reconcile, ReconcileDeleted, QueueAgain, RunCreateJob, GetPodFromAPIServer,
         CreateAndAssociateBranchENIs, addBranchToCache, AnnotatePod, Patch, DeleteBranchUsedByPods, DeleteCooledDownENIs,
         ReconcileNode, NodeSeen, AddNode, InitResource, InitTrunk, DeleteNode, DeleteAllBranchENIs, removeTrunkFromCache, vars
<1>11. UNCHANGED foreign \/ PodDeleted \/ Patch
  BY DEF Next, Environment, RunJob, NodeStep, PodCreated, PodUpdated, WatchGap, NodeRemoved, Process, ProcessFails, Resync,
         Reconcile, ReconcileDeleted, QueueAgain, RunCreateJob, GetPodFromAPIServer, CreateAndAssociateBranchENIs,
         addBranchToCache, AnnotatePod, DeleteBranchUsedByPods, DeleteCooledDownENIs, ReconcileNode, NodeSeen, AddNode,
         InitResource, InitTrunk, DeleteNode, DeleteAllBranchENIs, removeTrunkFromCache, vars, history
<1>12. UNCHANGED stolen \/ PodDeleted \/ addBranchToCache \/ ReconcileNode
  BY DEF Next, Environment, RunJob, NodeStep, PodCreated, PodUpdated, WatchGap, NodeRemoved, Process, ProcessFails, Resync,
         Reconcile, ReconcileDeleted, QueueAgain, RunCreateJob, GetPodFromAPIServer, CreateAndAssociateBranchENIs,
         AnnotatePod, Patch, DeleteBranchUsedByPods, DeleteCooledDownENIs, NodeSeen, AddNode, InitResource, InitTrunk,
         DeleteNode, DeleteAllBranchENIs, removeTrunkFromCache, vars, history
<1> QED
  BY <1>1, <1>2, <1>3, <1>4, <1>5, <1>6, <1>7, <1>8, <1>9, <1>10, <1>11, <1>12

-----------------------------------------------------------------------------
(***************************************************************************)
(* Type correctness.                                                       *)
(***************************************************************************)
ClusterType == api \in Pod \cup {NoPod} /\ created \in 0 .. MaxUID /\ node \in {"new", "known", "removed"}

WatchType == store \in Pod \cup {NoPod} /\ stream \in Seq(Event)

QueueType == byName \in BOOLEAN /\ deleted \in SUBSET UID

JobType ==
  /\ job \in [pc : {"idle", "fetch", "create", "cache", "annotate", "patch"}, uid : UID \cup {None}, eni : ENI \cup {None}]
  /\ job.pc \in {"cache", "annotate", "patch"} => job.eni # None
  /\ job.pc \notin {"cache", "annotate", "patch"} => job.eni = None

WorkType == jobs \in Seq({Create} \cup UID) /\ again \in BOOLEAN /\ retries \in 0 .. maxRetriesOnErr

NodeType == view \in {"unknown", "unmanaged", "initializing", "ready"} /\ trunk \in BOOLEAN /\ listed \in SUBSET Pod

BranchType ==
  uidToBranchENIMap \in [UID -> ENI \cup {None}] /\ deleteQueue \in SUBSET ENI /\ live \in SUBSET ENI

Types ==
  /\ ClusterType /\ WatchType /\ QueueType /\ JobType /\ WorkType /\ NodeType /\ BranchType
  /\ failures \in 0 .. MaxFailures /\ foreign \in SUBSET UID /\ stolen \in SUBSET UID

\* The parts are the module's type invariant.
LEMMA TypesImply == Types => TypeOK
<1> SUFFICES ASSUME Types PROVE TypeOK
  OBVIOUS
<1>1. (job.pc \in {"cache", "annotate", "patch"}) = (job.eni # None)
  <2>1. CASE job.pc \in {"cache", "annotate", "patch"}
    BY <2>1 DEF Types, JobType
  <2>2. CASE job.pc \notin {"cache", "annotate", "patch"}
    BY <2>2 DEF Types, JobType
  <2> QED
    BY <2>1, <2>2
<1>2. stream \in Seq([type : {"Updated", "Deleted", "DeletedFinalStateUnknown"}, pod : Pod])
  BY DEF Types, WatchType, Event
<1> QED
  BY <1>1, <1>2, Zenon DEF Types, ClusterType, WatchType, QueueType, JobType, WorkType, NodeType, BranchType, TypeOK

\* A job that ended, and the names of the interfaces, are typed.
LEMMA JobFacts ==
  ASSUME Types
  PROVE  /\ NoJob.pc = "idle" /\ NoJob.uid = None /\ NoJob.eni = None
         /\ NoJob \in [pc : {"idle", "fetch", "create", "cache", "annotate", "patch"}, uid : UID \cup {None},
                       eni : ENI \cup {None}]
         /\ None \notin UID /\ None \notin ENI
         /\ ENI \ remembered # {} => newENI \in ENI \ remembered
<1>1. None \notin UID /\ None \notin ENI
  BY PipelineAssumption DEF None, UID, ENI
<1>2. ENI \ remembered # {} => newENI \in ENI \ remembered
  BY Zenon DEF newENI
<1>3. /\ NoJob.pc = "idle" /\ NoJob.uid = None /\ NoJob.eni = None
      /\ NoJob \in [pc : {"idle", "fetch", "create", "cache", "annotate", "patch"}, uid : UID \cup {None},
                    eni : ENI \cup {None}]
  BY DEF NoJob
<1> QED
  BY <1>1, <1>2, <1>3

\* The pod at the API server.
LEMMA ClusterStepType ==
  ASSUME Types, [Next]_vars
  PROVE  ClusterType'
<1>0. ClusterType /\ JobType
  BY DEF Types
<1>1. node' \in {"new", "known", "removed"}
  BY <1>0, Frames DEF ClusterType, NodeSeen, NodeRemoved
<1>2. CASE UNCHANGED <<api, created>>
  BY <1>0, <1>1, <1>2 DEF ClusterType
<1>3. CASE PodCreated
  <2>1. PICK sgList \in SUBSET {"sg"}, ann \in ENI \cup {None} :
          api' = [uid |-> created + 1, phase |-> "unbound", request |-> HandleLinuxPod(sgList), ann |-> ann]
    BY <1>3 DEF PodCreated
  <2>2. HandleLinuxPod(sgList) \in BOOLEAN
    BY DEF HandleLinuxPod
  <2>3. created + 1 \in UID /\ created + 1 \in 0 .. MaxUID /\ created' = created + 1
    BY <1>0, <1>3, PipelineAssumption DEF PodCreated, ClusterType, UID
  <2>4. api' \in Pod
    BY <2>1, <2>2, <2>3 DEF Pod
  <2> QED
    BY <1>1, <2>3, <2>4 DEF ClusterType
<1>4. CASE PodUpdated
  <2>1. api \in Pod /\ UNCHANGED created
    <3>1. api.phase \in {"unbound", "bound"} /\ UNCHANGED created
      BY <1>4 DEF PodUpdated
    <3> QED
      BY <1>0, <3>1, PodFacts DEF ClusterType
  <2>2. PICK ann \in ENI \cup {None}, phase \in {"bound", "completed"} : api' = [api EXCEPT !.phase = phase, !.ann = ann]
    BY <1>4 DEF PodUpdated
  <2>3. api' \in Pod
    BY <2>1, <2>2 DEF Pod
  <2> QED
    BY <1>0, <1>1, <2>1, <2>3 DEF ClusterType
<1>5. CASE PodDeleted
  BY <1>0, <1>1, <1>5 DEF PodDeleted, ClusterType
<1>6. CASE Patch
  <2>1. UNCHANGED created /\ (UNCHANGED api \/ (api \in Pod /\ api' = [api EXCEPT !.ann = job.eni]))
    BY <1>0, <1>6 DEF Patch, ClusterType
  <2>2. job.eni \in ENI \cup {None}
    BY <1>0 DEF JobType
  <2>3. api' \in Pod \cup {NoPod}
    BY <1>0, <2>1, <2>2 DEF Pod, ClusterType
  <2> QED
    BY <1>0, <1>1, <2>1, <2>3 DEF ClusterType
<1> QED
  BY <1>2, <1>3, <1>4, <1>5, <1>6, Frames

\* What a step does to the watch's events: it drops some, it announces the pod as
\* it now is, or that it is gone.
LEMMA WatchSteps ==
  ASSUME Types, [Next]_vars
  PROVE  /\ stream' \in Seq(Event)
         /\ \/ UNCHANGED stream
            \/ (PodCreated \/ PodUpdated \/ Patch) /\ api' \in Pod /\ stream' # << >>
                 /\ elements(stream') = elements(stream) \cup {[type |-> "Updated", pod |-> api']}
            \/ PodDeleted /\ elements(stream') = elements(stream) \cup {[type |-> "Deleted", pod |-> api]} /\ api \in Pod
            \/ WatchGap /\ api \in Pod /\ elements(stream') = {[type |-> "Updated", pod |-> api]} /\ stream' # << >>
            \/ /\ WatchGap /\ api = NoPod /\ store \in Pod
               /\ elements(stream') = {[type |-> "DeletedFinalStateUnknown", pod |-> store]}
            \/ WatchGap /\ api = NoPod /\ store = NoPod /\ elements(stream') = {}
            \/ (Process \/ ProcessFails) /\ elements(stream') \subseteq elements(stream)
<1>0. ClusterType /\ WatchType /\ ClusterType'
  BY ClusterStepType DEF Types
<1>1. \A p \in Pod, t \in {"Updated", "Deleted", "DeletedFinalStateUnknown"} : [type |-> t, pod |-> p] \in Event
  BY DEF Event
<1>2. ASSUME NEW p \in Pod, NEW t \in {"Updated", "Deleted", "DeletedFinalStateUnknown"}, event(t, p)
      PROVE  stream' \in Seq(Event) /\ stream' # << >> /\ elements(stream') = elements(stream) \cup {[type |-> t, pod |-> p]}
  <2>1. stream' = Append(stream, [type |-> t, pod |-> p]) /\ [type |-> t, pod |-> p] \in Event /\ stream \in Seq(Event)
    BY <1>0, <1>1, <1>2 DEF event, WatchType
  <2> QED
    BY <2>1, AppendFacts
<1>3. CASE PodCreated \/ PodUpdated \/ (Patch /\ ~UNCHANGED stream)
  <2>1. event("Updated", api')
    BY <1>3 DEF PodCreated, PodUpdated, Patch
  <2>2. api' # NoPod
    <3>1. CASE PodCreated
      <4>1. api'.phase = "unbound"
        BY <3>1 DEF PodCreated
      <4> QED
        BY <4>1 DEF NoPod
    <3>2. CASE PodUpdated
      <4>1. api.phase \in {"unbound", "bound"}
        BY <3>2 DEF PodUpdated
      <4>2. api \in Pod
        BY <1>0, <4>1, PodFacts DEF ClusterType
      <4>3. api'.phase \in {"bound", "completed"}
        BY <3>2, <4>2 DEF PodUpdated, Pod
      <4> QED
        BY <4>3 DEF NoPod
    <3>3. CASE Patch /\ ~UNCHANGED stream
      <4>1. api \in Pod /\ api' = [api EXCEPT !.ann = job.eni]
        BY <1>0, <3>3 DEF Patch, ClusterType
      <4>2. api'.phase = api.phase /\ api.phase # "none"
        BY <4>1, PodFacts DEF Pod
      <4> QED
        BY <4>2 DEF NoPod
    <3> QED
      BY <1>3, <3>1, <3>2, <3>3
  <2>3. api' \in Pod
    BY <1>0, <2>2 DEF ClusterType
  <2> QED
    BY <1>2, <1>3, <2>1, <2>3
<1>4. CASE PodDeleted
  <2>1. api \in Pod /\ event("Deleted", api)
    BY <1>0, <1>4 DEF PodDeleted, ClusterType
  <2> QED
    BY <1>2, <1>4, <2>1
<1>5. CASE WatchGap
  <2>1. CASE api # NoPod
    <3>1. api \in Pod /\ stream' = <<[type |-> "Updated", pod |-> api]>>
      BY <1>0, <1>5, <2>1 DEF WatchGap, ClusterType
    <3>2. [type |-> "Updated", pod |-> api] \in Event
      BY <1>1, <3>1
    <3> QED
      BY <1>5, <3>1, <3>2, ShortFacts
  <2>2. CASE api = NoPod /\ store # NoPod
    <3>1. store \in Pod /\ stream' = <<[type |-> "DeletedFinalStateUnknown", pod |-> store]>>
      BY <1>0, <1>5, <2>2 DEF WatchGap, WatchType
    <3>2. [type |-> "DeletedFinalStateUnknown", pod |-> store] \in Event
      BY <1>1, <3>1
    <3> QED
      BY <1>5, <2>2, <3>1, <3>2, ShortFacts
  <2>3. CASE api = NoPod /\ store = NoPod
    <3>1. stream' = << >>
      BY <1>5, <2>3 DEF WatchGap
    <3> QED
      BY <1>5, <2>3, <3>1, ShortFacts
  <2> QED
    BY <2>1, <2>2, <2>3
<1>6. CASE Process
  <2>1. stream # << >> /\ stream' = Tail(stream) /\ stream \in Seq(Event)
    BY <1>0, <1>6 DEF Process, WatchType
  <2> QED
    BY <1>6, <2>1, TailFacts
<1>7. CASE ProcessFails
  <2>1. PICK n \in 1 .. Len(stream) : stream' = SubSeq(stream, n + 1, Len(stream))
    BY <1>7 DEF ProcessFails
  <2>2. stream \in Seq(Event)
    BY <1>0 DEF WatchType
  <2> QED
    BY <1>7, <2>1, <2>2, DropFacts
<1>8. CASE UNCHANGED stream
  BY <1>0, <1>8 DEF WatchType
<1> QED
  BY <1>3, <1>4, <1>5, <1>6, <1>7, <1>8, Frames DEF watch

\* The data store takes over what the watch says.
LEMMA StoreSteps ==
  ASSUME Types, [Next]_vars
  PROVE  \/ UNCHANGED store
         \/ \E e \in elements(stream) : /\ Process /\ e \in Event /\ e.type = "Updated" /\ store' = e.pod /\ store' \in Pod
                                        /\ UNCHANGED deleted
         \/ \E e \in elements(stream) : /\ Process /\ e \in Event /\ e.type = "Deleted" /\ store' = NoPod
                                        /\ deleted' \in {deleted, deleted \cup {e.pod.uid}}
<1>0. stream \in Seq(Event)
  BY DEF Types, WatchType
<1>1. CASE Process
  <2>1. stream # << >>
    BY <1>1 DEF Process
  <2>2. PICK e \in elements(stream) : e \in Event /\ e = Head(stream)
    BY <1>0, <2>1, TailFacts
  <2>3. e.pod \in Pod
    BY <2>2 DEF Event
  <2>4. \/ e.type = "Updated" /\ store' = e.pod /\ UNCHANGED deleted
        \/ e.type = "Deleted" /\ store' = NoPod /\ deleted' \in {deleted, deleted \cup {e.pod.uid}}
    BY <1>1, <2>2 DEF Process
  <2> QED
    BY <1>1, <2>2, <2>3, <2>4
<1>2. CASE ~Process
  BY <1>2, Frames DEF watch, PodCreated, PodUpdated, PodDeleted, WatchGap, ProcessFails, Patch
<1> QED
  BY <1>1, <1>2

\* The data store and the requests.
LEMMA WatchStepType ==
  ASSUME Types, [Next]_vars
  PROVE  WatchType' /\ QueueType'
<1>0. WatchType /\ QueueType
  BY DEF Types
<1>1. store' \in Pod \cup {NoPod}
  BY <1>0, StoreSteps DEF WatchType
<1>2. deleted' \in SUBSET UID
  <2>1. CASE Process
    <3>1. stream # << >> /\ stream \in Seq(Event)
      BY <1>0, <2>1 DEF Process, WatchType
    <3>2. Head(stream) \in Event
      BY <3>1, TailFacts
    <3>3. Head(stream).pod.uid \in UID
      BY <3>2 DEF Event, Pod
    <3>4. deleted' \in {deleted, deleted \cup {Head(stream).pod.uid}}
      BY <2>1 DEF Process
    <3> QED
      BY <1>0, <3>3, <3>4 DEF QueueType
  <2>2. CASE ~Process
    <3>1. deleted' \subseteq deleted
      BY <2>2, Frames DEF queues, Resync, Reconcile, ReconcileDeleted
    <3> QED
      BY <1>0, <3>1 DEF QueueType
  <2> QED
    BY <2>1, <2>2
<1>3. byName' \in BOOLEAN
  <2>1. byName' \in {TRUE, FALSE} \/ UNCHANGED byName
    BY Frames DEF queues, Process, Resync, Reconcile, ReconcileDeleted
  <2> QED
    BY <1>0, <2>1 DEF QueueType
<1> QED
  BY <1>1, <1>2, <1>3, WatchSteps DEF WatchType, QueueType

\* The create job.
LEMMA JobStepType ==
  ASSUME Types, [Next]_vars
  PROVE  JobType' /\ retries' \in 0 .. maxRetriesOnErr
<1>0. JobType /\ ClusterType /\ retries \in 0 .. maxRetriesOnErr /\ maxRetriesOnErr \in Nat
  BY PipelineAssumption DEF Types, WorkType
<1>1. jobFails => retries' \in 0 .. maxRetriesOnErr /\ job' = NoJob
  BY <1>0 DEF jobFails
<1>2. jobEnds => retries' \in 0 .. maxRetriesOnErr /\ job' = NoJob
  BY <1>0 DEF jobEnds
<1>3. CASE job' = NoJob /\ retries' \in 0 .. maxRetriesOnErr
  BY <1>3, JobFacts DEF JobType
<1>4. CASE UNCHANGED <<job, retries>>
  BY <1>0, <1>4 DEF JobType
<1>5. ASSUME NEW pc \in {"fetch", "create", "cache", "annotate", "patch"}, NEW uid \in UID \cup {None},
             NEW eni \in ENI \cup {None}, job' = [job EXCEPT !.pc = pc, !.uid = uid, !.eni = eni],
             UNCHANGED retries, (pc \in {"cache", "annotate", "patch"}) <=> (eni # None)
      PROVE  JobType' /\ retries' \in 0 .. maxRetriesOnErr
  <2>1. job'.pc = pc /\ job'.eni = eni
    BY <1>0, <1>5 DEF JobType
  <2>2. job' \in [pc : {"idle", "fetch", "create", "cache", "annotate", "patch"}, uid : UID \cup {None}, eni : ENI \cup {None}]
    BY <1>0, <1>5 DEF JobType
  <2> QED
    BY <1>0, <1>5, <2>1, <2>2 DEF JobType
<1>6. job.uid \in UID \cup {None} /\ job.eni \in ENI \cup {None}
      /\ \A pc : /\ [job EXCEPT !.pc = pc] = [job EXCEPT !.pc = pc, !.uid = job.uid, !.eni = job.eni]
                 /\ \A x : [job EXCEPT !.pc = pc, !.uid = x] = [job EXCEPT !.pc = pc, !.uid = x, !.eni = job.eni]
                 /\ \A x : [job EXCEPT !.pc = pc, !.eni = x] = [job EXCEPT !.pc = pc, !.uid = job.uid, !.eni = x]
  BY <1>0 DEF JobType
<1>7. CASE RunCreateJob
  <2>1. CASE UNCHANGED job /\ retries' = 0
    BY <1>0, <2>1 DEF JobType
  <2>2. CASE job' = [job EXCEPT !.pc = "fetch"] /\ UNCHANGED retries
    <3>1. job.eni = None
      BY <1>0, <1>7 DEF RunCreateJob, JobType
    <3>2. job' = [job EXCEPT !.pc = "fetch", !.uid = job.uid, !.eni = job.eni]
      BY <1>6, <2>2
    <3> QED
      BY <1>5, <1>6, <2>2, <3>1, <3>2
  <2> QED
    BY <1>7, <2>1, <2>2 DEF RunCreateJob
<1>8. CASE GetPodFromAPIServer
  <2>1. CASE job' = [job EXCEPT !.pc = "create", !.uid = api.uid] /\ UNCHANGED retries
    <3>1. job.eni = None /\ api.uid \in UID \cup {None}
      BY <1>0, <1>8, PodFacts DEF GetPodFromAPIServer, JobType, ClusterType
    <3>2. job' = [job EXCEPT !.pc = "create", !.uid = api.uid, !.eni = job.eni]
      BY <1>6, <2>1
    <3> QED
      BY <1>5, <1>6, <2>1, <3>1, <3>2
  <2>2. CASE jobEnds \/ jobFails
    BY <1>1, <1>2, <1>3, <2>2
  <2> QED
    BY <1>8, <2>1, <2>2 DEF GetPodFromAPIServer
<1>9. CASE CreateAndAssociateBranchENIs
  <2>1. CASE ENI \ remembered # {} /\ job' = [job EXCEPT !.pc = "cache", !.eni = newENI] /\ UNCHANGED retries
    <3>1. newENI \in ENI /\ newENI # None
      BY <2>1, JobFacts
    <3>2. job' = [job EXCEPT !.pc = "cache", !.uid = job.uid, !.eni = newENI]
      BY <1>6, <2>1
    <3> QED
      BY <1>5, <1>6, <2>1, <3>1, <3>2
  <2>2. CASE jobFails \/ (job' = NoJob /\ UNCHANGED retries)
    BY <1>0, <1>1, <1>3, <2>2
  <2> QED
    BY <1>9, <2>1, <2>2 DEF CreateAndAssociateBranchENIs
<1>10. CASE addBranchToCache
  <2>1. job.eni # None /\ job' = [job EXCEPT !.pc = "annotate"] /\ UNCHANGED retries
    BY <1>0, <1>10 DEF addBranchToCache, JobType
  <2>2. job' = [job EXCEPT !.pc = "annotate", !.uid = job.uid, !.eni = job.eni]
    BY <1>6, <2>1
  <2> QED
    BY <1>5, <1>6, <2>1, <2>2
<1>11. CASE AnnotatePod
  <2>1. CASE job' = [job EXCEPT !.pc = "patch"] /\ UNCHANGED retries
    <3>1. job.eni # None
      BY <1>0, <1>11 DEF AnnotatePod, JobType
    <3>2. job' = [job EXCEPT !.pc = "patch", !.uid = job.uid, !.eni = job.eni]
      BY <1>6, <2>1
    <3> QED
      BY <1>5, <1>6, <2>1, <3>1, <3>2
  <2>2. CASE jobEnds \/ jobFails
    BY <1>1, <1>2, <1>3, <2>2
  <2> QED
    BY <1>11, <2>1, <2>2 DEF AnnotatePod
<1>12. CASE Patch
  BY <1>1, <1>2, <1>3, <1>12 DEF Patch
<1> QED
  BY <1>4, <1>7, <1>8, <1>9, <1>10, <1>11, <1>12, Frames

\* What a step does to the queue of jobs.
LEMMA QueueSteps ==
  ASSUME Types, [Next]_vars
  PROVE  /\ jobs' \in Seq({Create} \cup UID)
         /\ \/ UNCHANGED jobs
            \/ jobs # << >> /\ jobs' = Tail(jobs) /\ (Head(jobs) = Create => RunCreateJob)
                 /\ (Head(jobs) # Create => DeleteBranchUsedByPods)
            \/ /\ jobs' = Append(jobs, Create)
               /\ QueueAgain \/ (Reconcile /\ nodeExists /\ job.pc = "idle")
            \/ /\ jobs' = Append(jobs, store.uid) /\ store \in Pod
               /\ Reconcile /\ (store.phase = "completed" \/ ~nodeExists)
            \/ \E u \in deleted : jobs' = Append(jobs, u) /\ ReconcileDeleted
<1>0. WorkType /\ WatchType /\ QueueType /\ Create \notin UID
  BY JobFacts DEF Types, Create, None
<1>1. ASSUME NEW j \in {Create} \cup UID, submit(j) PROVE UNCHANGED jobs \/ jobs' = Append(jobs, j)
  BY <1>1 DEF submit
<1>2. ASSUME NEW j \in {Create} \cup UID, jobs' = Append(jobs, j) PROVE jobs' \in Seq({Create} \cup UID)
  BY <1>0, <1>2, AppendFacts DEF WorkType
<1>3. CASE Reconcile
  <2>1. CASE UNCHANGED jobs
    BY <1>0, <2>1 DEF WorkType
  <2>2. CASE ~ignored /\ (store.phase = "completed" \/ ~nodeExists) /\ HandleDelete(store.uid)
    <3>1. store \in Pod /\ store.uid \in UID
      BY <1>0, <2>2, PodFacts DEF ignored, WatchType
    <3>2. UNCHANGED jobs \/ jobs' = Append(jobs, store.uid)
      BY <1>1, <2>2, <3>1 DEF HandleDelete
    <3> QED
      BY <1>2, <1>3, <2>1, <2>2, <3>1, <3>2
  <2>3. CASE nodeExists /\ HandleCreate
    <3>1. UNCHANGED jobs \/ (jobs' = Append(jobs, Create) /\ job.pc = "idle")
      BY <2>3 DEF HandleCreate, submit
    <3> QED
      BY <1>2, <1>3, <2>1, <2>3, <3>1
  <2> QED
    BY <1>3, <2>1, <2>2, <2>3 DEF Reconcile
<1>4. CASE ReconcileDeleted
  <2>1. PICK u \in deleted : UNCHANGED jobs \/ HandleDelete(u)
    BY <1>4 DEF ReconcileDeleted
  <2>2. u \in UID /\ (UNCHANGED jobs \/ jobs' = Append(jobs, u))
    BY <1>0, <1>1, <2>1 DEF HandleDelete, QueueType
  <2> QED
    BY <1>0, <1>2, <1>4, <2>2 DEF WorkType
<1>5. CASE QueueAgain
  <2>1. UNCHANGED jobs \/ jobs' = Append(jobs, Create)
    BY <1>5 DEF QueueAgain
  <2> QED
    BY <1>0, <1>2, <1>5, <2>1 DEF WorkType
<1>6. CASE RunCreateJob \/ DeleteBranchUsedByPods
  <2>1. /\ jobs # << >> /\ jobs' = Tail(jobs) /\ jobs \in Seq({Create} \cup UID)
        /\ (Head(jobs) = Create => RunCreateJob) /\ (Head(jobs) # Create => DeleteBranchUsedByPods)
    BY <1>0, <1>6 DEF RunCreateJob, DeleteBranchUsedByPods, WorkType
  <2> QED
    BY <2>1, TailFacts
<1>7. CASE UNCHANGED jobs
  BY <1>0, <1>7 DEF WorkType
<1> QED
  BY <1>3, <1>4, <1>5, <1>6, <1>7, Frames

\* The job is queued again only after it ran, or while it runs.
LEMMA AgainSteps ==
  ASSUME Types, [Next]_vars
  PROVE  again' \in BOOLEAN /\ (again' => again \/ job.pc # "idle")
<1>0. again \in BOOLEAN
  BY DEF Types, WorkType
<1>1. again' \in {again, TRUE, FALSE}
  BY Frames DEF Reconcile, ReconcileDeleted, QueueAgain, GetPodFromAPIServer, CreateAndAssociateBranchENIs, AnnotatePod,
                Patch, HandleCreate, HandleDelete, submit, jobFails, jobEnds
<1>2. ASSUME again', ~again PROVE job.pc # "idle"
  BY <1>2, Frames DEF Reconcile, ReconcileDeleted, QueueAgain, GetPodFromAPIServer, CreateAndAssociateBranchENIs,
                      AnnotatePod, Patch, HandleCreate, HandleDelete, submit
<1> QED
  BY <1>0, <1>1, <1>2

\* The node and the pods InitTrunk lists.
LEMMA NodeStepType ==
  ASSUME Types, [Next]_vars
  PROVE  NodeType'
<1>0. NodeType /\ WatchType
  BY DEF Types
<1>1. view' \in {"unknown", "unmanaged", "initializing", "ready"}
  BY <1>0, Frames DEF NodeType, AddNode, InitResource, InitTrunk, DeleteNode, DeleteAllBranchENIs, removeTrunkFromCache, Node!Add, Node!Select,
                      Node!BecomeReady, Node!Forget, Node!Unknown, Node!Unmanaged, Node!Initializing, Node!Ready
<1>2. trunk' \in BOOLEAN
  <2>1. trunk' \in {TRUE, FALSE} \/ UNCHANGED trunk
    BY Frames DEF AddNode, InitResource, InitTrunk, DeleteNode, DeleteAllBranchENIs, removeTrunkFromCache
  <2> QED
    BY <1>0, <2>1 DEF NodeType
<1>3. listed' \in SUBSET Pod
  <2>1. listed' = {} \/ UNCHANGED listed \/ (listed' = {store} /\ store # NoPod)
    BY Frames DEF AddNode, InitResource, InitTrunk, DeleteNode, DeleteAllBranchENIs, removeTrunkFromCache
  <2> QED
    BY <1>0, <2>1 DEF NodeType, WatchType
<1> QED
  BY <1>1, <1>2, <1>3 DEF NodeType

\* What InitTrunk makes of the listed pods.
LEMMA InitTrunkMap ==
  ASSUME Types, InitTrunk, NEW u \in UID
  PROVE  \/ uidToBranchENIMap'[u] = None /\ \A p \in listed : p.uid = u => p.ann \notin live
         \/ \E p, q \in listed : p.uid = u /\ uidToBranchENIMap'[u] = p.ann /\ q.uid = u /\ q.ann \in live
<1>1. uidToBranchENIMap'[u] =
        IF \E p \in listed : p.uid = u /\ p.ann \in live THEN (CHOOSE p \in listed : p.uid = u).ann ELSE None
  BY DEF InitTrunk
<1>2. CASE \E p \in listed : p.uid = u /\ p.ann \in live
  <2> DEFINE q == CHOOSE p \in listed : p.uid = u
  <2>1. q \in listed /\ q.uid = u
    BY <1>2
  <2>2. uidToBranchENIMap'[u] = q.ann
    BY <1>1, <1>2
  <2> QED
    BY <1>2, <2>1, <2>2
<1>3. CASE ~ \E p \in listed : p.uid = u /\ p.ann \in live
  BY <1>1, <1>3
<1> QED
  BY <1>2, <1>3

\* The trunk's cache, its delete queue and the interfaces that exist.
LEMMA BranchStepType ==
  ASSUME Types, [Next]_vars
  PROVE  BranchType'
<1>0. BranchType /\ JobType /\ NodeType /\ WorkType
  BY DEF Types
<1>1. CASE UNCHANGED branches
  BY <1>0, <1>1 DEF BranchType, branches
<1>2. ASSUME NEW uids \in SUBSET UID, toDeleteQueue(uids), UNCHANGED live PROVE BranchType'
  <2>1. deleteQueue' \in SUBSET ENI
    BY <1>0, <1>2 DEF toDeleteQueue, BranchType
  <2>2. uidToBranchENIMap' \in [UID -> ENI \cup {None}]
    BY <1>0, <1>2 DEF toDeleteQueue, BranchType
  <2> QED
    BY <1>0, <1>2, <2>1, <2>2 DEF BranchType
<1>3. ASSUME PushENIsToFrontOfDeleteQueue, job.eni # None PROVE BranchType'
  <2>1. job.eni \in ENI
    BY <1>0, <1>3 DEF JobType
  <2>2. uidToBranchENIMap' \in [UID -> ENI \cup {None}]
    BY <1>0, <1>3 DEF PushENIsToFrontOfDeleteQueue, BranchType
  <2> QED
    BY <1>0, <1>3, <2>1, <2>2 DEF PushENIsToFrontOfDeleteQueue, BranchType
<1>4. CASE CreateAndAssociateBranchENIs
  <2>1. UNCHANGED <<uidToBranchENIMap, deleteQueue>>
        /\ (UNCHANGED live \/ (ENI \ remembered # {} /\ live' = live \cup {newENI}))
    BY <1>4 DEF CreateAndAssociateBranchENIs
  <2> QED
    BY <1>0, <2>1, JobFacts DEF BranchType
<1>5. CASE addBranchToCache
  <2>1. uidToBranchENIMap' = [uidToBranchENIMap EXCEPT ![job.uid] = job.eni] /\ UNCHANGED <<deleteQueue, live>>
    BY <1>5 DEF addBranchToCache
  <2>2. job.eni \in ENI \cup {None}
    BY <1>0 DEF JobType
  <2>3. uidToBranchENIMap' \in [UID -> ENI \cup {None}]
    BY <1>0, <2>1, <2>2 DEF BranchType
  <2> QED
    BY <1>0, <2>1, <2>3 DEF BranchType
<1>6. CASE AnnotatePod \/ Patch
  <2>1. job.eni # None
    BY <1>0, <1>6 DEF AnnotatePod, Patch, JobType
  <2>2. UNCHANGED branches \/ PushENIsToFrontOfDeleteQueue
    BY <1>6 DEF AnnotatePod, Patch
  <2> QED
    BY <1>1, <1>3, <2>1, <2>2
<1>7. CASE DeleteBranchUsedByPods
  <2>1. CASE UNCHANGED branches
    BY <1>1, <2>1
  <2>2. CASE toDeleteQueue({Head(jobs)}) /\ UNCHANGED live
    <3>1. jobs # << >> /\ Head(jobs) # Create /\ jobs \in Seq({Create} \cup UID)
      BY <1>0, <1>7 DEF DeleteBranchUsedByPods, WorkType
    <3>2. Head(jobs) \in UID
      BY <3>1, TailFacts
    <3> QED
      BY <1>2, <2>2, <3>2
  <2> QED
    BY <1>7, <2>1, <2>2 DEF DeleteBranchUsedByPods, branches
<1>8. CASE DeleteCooledDownENIs
  <2>1. deleteQueue' \subseteq deleteQueue /\ live' \subseteq live /\ UNCHANGED uidToBranchENIMap
    BY <1>8 DEF DeleteCooledDownENIs
  <2> QED
    BY <1>0, <2>1 DEF BranchType
<1>9. CASE ReconcileNode
  <2>1. leaked \in SUBSET UID
    BY DEF leaked
  <2> QED
    BY <1>2, <1>9, <2>1 DEF ReconcileNode
<1>10. CASE InitTrunk
  <2>1. deleteQueue' \in SUBSET ENI /\ live' \in SUBSET ENI
    BY <1>0, <1>10 DEF InitTrunk, BranchType
  <2>2. \A p \in listed : p.ann \in ENI \cup {None}
    BY <1>0 DEF NodeType, Pod
  <2>3. \A u \in UID : uidToBranchENIMap'[u] \in ENI \cup {None}
    BY <1>10, <2>2, InitTrunkMap
  <2>4. uidToBranchENIMap' = [u \in UID |-> uidToBranchENIMap'[u]]
    BY <1>10 DEF InitTrunk
  <2>5. uidToBranchENIMap' \in [UID -> ENI \cup {None}]
    BY <2>3, <2>4
  <2> QED
    BY <2>1, <2>5 DEF BranchType
<1>11. CASE DeleteAllBranchENIs
  <2>1. live' \subseteq live /\ UNCHANGED <<uidToBranchENIMap, deleteQueue>>
    BY <1>11 DEF DeleteAllBranchENIs
  <2> QED
    BY <1>0, <2>1 DEF BranchType
<1>12. CASE removeTrunkFromCache
  <2>1. UNCHANGED live /\ deleteQueue' = {}
    BY <1>12 DEF removeTrunkFromCache
  <2>2. uidToBranchENIMap' \in [UID -> ENI \cup {None}]
    BY <1>12 DEF removeTrunkFromCache
  <2> QED
    BY <1>0, <2>1, <2>2 DEF BranchType
<1> QED
  BY <1>1, <1>4, <1>5, <1>6, <1>7, <1>8, <1>9, <1>10, <1>11, <1>12, Frames

\* The states the controller starts in are typed.
LEMMA InitTypes == Init => Types
<1> SUFFICES ASSUME Init PROVE Types
  OBVIOUS
<1>0. 1 \in UID /\ 1 \in ENI /\ MaxUID \in Nat /\ MaxFailures \in Nat /\ maxRetriesOnErr \in Nat
  BY PipelineAssumption DEF UID, ENI
<1>1. live \in SUBSET ENI
  BY <1>0 DEF Init
<1>2. api \in Pod \cup {NoPod}
  BY <1>0, <1>1 DEF Init, Pod
<1>3. created \in 0 .. MaxUID
  <2>1. api.uid \in UID \cup {None}
    BY <1>2, PodFacts
  <2> QED
    BY <1>0, <2>1 DEF Init, UID, None
<1>4. ClusterType
  BY <1>2, <1>3 DEF Init, ClusterType
<1>5. WatchType
  BY <1>2, ShortFacts DEF Init, WatchType
<1>6. QueueType
  <2>1. byName \in BOOLEAN
    BY DEF Init
  <2> QED
    BY <2>1 DEF Init, QueueType
<1>7. JobType
  <2>1. /\ NoJob.pc = "idle" /\ NoJob.uid = None /\ NoJob.eni = None
        /\ NoJob \in [pc : {"idle", "fetch", "create", "cache", "annotate", "patch"}, uid : UID \cup {None},
                      eni : ENI \cup {None}]
    BY DEF NoJob
  <2> QED
    BY <2>1 DEF Init, JobType
<1>8. WorkType
  <2>1. jobs \in Seq({Create} \cup UID)
    BY ShortFacts DEF Init
  <2> QED
    <3>1. retries \in 0 .. maxRetriesOnErr
      BY <1>0 DEF Init
    <3>2. again \in BOOLEAN
      BY DEF Init
    <3> QED
      BY <2>1, <3>1, <3>2 DEF WorkType
<1>9. NodeType
  BY DEF Init, NodeType, Node!Unknown
<1>10. BranchType
  BY <1>1 DEF Init, BranchType
<1> QED
  BY <1>0, <1>4, <1>5, <1>6, <1>7, <1>8, <1>9, <1>10 DEF Types, Init

\* The types hold in every reachable state.
LEMMA TypesInvariant == Spec => []Types
<1>1. ASSUME Types, [Next]_vars PROVE Types'
  <2>1. failures' \in 0 .. MaxFailures
    BY <1>1, Frames, PipelineAssumption DEF Types, fails
  <2>2. WorkType'
    BY <1>1, JobStepType, QueueSteps, AgainSteps DEF WorkType
  <2>3. foreign' \in SUBSET UID
    <3>1. api.uid \in UID \/ api = NoPod
      BY <1>1, PodFacts DEF Types, ClusterType
    <3>2. UNCHANGED foreign \/ foreign' = {} \/ (api # NoPod /\ foreign' = foreign \cup {api.uid})
      BY <1>1, Frames DEF PodDeleted, Patch
    <3> QED
      BY <1>1, <3>1, <3>2 DEF Types
  <2>4. stolen' \in SUBSET UID
    <3>1. stolen' \subseteq stolen \cup leaked
      BY <1>1, Frames DEF PodDeleted, addBranchToCache, ReconcileNode
    <3> QED
      BY <1>1, <3>1 DEF Types, leaked
  <2> QED
    BY <1>1, <2>1, <2>2, <2>3, <2>4, ClusterStepType, WatchStepType, JobStepType, NodeStepType, BranchStepType DEF Types
<1> QED
  BY <1>1, InitTypes, PTL DEF Spec

\* Pods, requests, jobs and interfaces keep their types under any faults: a job
\* has an interface exactly from EC2's answer to the end of the annotation, and is
\* retried within the limit.
THEOREM TypeCorrect == Spec => []TypeOK
<1> QED
  BY TypesInvariant, TypesImply, PTL

-----------------------------------------------------------------------------
(***************************************************************************)
(* What the steps do, in the terms of the invariants below.                *)
(***************************************************************************)

\* The pod at the API server is created anew, updated by others, deleted, or
\* annotated by the job that patches it.
LEMMA PodSteps ==
  ASSUME Types, [Next]_vars
  PROVE  /\ UNCHANGED <<api, created>> \/ PodCreated \/ PodUpdated \/ PodDeleted \/ (Patch /\ ~UNCHANGED api)
         /\ PodCreated => /\ api = NoPod /\ created' = created + 1 /\ api' \in Pod
                          /\ api'.uid = created + 1 /\ api'.ann = None /\ api'.phase = "unbound"
         /\ PodUpdated => /\ api \in Pod /\ api' \in Pod /\ UNCHANGED created
                          /\ api'.uid = api.uid /\ api'.ann = api.ann /\ api.phase # "completed"
         /\ PodDeleted => api \in Pod /\ api' = NoPod /\ UNCHANGED created
         /\ Patch /\ ~UNCHANGED api =>
              /\ api \in Pod /\ api' \in Pod /\ UNCHANGED created
              /\ api'.uid = api.uid /\ api'.ann = job.eni /\ api'.phase = api.phase
              /\ job' = NoJob /\ UNCHANGED branches
<1>0. ClusterType /\ ClusterType' /\ JobType
  BY ClusterStepType DEF Types
<1>1. ASSUME PodCreated
      PROVE  /\ api = NoPod /\ created' = created + 1 /\ api' \in Pod
             /\ api'.uid = created + 1 /\ api'.ann = None /\ api'.phase = "unbound"
  <2>1. PICK sgList \in SUBSET {"sg"}, ann \in ENI \cup {None} :
          /\ ann = None
          /\ api' = [uid |-> created + 1, phase |-> "unbound", request |-> HandleLinuxPod(sgList), ann |-> ann]
    BY <1>1 DEF PodCreated, handleCreate
  <2>2. api'.uid = created + 1 /\ api'.ann = None /\ api'.phase = "unbound"
    BY <2>1
  <2>3. api' \in Pod
    BY <1>0, <2>2, PodFacts DEF ClusterType
  <2> QED
    BY <1>1, <2>2, <2>3 DEF PodCreated
<1>2. ASSUME PodUpdated
      PROVE  /\ api \in Pod /\ api' \in Pod /\ UNCHANGED created
             /\ api'.uid = api.uid /\ api'.ann = api.ann /\ api.phase # "completed"
  <2>1. api.phase \in {"unbound", "bound"} /\ UNCHANGED created
    BY <1>2 DEF PodUpdated
  <2>2. api \in Pod
    BY <1>0, <2>1, PodFacts DEF ClusterType
  <2>3. PICK ann \in ENI \cup {None}, phase \in {"bound", "completed"} :
          ann = api.ann /\ api' = [api EXCEPT !.phase = phase, !.ann = ann]
    BY <1>2 DEF PodUpdated, handleUpdate
  <2>4. api'.uid = api.uid /\ api'.ann = api.ann /\ api'.phase = phase
    BY <2>2, <2>3 DEF Pod
  <2>5. api' \in Pod
    BY <1>0, <2>4, PodFacts DEF ClusterType
  <2> QED
    BY <1>2, <2>1, <2>2, <2>4, <2>5
<1>3. PodDeleted => api \in Pod /\ api' = NoPod /\ UNCHANGED created
  BY <1>0 DEF PodDeleted, ClusterType
<1>4. ASSUME Patch, ~UNCHANGED api
      PROVE  /\ api \in Pod /\ api' \in Pod /\ UNCHANGED created
             /\ api'.uid = api.uid /\ api'.ann = job.eni /\ api'.phase = api.phase
             /\ job' = NoJob /\ UNCHANGED branches
  <2>1. api \in Pod /\ api' = [api EXCEPT !.ann = job.eni] /\ UNCHANGED created /\ jobEnds /\ UNCHANGED branches
    BY <1>0, <1>4 DEF Patch, ClusterType
  <2>2. api'.uid = api.uid /\ api'.ann = job.eni /\ api'.phase = api.phase
    BY <2>1 DEF Pod
  <2>3. api' \in Pod
    BY <1>0, <2>1, <2>2, PodFacts DEF ClusterType
  <2> QED
    BY <1>4, <2>1, <2>2, <2>3 DEF jobEnds
<1>5. Patch => UNCHANGED created
  BY DEF Patch
<1> QED
  BY <1>1, <1>2, <1>3, <1>4, <1>5, Frames

\* The create job goes from step to step, or ends.
LEMMA JobSteps ==
  ASSUME Types, [Next]_vars
  PROVE  \/ UNCHANGED job
         \/ job' = NoJob
         \/ RunCreateJob /\ job'.pc = "fetch"
         \/ /\ GetPodFromAPIServer /\ job'.pc = "create" /\ job'.uid = api.uid /\ api # NoPod /\ api.ann = None
         \/ /\ CreateAndAssociateBranchENIs /\ job.pc = "create" /\ job'.pc = "cache" /\ job'.uid = job.uid
            /\ job'.eni = newENI /\ newENI \in ENI \ remembered /\ trunk
            /\ live' = live \cup {newENI} /\ UNCHANGED <<uidToBranchENIMap, deleteQueue>>
         \/ /\ addBranchToCache /\ job.pc = "cache" /\ job'.pc = "annotate" /\ job'.uid = job.uid /\ job'.eni = job.eni
         \/ /\ AnnotatePod /\ job.pc = "annotate" /\ job'.pc = "patch" /\ job'.uid = job.uid /\ job'.eni = job.eni
            /\ store # NoPod /\ store.uid = job.uid /\ UNCHANGED branches
<1>0. job \in [pc : {"idle", "fetch", "create", "cache", "annotate", "patch"}, uid : UID \cup {None}, eni : ENI \cup {None}]
  BY DEF Types, JobType
<1>1. CASE RunCreateJob
  BY <1>0, <1>1 DEF RunCreateJob
<1>2. CASE GetPodFromAPIServer
  <2>1. CASE job' = [job EXCEPT !.pc = "create", !.uid = api.uid] /\ api # NoPod /\ api.ann = None
    BY <1>0, <1>2, <2>1
  <2> QED
    BY <1>2, <2>1 DEF GetPodFromAPIServer, jobEnds, jobFails
<1>3. CASE CreateAndAssociateBranchENIs
  <2>1. CASE /\ trunk /\ ENI \ remembered # {} /\ job' = [job EXCEPT !.pc = "cache", !.eni = newENI]
             /\ live' = live \cup {newENI}
    <3>1. job'.pc = "cache" /\ job'.uid = job.uid /\ job'.eni = newENI
      BY <1>0, <2>1
    <3>2. newENI \in ENI \ remembered
      BY <2>1, JobFacts
    <3>3. job.pc = "create" /\ UNCHANGED <<uidToBranchENIMap, deleteQueue>>
      BY <1>3 DEF CreateAndAssociateBranchENIs
    <3> QED
      BY <1>3, <2>1, <3>1, <3>2, <3>3
  <2> QED
    BY <1>3, <2>1 DEF CreateAndAssociateBranchENIs, jobFails
<1>4. CASE addBranchToCache
  <2>1. job.pc = "cache" /\ job' = [job EXCEPT !.pc = "annotate"]
    BY <1>4 DEF addBranchToCache
  <2> QED
    BY <1>0, <1>4, <2>1
<1>5. CASE AnnotatePod
  <2>1. CASE store # NoPod /\ store.uid = job.uid /\ job' = [job EXCEPT !.pc = "patch"] /\ UNCHANGED branches
    <3>1. job.pc = "annotate" /\ job'.pc = "patch" /\ job'.uid = job.uid /\ job'.eni = job.eni
      BY <1>0, <1>5, <2>1 DEF AnnotatePod
    <3> QED
      BY <1>5, <2>1, <3>1
  <2> QED
    BY <1>5, <2>1 DEF AnnotatePod, jobEnds, jobFails
<1>6. CASE Patch
  BY <1>6 DEF Patch, jobEnds, jobFails
<1> QED
  BY <1>1, <1>2, <1>3, <1>4, <1>5, <1>6, Frames

\* Interfaces are made, cached and taken back.  A job whose annotation fails takes
\* its own interface back.
LEMMA BranchSteps ==
  ASSUME Types, [Next]_vars
  PROVE  \/ UNCHANGED branches
         \/ CreateAndAssociateBranchENIs
         \/ addBranchToCache
         \/ /\ PushENIsToFrontOfDeleteQueue /\ job' = NoJob /\ job.pc = "annotate" /\ (store = NoPod \/ store.uid # job.uid)
            /\ UNCHANGED api
         \/ PushENIsToFrontOfDeleteQueue /\ job' = NoJob /\ job.pc = "patch" /\ UNCHANGED api
         \/ /\ DeleteBranchUsedByPods /\ trunk /\ jobs # << >> /\ Head(jobs) \in UID /\ toDeleteQueue({Head(jobs)})
            /\ UNCHANGED live
         \/ /\ ReconcileNode /\ trunk /\ leaked \subseteq UID /\ toDeleteQueue(leaked) /\ UNCHANGED live
         \/ DeleteCooledDownENIs
         \/ InitTrunk
         \/ DeleteAllBranchENIs
         \/ removeTrunkFromCache
<1>1. CASE AnnotatePod
  BY <1>1 DEF AnnotatePod, jobEnds, jobFails, cluster
<1>2. CASE Patch
  BY <1>2 DEF Patch, jobEnds, jobFails
<1>3. CASE DeleteBranchUsedByPods
  <2>1. jobs # << >> /\ Head(jobs) # Create /\ jobs \in Seq({Create} \cup UID) /\ UNCHANGED live
    BY <1>3 DEF DeleteBranchUsedByPods, Types, WorkType
  <2>2. Head(jobs) \in UID
    BY <2>1, TailFacts
  <2> QED
    BY <1>3, <2>1, <2>2 DEF DeleteBranchUsedByPods, branches
<1>4. CASE ReconcileNode
  BY <1>4 DEF ReconcileNode, leaked
<1> QED
  BY <1>1, <1>2, <1>3, <1>4, Frames

-----------------------------------------------------------------------------
(***************************************************************************)
(* The incarnations.  The API server has the latest one; the watch and the *)
(* data store may have earlier ones, and of the latest they never say more *)
(* than is true: that it is gone, or that it has completed.                *)
(***************************************************************************)
running == api # NoPod /\ api.phase # "completed"

PodInv ==
  /\ api # NoPod => api.uid = created
  /\ store # NoPod => store.uid <= created
  /\ \A e \in elements(stream) :
       e.pod.uid <= created /\ (e.type # "Updated" => e.pod.uid < created \/ api = NoPod)
  /\ running => /\ store.uid = created => store.phase # "completed"
                /\ \A e \in elements(stream) : e.pod.uid = created => e.pod.phase # "completed"

JobOf == job.pc \in {"create", "cache", "annotate", "patch"} => job.uid \in 1 .. created

\* Numbers of incarnations are numbers.
LEMMA Numbers ==
  ASSUME Types
  PROVE  /\ created \in Nat /\ UID \subseteq Nat \ {0}
         /\ store # NoPod => store \in Pod /\ store.uid \in Nat \ {0}
         /\ \A e \in elements(stream) : e \in Event /\ e.pod \in Pod /\ e.pod.uid \in Nat \ {0}
         /\ NoPod.uid = 0 /\ NoPod.phase = "none" /\ NoPod.ann = None
<1>0. ClusterType /\ WatchType /\ UID \subseteq Nat \ {0} /\ MaxUID \in Nat
  BY PipelineAssumption DEF Types, UID
<1>1. created \in Nat
  BY <1>0 DEF ClusterType
<1>2. store # NoPod => store \in Pod /\ store.uid \in Nat \ {0}
  BY <1>0, IsPod DEF WatchType
<1>3. ASSUME NEW e \in elements(stream) PROVE e \in Event /\ e.pod \in Pod /\ e.pod.uid \in Nat \ {0}
  <2>1. e \in Event
    BY <1>0, <1>3, LenProperties DEF elements, WatchType
  <2>2. e.pod \in Pod
    BY <2>1 DEF Event
  <2> QED
    BY <1>0, <2>1, <2>2, IsPod
<1>4. NoPod.uid = 0 /\ NoPod.phase = "none" /\ NoPod.ann = None
  BY DEF NoPod, None
<1> QED
  BY <1>0, <1>1, <1>2, <1>3, <1>4

\* What the watch and the data store say of the pod stays behind the API server.
LEMMA PodInvStep ==
  ASSUME Types, PodInv, [Next]_vars
  PROVE  PodInv'
<1>0. /\ ClusterType /\ WatchType /\ ClusterType' /\ WatchType' /\ created \in Nat
      /\ NoPod.phase = "none" /\ NoPod.phase # "completed" /\ NoPod.uid = 0
  BY ClusterStepType, WatchStepType, Numbers DEF Types
<1>1. CASE PodCreated
  <2>1. /\ api' \in Pod /\ api'.uid = created + 1 /\ api'.phase = "unbound" /\ created' = created + 1
        /\ UNCHANGED store /\ event("Updated", api')
    BY <1>1, PodSteps DEF PodCreated
  <2>2. elements(stream') = elements(stream) \cup {[type |-> "Updated", pod |-> api']}
    <3>1. [type |-> "Updated", pod |-> api'] \in Event /\ stream \in Seq(Event)
      BY <1>0, <2>1 DEF Event, WatchType
    <3> QED
      BY <2>1, <3>1, AppendFacts DEF event
  <2>3. ASSUME NEW e \in elements(stream')
        PROVE  /\ e.pod.uid <= created' /\ (e.type # "Updated" => e.pod.uid < created')
               /\ e.pod.uid = created' => e.pod.phase # "completed"
    <3>1. CASE e \in elements(stream)
      <4>1. e.pod.uid \in Nat /\ e.pod.uid <= created
        BY <3>1, Numbers DEF PodInv
      <4> QED
        BY <1>0, <2>1, <4>1
    <3>2. CASE e = [type |-> "Updated", pod |-> api']
      BY <1>0, <2>1, <3>2
    <3> QED
      BY <2>2, <3>1, <3>2
  <2>4. store # NoPod => store.uid \in Nat /\ store.uid <= created
    BY Numbers DEF PodInv
  <2>5. (store' # NoPod => store'.uid <= created') /\ store'.uid # created'
    BY <1>0, <2>1, <2>4
  <2> QED
    BY <2>1, <2>3, <2>5 DEF PodInv
<1>2. CASE PodUpdated \/ (Patch /\ ~UNCHANGED api)
  <2>1. /\ api \in Pod /\ api' \in Pod /\ api'.uid = api.uid /\ UNCHANGED <<created, store>>
        /\ api.phase = "completed" => api'.phase = "completed"
    BY <1>2, PodSteps DEF PodUpdated, Patch
  <2>2. event("Updated", api')
    BY <1>2 DEF PodUpdated, Patch
  <2>3. elements(stream') = elements(stream) \cup {[type |-> "Updated", pod |-> api']}
    <3>1. [type |-> "Updated", pod |-> api'] \in Event /\ stream \in Seq(Event)
      BY <1>0, <2>1 DEF Event, WatchType
    <3> QED
      BY <2>2, <3>1, AppendFacts DEF event
  <2>4. api # NoPod /\ api' # NoPod /\ (running' => running) /\ api.uid = created
    BY <2>1, IsPod DEF running, PodInv
  <2>5. ASSUME NEW e \in elements(stream')
        PROVE  /\ e.pod.uid <= created' /\ (e.type # "Updated" => e.pod.uid < created')
               /\ running' => (e.pod.uid = created' => e.pod.phase # "completed")
    <3>1. CASE e \in elements(stream)
      BY <2>1, <2>4, <3>1 DEF PodInv
    <3>2. CASE e = [type |-> "Updated", pod |-> api']
      BY <1>0, <2>1, <2>4, <3>2 DEF running
    <3> QED
      BY <2>3, <3>1, <3>2
  <2> QED
    BY <2>1, <2>4, <2>5 DEF PodInv
<1>3. CASE PodDeleted
  <2>1. /\ api \in Pod /\ api' = NoPod /\ UNCHANGED <<created, store>> /\ event("Deleted", api) /\ api.uid = created
    BY <1>0, <1>3, PodFacts DEF PodDeleted, ClusterType, PodInv
  <2>2. elements(stream') = elements(stream) \cup {[type |-> "Deleted", pod |-> api]}
    <3>1. [type |-> "Deleted", pod |-> api] \in Event /\ stream \in Seq(Event)
      BY <1>0, <2>1 DEF Event, WatchType
    <3> QED
      BY <2>1, <3>1, AppendFacts DEF event
  <2>3. ASSUME NEW e \in elements(stream') PROVE e.pod.uid <= created'
    <3>1. CASE e \in elements(stream)
      BY <2>1, <3>1 DEF PodInv
    <3>2. CASE e = [type |-> "Deleted", pod |-> api]
      BY <1>0, <2>1, <3>2
    <3> QED
      BY <2>2, <3>1, <3>2
  <2> QED
    BY <2>1, <2>3 DEF PodInv, running
<1>4. CASE UNCHANGED <<api, created>>
  <2>0. UNCHANGED running
    BY <1>4 DEF running
  <2>1. (store' # NoPod => store'.uid <= created) /\ (running => (store'.uid = created => store'.phase # "completed"))
    <3>1. CASE UNCHANGED store
      BY <3>1 DEF PodInv
    <3>2. ASSUME NEW e \in elements(stream), store' = e.pod
          PROVE  store'.uid <= created /\ (running => (store'.uid = created => store'.phase # "completed"))
      BY <3>2 DEF PodInv
    <3>3. CASE store' = NoPod
      BY <1>0, <3>3
    <3> QED
      BY <3>1, <3>2, <3>3, StoreSteps
  <2>2. \A e \in elements(stream') : /\ e.pod.uid <= created /\ (e.type # "Updated" => e.pod.uid < created \/ api = NoPod)
                                     /\ running => (e.pod.uid = created => e.pod.phase # "completed")
    <3>1. CASE elements(stream') \subseteq elements(stream)
      BY <3>1 DEF PodInv
    <3>2. CASE api \in Pod /\ elements(stream') = {[type |-> "Updated", pod |-> api]}
      BY <1>0, <3>2, IsPod DEF PodInv, running
    <3>3. CASE api = NoPod /\ store \in Pod /\ elements(stream') = {[type |-> "DeletedFinalStateUnknown", pod |-> store]}
      BY <3>3, IsPod DEF PodInv, running
    <3>4. CASE (PodCreated \/ PodUpdated \/ Patch) /\ api' \in Pod /\ elements(stream') = elements(stream) \cup {[type |-> "Updated", pod |-> api']}
      <4>1. api \in Pod
        BY <1>4, <3>4
      <4>2. ASSUME NEW e \in elements(stream')
            PROVE  /\ e.pod.uid <= created /\ (e.type # "Updated" => e.pod.uid < created \/ api = NoPod)
                   /\ running => (e.pod.uid = created => e.pod.phase # "completed")
        <5>1. CASE e \in elements(stream)
          BY <5>1 DEF PodInv
        <5>2. CASE e = [type |-> "Updated", pod |-> api]
          BY <1>0, <4>1, <5>2, IsPod DEF PodInv, running
        <5> QED
          BY <1>4, <3>4, <5>1, <5>2
      <4> QED
        BY <4>2
    <3>5. CASE PodDeleted
      <4>1. api # NoPod /\ api' = NoPod
        BY <3>5 DEF PodDeleted
      <4> QED
        BY <1>4, <4>1
    <3> QED
      BY <3>1, <3>2, <3>3, <3>4, <3>5, WatchSteps
  <2> QED
    BY <1>4, <2>0, <2>1, <2>2 DEF PodInv
<1>5. CASE Patch /\ UNCHANGED api
  BY <1>4, <1>5 DEF Patch
<1> QED
  BY <1>1, <1>2, <1>3, <1>4, <1>5, PodSteps

\* The job works for one incarnation.
LEMMA JobOfStep ==
  ASSUME Types, PodInv, JobOf, [Next]_vars
  PROVE  JobOf'
<1>0. /\ created \in Nat /\ (api # NoPod => created \in 1 .. created) /\ NoJob.pc = "idle"
  <2>1. ClusterType /\ UID \subseteq Nat \ {0} /\ NoJob.pc = "idle" /\ created \in Nat
    BY Numbers, JobFacts DEF Types
  <2>2. api # NoPod => created \in UID
    BY <2>1, IsPod DEF PodInv, ClusterType
  <2> QED
    BY <2>1, <2>2
<1>1. CASE PodCreated
  <2>1. UNCHANGED job /\ created' = created + 1
    BY <1>1, PodSteps DEF PodCreated, work
  <2> QED
    BY <1>0, <2>1 DEF JobOf
<1>2. CASE UNCHANGED created
  <2>1. CASE UNCHANGED job
    BY <1>2, <2>1 DEF JobOf
  <2>2. CASE job' = NoJob \/ job'.pc = "fetch"
    BY <1>0, <2>2 DEF JobOf
  <2>3. CASE job'.pc = "create" /\ job'.uid = api.uid /\ api # NoPod
    BY <1>0, <1>2, <2>3 DEF JobOf, PodInv
  <2>4. CASE job.pc \in {"create", "cache", "annotate"} /\ job'.uid = job.uid
    BY <1>2, <2>4 DEF JobOf
  <2> QED
    BY <2>1, <2>2, <2>3, <2>4, JobSteps
<1> QED
  BY <1>1, <1>2, PodSteps

-----------------------------------------------------------------------------
(***************************************************************************)
(* The annotation.  A pod whose own job is under way has none.             *)
(***************************************************************************)
AnnotationInv == job.pc \in {"create", "cache", "annotate", "patch"} /\ job.uid = created => api.ann = None

\* Only the job annotates, and it ends by it.
LEMMA AnnotationStep ==
  ASSUME Types, PodInv, JobOf, AnnotationInv, [Next]_vars
  PROVE  AnnotationInv'
<1>0. created \in Nat /\ NoPod.ann = None /\ NoJob.pc = "idle"
  BY Numbers, JobFacts
<1>1. CASE PodCreated
  <2>1. api'.ann = None
    BY <1>1, PodSteps
  <2> QED
    BY <2>1 DEF AnnotationInv
<1>2. CASE PodUpdated
  <2>1. UNCHANGED <<job, created>> /\ api'.ann = api.ann
    BY <1>2, PodSteps DEF PodUpdated, work
  <2> QED
    BY <2>1 DEF AnnotationInv
<1>3. CASE PodDeleted
  BY <1>0, <1>3, PodSteps DEF AnnotationInv
<1>4. CASE Patch /\ ~UNCHANGED api
  <2>1. job' = NoJob
    BY <1>4, PodSteps
  <2> QED
    BY <1>0, <2>1 DEF AnnotationInv
<1>5. CASE UNCHANGED <<api, created>>
  <2>1. CASE UNCHANGED job
    BY <1>5, <2>1 DEF AnnotationInv
  <2>2. CASE job' = NoJob \/ job'.pc = "fetch"
    BY <1>0, <2>2 DEF AnnotationInv
  <2>3. CASE job'.pc = "create" /\ api.ann = None
    BY <1>5, <2>3 DEF AnnotationInv
  <2>4. CASE job.pc \in {"create", "cache", "annotate"} /\ job'.uid = job.uid
    BY <1>5, <2>4 DEF AnnotationInv
  <2> QED
    BY <2>1, <2>2, <2>3, <2>4, JobSteps
<1> QED
  BY <1>1, <1>2, <1>3, <1>4, <1>5, PodSteps

-----------------------------------------------------------------------------
(***************************************************************************)
(* The trunk.  Until it is initialized nothing is annotated, so that what  *)
(* the data store, the watch and InitTrunk's list say of the pod's         *)
(* annotation is what it had when the controller started; and a pod that   *)
(* is annotated is the one the data store started with.  Once the node is  *)
(* removed, nothing is claimed any more.                                   *)
(***************************************************************************)
here == node # "removed"

TrunkInv ==
  /\ \A p \in listed : p.uid <= created
  /\ here /\ view = "ready" => trunk
  /\ here /\ job.pc \in {"cache", "annotate", "patch"} => trunk
  /\ here /\ ~trunk /\ api # NoPod =>
       /\ api.ann \in live \cup {None}
       /\ store.uid = created => store.ann = api.ann
       /\ \A e \in elements(stream) : e.pod.uid = created => e.pod.ann = api.ann
       /\ \A p \in listed : p.uid = created => p.ann = api.ann
       /\ api.ann # None => created = 1 /\ store # NoPod

\* A removed node stays removed, and a trunk is given up only then.
LEMMA NodeSteps ==
  ASSUME Types, [Next]_vars, here'
  PROVE  /\ here /\ (trunk => trunk') /\ (trunk' => trunk \/ InitTrunk)
         /\ view' = "ready" => view = "ready" \/ InitTrunk
         /\ UNCHANGED listed \/ (listed' = {store} /\ InitResource) \/ listed' = {}
         /\ InitTrunk => trunk' /\ ~trunk
<1>1. here /\ ~DeleteNode /\ ~removeTrunkFromCache
  BY Frames DEF here, NodeSeen, NodeRemoved, DeleteNode, deleteNode, removeTrunkFromCache, cluster
<1>2. (trunk => trunk') /\ (trunk' => trunk \/ InitTrunk)
  <2>1. UNCHANGED trunk \/ InitTrunk
    BY <1>1, Frames DEF AddNode, InitResource
  <2>2. InitTrunk => trunk' /\ ~trunk
    BY DEF InitTrunk
  <2> QED
    BY <2>1, <2>2
<1>3. view' = "ready" => view = "ready" \/ InitTrunk
  BY <1>1, Frames DEF AddNode, InitResource, Node!Add, Node!Select, Node!Unmanaged, Node!Initializing
<1>4. UNCHANGED listed \/ (listed' = {store} /\ InitResource) \/ listed' = {}
  BY <1>1, Frames DEF AddNode, InitResource, InitTrunk
<1>5. InitTrunk => trunk' /\ ~trunk
  BY DEF InitTrunk
<1> QED
  BY <1>1, <1>2, <1>3, <1>4, <1>5

\* Without a trunk no interface is made or taken back.
LEMMA NoTrunkNoChange ==
  ASSUME Types, TrunkInv, [Next]_vars, here', ~trunk'
  PROVE  UNCHANGED branches /\ ~Patch
<1>1. here /\ ~trunk
  BY NodeSteps
<1>2. ~(job.pc \in {"cache", "annotate", "patch"})
  BY <1>1 DEF TrunkInv
<1>3. CASE CreateAndAssociateBranchENIs
  BY <1>1, <1>2, <1>3 DEF CreateAndAssociateBranchENIs, branches, Patch
<1>4. ~addBranchToCache /\ ~Patch /\ ~DeleteCooledDownENIs /\ ~InitTrunk
      /\ ~DeleteAllBranchENIs /\ ~removeTrunkFromCache
  BY <1>1, <1>2, NodeSteps DEF addBranchToCache, Patch, DeleteCooledDownENIs, deleteNode, DeleteAllBranchENIs,
                               removeTrunkFromCache, InitTrunk
<1> QED
  BY <1>1, <1>2, <1>3, <1>4, BranchSteps

\* The list InitTrunk works from says of the pod what the API server says.
LEMMA TrunkStep ==
  ASSUME Types, PodInv, TrunkInv, [Next]_vars
  PROVE  TrunkInv'
<1>0. /\ ClusterType /\ WatchType /\ NodeType /\ created \in Nat /\ created' \in Nat /\ created <= created'
      /\ UID \subseteq Nat \ {0} /\ NoPod.ann = None /\ NoPod.uid = 0
  <2>1. ClusterType /\ WatchType /\ NodeType
    BY DEF Types
  <2>2. created' = created \/ created' = created + 1
    BY PodSteps
  <2> QED
    BY <2>1, <2>2, Numbers
<1>1. \A p \in listed' : p.uid <= created'
  <2>1. listed' \subseteq listed \/ (listed' = {store} /\ store # NoPod)
    BY Frames DEF AddNode, InitResource, InitTrunk, DeleteNode, removeTrunkFromCache
  <2>2. ASSUME NEW p \in listed PROVE p.uid <= created'
    <3>1. p.uid \in Nat /\ p.uid <= created
      BY <1>0, IsPod DEF TrunkInv, NodeType
    <3> QED
      BY <1>0, <3>1
  <2>3. store # NoPod => store.uid <= created'
    <3>1. store # NoPod => store.uid \in Nat /\ store.uid <= created
      BY Numbers DEF PodInv
    <3> QED
      BY <1>0, <3>1
  <2> QED
    BY <2>1, <2>2, <2>3
<1>2. here' /\ view' = "ready" => trunk'
  BY NodeSteps DEF TrunkInv
<1>3. here' /\ job'.pc \in {"cache", "annotate", "patch"} => trunk'
  <2> SUFFICES ASSUME here', job'.pc \in {"cache", "annotate", "patch"} PROVE trunk'
    OBVIOUS
  <2>1. job.pc \in {"cache", "annotate", "patch"} \/ trunk
    BY JobSteps, JobFacts
  <2> QED
    BY <2>1, NodeSteps DEF TrunkInv
<1>4. ASSUME here', ~trunk', api' # NoPod
      PROVE  /\ api'.ann \in live' \cup {None}
             /\ store'.uid = created' => store'.ann = api'.ann
             /\ \A e \in elements(stream') : e.pod.uid = created' => e.pod.ann = api'.ann
             /\ \A p \in listed' : p.uid = created' => p.ann = api'.ann
             /\ api'.ann # None => created' = 1 /\ store' # NoPod
  <2>0. here /\ ~trunk /\ UNCHANGED live /\ ~Patch
    BY <1>4, NodeSteps, NoTrunkNoChange DEF branches
  <2>1. CASE PodCreated
    <3>1. UNCHANGED <<store, listed>> /\ event("Updated", api')
      BY <2>1 DEF PodCreated, provider
    <3>2. api' \in Pod /\ api'.uid = created + 1 /\ api'.ann = None /\ created' = created + 1
      BY <2>1, PodSteps
    <3>3. elements(stream') = elements(stream) \cup {[type |-> "Updated", pod |-> api']}
      <4>1. [type |-> "Updated", pod |-> api'] \in Event /\ stream \in Seq(Event)
        BY <1>0, <3>2 DEF Event, WatchType
      <4> QED
        BY <3>1, <4>1, AppendFacts DEF event
    <3>4. \A p \in listed : p.uid # created + 1
      <4> SUFFICES ASSUME NEW p \in listed PROVE p.uid # created + 1
        OBVIOUS
      <4>1. p.uid \in Nat /\ p.uid <= created
        BY <1>0, IsPod DEF TrunkInv, NodeType
      <4> QED
        BY <1>0, <4>1
    <3>5. store.uid # created + 1
      <4>1. store.uid \in Nat /\ store.uid <= created
        BY <1>0, Numbers DEF PodInv
      <4> QED
        BY <1>0, <4>1
    <3>6. ASSUME NEW e \in elements(stream'), e.pod.uid = created' PROVE e.pod.ann = api'.ann
      <4>1. e \notin elements(stream)
        <5> SUFFICES ASSUME e \in elements(stream) PROVE FALSE
          OBVIOUS
        <5>1. e.pod.uid \in Nat /\ e.pod.uid <= created
          BY Numbers DEF PodInv
        <5> QED
          BY <1>0, <3>2, <3>6, <5>1
      <4>2. e = [type |-> "Updated", pod |-> api']
        BY <3>3, <3>6, <4>1
      <4> QED
        BY <4>2
    <3> QED
      BY <3>1, <3>2, <3>4, <3>5, <3>6
  <2>2. CASE PodUpdated
    <3>1. /\ UNCHANGED <<store, listed, created>> /\ api # NoPod /\ api' \in Pod /\ api'.uid = api.uid /\ api'.ann = api.ann
          /\ event("Updated", api')
      BY <2>2, PodSteps, IsPod DEF PodUpdated, provider
    <3>2. elements(stream') = elements(stream) \cup {[type |-> "Updated", pod |-> api']}
      <4>1. [type |-> "Updated", pod |-> api'] \in Event /\ stream \in Seq(Event)
        BY <1>0, <3>1 DEF Event, WatchType
      <4> QED
        BY <3>1, <4>1, AppendFacts DEF event
    <3>3. ASSUME NEW e \in elements(stream'), e.pod.uid = created' PROVE e.pod.ann = api'.ann
      <4>1. CASE e \in elements(stream)
        BY <2>0, <3>1, <3>3, <4>1 DEF TrunkInv
      <4>2. CASE e = [type |-> "Updated", pod |-> api']
        BY <4>2
      <4> QED
        BY <3>2, <3>3, <4>1, <4>2
    <3> QED
      BY <2>0, <3>1, <3>3 DEF TrunkInv
  <2>3. CASE PodDeleted
    BY <1>4, <2>3 DEF PodDeleted
  <2>4. CASE UNCHANGED <<api, created>>
    <3>0. api # NoPod /\ created # 0
      <4>1. api # NoPod
        BY <1>4, <2>4
      <4>2. created \in UID
        BY <1>0, <4>1, IsPod DEF PodInv, ClusterType
      <4> QED
        BY <1>0, <4>1, <4>2
    <3>1. store'.uid = created => store'.ann = api.ann
      <4>1. ASSUME NEW e \in elements(stream), store' = e.pod PROVE store'.uid = created => store'.ann = api.ann
        BY <2>0, <3>0, <4>1 DEF TrunkInv
      <4>2. CASE store' = NoPod
        BY <1>0, <3>0, <4>2
      <4> QED
        BY <2>0, <3>0, <4>1, <4>2, StoreSteps DEF TrunkInv
    <3>2. \A e \in elements(stream') : e.pod.uid = created => e.pod.ann = api.ann
      <4>1. CASE elements(stream') \subseteq elements(stream)
        BY <2>0, <3>0, <4>1 DEF TrunkInv
      <4>2. CASE elements(stream') = {[type |-> "Updated", pod |-> api]}
        BY <4>2
      <4>3. CASE elements(stream') = elements(stream) \cup {[type |-> "Updated", pod |-> api']}
        <5>1. ASSUME NEW e \in elements(stream'), e.pod.uid = created PROVE e.pod.ann = api.ann
          <6>1. CASE e \in elements(stream)
            BY <2>0, <3>0, <5>1, <6>1 DEF TrunkInv
          <6>2. CASE e = [type |-> "Updated", pod |-> api]
            BY <6>2
          <6> QED
            BY <2>4, <4>3, <5>1, <6>1, <6>2
        <5> QED
          BY <5>1
      <4>4. CASE PodDeleted
        BY <2>4, <3>0, <4>4 DEF PodDeleted
      <4> QED
        BY <3>0, <4>1, <4>2, <4>3, <4>4, WatchSteps
    <3>3. api.ann # None => created = 1 /\ store' # NoPod
      <4> SUFFICES ASSUME api.ann # None PROVE created = 1 /\ store' # NoPod
        OBVIOUS
      <4>1. created = 1 /\ store # NoPod
        BY <2>0, <3>0 DEF TrunkInv
      <4>2. ASSUME NEW e \in elements(stream), e.type = "Deleted" PROVE FALSE
        <5>1. e.pod.uid \in Nat \ {0} /\ e.pod.uid < 1
          BY <3>0, <4>1, <4>2, Numbers DEF PodInv
        <5> QED
          BY <5>1
      <4> QED
        BY <4>1, <4>2, StoreSteps, IsPod
    <3>4. CASE UNCHANGED listed \/ listed' = {}
      BY <2>0, <2>4, <3>0, <3>1, <3>2, <3>3, <3>4 DEF TrunkInv
    <3>5. CASE listed' = {store} /\ InitResource
      <4>1. store.uid = created => store.ann = api.ann
        BY <2>0, <3>0 DEF TrunkInv
      <4> QED
        BY <2>0, <2>4, <3>0, <3>1, <3>2, <3>3, <3>5, <4>1 DEF TrunkInv
    <3> QED
      BY <1>4, <3>4, <3>5, NodeSteps
  <2> QED
    BY <2>0, <2>1, <2>2, <2>3, <2>4, PodSteps
<1> QED
  BY <1>1, <1>2, <1>3, <1>4 DEF TrunkInv

-----------------------------------------------------------------------------
(***************************************************************************)
(* The delete jobs.  The job that takes back a pod's interface is for an   *)
(* earlier incarnation or for a pod that is gone or completed.  The one    *)
(* exception is a job submitted before the node was known: it is ahead of  *)
(* every create job, and finds nothing.                                    *)
(***************************************************************************)
first(i) == \A j \in DOMAIN jobs : j < i => jobs[j] # Create

idle == job.pc = "idle" /\ ~again /\ api.ann = None

JobInv ==
  /\ node = "new" => idle /\ \A i \in DOMAIN jobs : jobs[i] # Create
  /\ \A u \in deleted : u <= created /\ (u < created \/ ~running)
  /\ here => \A i \in DOMAIN jobs : jobs[i] # Create =>
               jobs[i] <= created /\ (jobs[i] < created \/ ~running \/ (idle /\ first(i)))

\* An idle pipeline stays idle until a create job is run.
LEMMA IdleStays ==
  ASSUME Types, [Next]_vars, idle, ~RunCreateJob
  PROVE  idle' \/ ~running'
<1>0. NoPod.ann = None
  BY DEF NoPod
<1>1. UNCHANGED job
  BY JobSteps, Frames DEF idle, GetPodFromAPIServer, CreateAndAssociateBranchENIs, addBranchToCache, AnnotatePod, Patch
<1>2. ~again'
  BY AgainSteps DEF idle
<1>3. api'.ann = None
  BY <1>0, PodSteps DEF idle, Patch
<1> QED
  BY <1>1, <1>2, <1>3 DEF idle

\* Delete jobs are submitted only for pods that need their interface no more, or
\* that cannot have one yet.
LEMMA JobInvStep ==
  ASSUME Types, PodInv, JobInv, [Next]_vars
  PROVE  JobInv'
<1>0. /\ WorkType /\ QueueType /\ WatchType /\ created \in Nat /\ UID \subseteq Nat
      /\ created' = created \/ (created' = created + 1 /\ PodCreated)
      /\ jobs \in Seq({Create} \cup UID) /\ DOMAIN jobs = 1 .. Len(jobs) /\ Len(jobs) \in Nat
  <2>1. WorkType /\ QueueType /\ WatchType /\ ClusterType /\ MaxUID \in Nat /\ UID \subseteq Nat
    BY PipelineAssumption DEF Types, UID
  <2>2. created \in Nat /\ jobs \in Seq({Create} \cup UID)
    BY <2>1 DEF ClusterType, WorkType
  <2>3. created' = created \/ (created' = created + 1 /\ PodCreated)
    BY PodSteps
  <2> QED
    BY <2>1, <2>2, <2>3, LenProperties
<1>1. CASE PodCreated
  <2>1. /\ UNCHANGED <<deleted, jobs, job, again, node>> /\ created' = created + 1 /\ api'.ann = None
    BY <1>1, PodSteps DEF PodCreated, queues, work
  <2>2. \A u \in deleted : u \in Nat
    BY <1>0 DEF QueueType
  <2>3. \A i \in DOMAIN jobs : jobs[i] # Create => jobs[i] \in Nat
    BY <1>0, ElementOfSeq
  <2>4. \A u \in deleted' : u <= created' /\ u < created'
    BY <1>0, <2>1, <2>2 DEF JobInv
  <2>5. here' => \A i \in DOMAIN jobs' : jobs'[i] # Create => jobs'[i] <= created' /\ jobs'[i] < created'
    BY <1>0, <2>1, <2>3 DEF JobInv, here
  <2>6. node' = "new" => idle' /\ \A i \in DOMAIN jobs' : jobs'[i] # Create
    BY <2>1 DEF JobInv, idle
  <2> QED
    BY <2>4, <2>5, <2>6 DEF JobInv
<1>2. CASE ~PodCreated
  <2>0. UNCHANGED created /\ (running' => running)
    BY <1>0, <1>2, PodSteps, IsPod DEF running
  <2>1. node' = "new" => idle' /\ \A i \in DOMAIN jobs' : jobs'[i] # Create
    <3> SUFFICES ASSUME node' = "new" PROVE idle' /\ \A i \in DOMAIN jobs' : jobs'[i] # Create
      OBVIOUS
    <3>1. node = "new"
      BY Frames DEF NodeSeen, NodeRemoved
    <3>2. idle /\ \A i \in DOMAIN jobs : jobs[i] # Create
      BY <3>1 DEF JobInv
    <3>3. ~RunCreateJob
      <4> SUFFICES ASSUME RunCreateJob PROVE FALSE
        OBVIOUS
      <4>1. jobs # << >> /\ Head(jobs) = Create
        BY DEF RunCreateJob
      <4> QED
        BY <1>0, <3>2, <4>1, TailFacts
    <3>4. idle'
      <4>1. UNCHANGED job
        BY <3>2, <3>3, JobSteps, Frames DEF idle, GetPodFromAPIServer, CreateAndAssociateBranchENIs, addBranchToCache, AnnotatePod, Patch
      <4>2. ~again'
        BY <3>2, AgainSteps DEF idle
      <4>3. api'.ann = None
        <5>1. NoPod.ann = None
          BY DEF NoPod
        <5> QED
          BY <3>2, <5>1, PodSteps DEF idle, Patch
      <4> QED
        BY <3>2, <4>1, <4>2, <4>3 DEF idle
    <3>5. ~QueueAgain /\ ~nodeExists /\ Create \notin UID
      BY <3>1, <3>2, JobFacts DEF QueueAgain, idle, nodeExists, Create, None
    <3>6. ASSUME NEW u \in UID, jobs' = Append(jobs, u) PROVE \A i \in DOMAIN jobs' : jobs'[i] # Create
      <4>1. u \in {Create} \cup UID /\ u # Create
        BY <3>5
      <4>2. /\ DOMAIN jobs' = 1 .. Len(jobs) + 1 /\ \A i \in 1 .. Len(jobs) : jobs'[i] = jobs[i]
            /\ jobs'[Len(jobs) + 1] = u
        BY <1>0, <3>6, <4>1, AppendFacts
      <4> QED
        BY <1>0, <3>2, <4>1, <4>2
    <3>7. store \in Pod => store.uid \in UID
      BY IsPod
    <3>8. CASE jobs # << >> /\ jobs' = Tail(jobs)
      <4>1. \A i \in DOMAIN Tail(jobs) : i + 1 \in DOMAIN jobs /\ Tail(jobs)[i] = jobs[i + 1]
        BY <1>0, <3>8, TailFacts
      <4> QED
        BY <3>2, <3>4, <3>8, <4>1
    <3> QED
      BY <1>0, <3>2, <3>4, <3>5, <3>6, <3>7, <3>8, QueueSteps DEF QueueType
  <2>2. \A u \in deleted' : u <= created /\ (u < created \/ ~running')
    <3>1. CASE Process
      <4>1. UNCHANGED api
        BY <3>1 DEF Process, cluster
      <4>2. ASSUME NEW e \in elements(stream), e.type = "Deleted"
            PROVE  e.pod.uid <= created /\ (e.pod.uid < created \/ ~running)
        BY <4>2 DEF PodInv, running
      <4>3. \/ UNCHANGED deleted
            \/ \E e \in elements(stream) : e.type = "Deleted" /\ deleted' \in {deleted, deleted \cup {e.pod.uid}}
        <5>1. stream # << >> /\ stream \in Seq(Event)
          BY <1>0, <3>1 DEF Process, WatchType
        <5>2. Head(stream) \in elements(stream)
          BY <5>1, TailFacts
        <5> QED
          BY <3>1, <5>2 DEF Process
      <4> QED
        BY <1>0, <2>0, <4>2, <4>3 DEF JobInv
    <3>2. CASE ~Process
      <4>1. deleted' \subseteq deleted
        BY <3>2, Frames DEF queues, Resync, Reconcile, ReconcileDeleted
      <4> QED
        BY <2>0, <4>1 DEF JobInv
    <3> QED
      BY <3>1, <3>2
  <2>3. ASSUME here', NEW i \in DOMAIN jobs', jobs'[i] # Create
        PROVE  jobs'[i] <= created /\ (jobs'[i] < created \/ ~running' \/ (idle' /\ first(i)'))
    <3>0. here
      BY <2>3, NodeSteps
    <3>1. CASE UNCHANGED jobs
      <4>1. jobs[i] <= created /\ (jobs[i] < created \/ ~running \/ (idle /\ first(i)))
        BY <2>3, <3>0, <3>1 DEF JobInv
      <4>2. first(i) => first(i)'
        BY <3>1 DEF first
      <4>3. ASSUME RunCreateJob PROVE FALSE
        <5>1. jobs # << >> /\ jobs' = Tail(jobs)
          BY <4>3 DEF RunCreateJob
        <5>2. Len(Tail(jobs)) = Len(jobs) - 1
          BY <1>0, <5>1, HeadTailProperties
        <5> QED
          BY <1>0, <3>1, <5>1, <5>2
      <4> QED
        BY <2>0, <3>1, <4>1, <4>2, <4>3, IdleStays
    <3>2. CASE jobs # << >> /\ jobs' = Tail(jobs) /\ (Head(jobs) = Create => RunCreateJob) /\ (Head(jobs) # Create => DeleteBranchUsedByPods)
      <4>1. /\ i \in Nat \ {0} /\ i + 1 \in DOMAIN jobs /\ jobs'[i] = jobs[i + 1] /\ Head(jobs) = jobs[1] /\ 1 \in DOMAIN jobs
            /\ \A j \in DOMAIN jobs' : j \in Nat \ {0} /\ j + 1 \in DOMAIN jobs /\ jobs'[j] = jobs[j + 1]
        BY <1>0, <2>3, <3>2, TailFacts
      <4>2. jobs[i + 1] <= created /\ (jobs[i + 1] < created \/ ~running \/ (idle /\ first(i + 1)))
        BY <2>3, <3>0, <4>1 DEF JobInv
      <4>3. CASE first(i + 1) /\ idle
        <5>1. jobs[1] # Create
          BY <4>1, <4>3 DEF first
        <5>2. ~RunCreateJob
          BY <4>1, <5>1 DEF RunCreateJob
        <5>3. first(i)'
          BY <4>1, <4>3 DEF first
        <5>4. idle' \/ ~running'
          BY <4>3, <5>2, IdleStays
        <5> QED
          BY <4>1, <4>2, <5>3, <5>4
      <4> QED
        BY <2>0, <4>1, <4>2, <4>3
    <3>3. ASSUME NEW j \in {Create} \cup UID, jobs' = Append(jobs, j), i # Len(jobs) + 1
          PROVE  jobs'[i] <= created /\ (jobs'[i] < created \/ ~running' \/ (idle' /\ first(i)'))
      <4>1. /\ i \in DOMAIN jobs /\ jobs'[i] = jobs[i] /\ DOMAIN jobs' = 1 .. Len(jobs) + 1
            /\ \A k \in 1 .. Len(jobs) : jobs'[k] = jobs[k]
        <5>1. DOMAIN jobs' = 1 .. Len(jobs) + 1 /\ \A k \in 1 .. Len(jobs) : jobs'[k] = jobs[k]
          BY <1>0, <3>3, AppendFacts
        <5> QED
          BY <1>0, <2>3, <3>3, <5>1
      <4>2. jobs[i] <= created /\ (jobs[i] < created \/ ~running \/ (idle /\ first(i)))
        BY <2>3, <3>0, <4>1 DEF JobInv
      <4>3. first(i) => first(i)'
        BY <1>0, <4>1 DEF first
      <4>4. ~RunCreateJob
        <5> SUFFICES ASSUME RunCreateJob PROVE FALSE
          OBVIOUS
        <5>1. jobs # << >> /\ jobs' = Tail(jobs)
          BY DEF RunCreateJob
        <5>2. Len(Tail(jobs)) = Len(jobs) - 1 /\ Len(Append(jobs, j)) = Len(jobs) + 1
          <6>1. Len(Tail(jobs)) = Len(jobs) - 1
            BY <1>0, <5>1, HeadTailProperties
          <6>2. Len(Append(jobs, j)) = Len(jobs) + 1
            BY <1>0, AppendProperties
          <6> QED
            BY <6>1, <6>2
        <5> QED
          BY <1>0, <3>3, <5>1, <5>2
      <4> QED
        BY <2>0, <4>1, <4>2, <4>3, <4>4, IdleStays
    <3>4. CASE jobs' = Append(jobs, Create)
      <4>1. jobs'[Len(jobs) + 1] = Create
        BY <1>0, <3>4, AppendFacts
      <4> QED
        BY <2>3, <3>3, <3>4, <4>1
    <3>5. CASE jobs' = Append(jobs, store.uid) /\ store \in Pod /\ Reconcile /\ (store.phase = "completed" \/ ~nodeExists)
      <4>1. store.uid <= created /\ store.uid \in UID /\ store.uid \in Nat /\ UNCHANGED <<api, node, job>>
        BY <1>0, <3>5, IsPod DEF PodInv, Reconcile, cluster
      <4>2. CASE store.phase = "completed"
        <5>1. store.uid < created \/ ~running'
          BY <1>0, <2>0, <4>1, <4>2 DEF PodInv
        <5>2. jobs'[Len(jobs) + 1] = store.uid
          BY <1>0, <3>5, <4>1, AppendFacts
        <5>3. CASE i = Len(jobs) + 1
          BY <1>0, <4>1, <5>1, <5>2, <5>3
        <5> QED
          BY <3>3, <3>5, <4>1, <5>3
      <4>3. CASE ~nodeExists
        <5>1. node = "new"
          BY <3>0, <4>3 DEF nodeExists, here, Types, ClusterType
        <5>2. idle /\ \A k \in DOMAIN jobs : jobs[k] # Create
          BY <5>1 DEF JobInv
        <5>3. ~RunCreateJob
          BY <1>0, <5>2, TailFacts DEF RunCreateJob
        <5>4. /\ DOMAIN jobs' = 1 .. Len(jobs) + 1 /\ \A k \in 1 .. Len(jobs) : jobs'[k] = jobs[k]
              /\ jobs'[Len(jobs) + 1] = store.uid
          BY <1>0, <3>5, <4>1, AppendFacts
        <5>5. CASE i = Len(jobs) + 1
          <6>1. first(i)'
            BY <1>0, <5>2, <5>4, <5>5 DEF first
          <6>2. idle' \/ ~running'
            BY <5>2, <5>3, IdleStays
          <6> QED
            BY <1>0, <4>1, <5>4, <5>5, <6>1, <6>2
        <5> QED
          BY <3>3, <3>5, <4>1, <5>5
      <4> QED
        BY <3>5, <4>2, <4>3
    <3>6. ASSUME NEW u \in deleted, jobs' = Append(jobs, u)
          PROVE  jobs'[i] <= created /\ (jobs'[i] < created \/ ~running' \/ (idle' /\ first(i)'))
      <4>1. u \in UID /\ u <= created /\ (u < created \/ ~running')
        BY <1>0, <2>0, <3>6 DEF QueueType, JobInv
      <4>2. jobs'[Len(jobs) + 1] = u
        BY <1>0, <3>6, <4>1, AppendFacts
      <4>3. CASE i = Len(jobs) + 1
        BY <4>1, <4>2, <4>3
      <4> QED
        BY <3>3, <3>6, <4>1, <4>3
    <3> QED
      BY <3>1, <3>2, <3>4, <3>5, <3>6, QueueSteps
  <2> QED
    BY <2>0, <2>1, <2>2, <2>3 DEF JobInv
<1> QED
  BY <1>1, <1>2

-----------------------------------------------------------------------------
(***************************************************************************)
(* The interfaces.  An interface the trunk's cache holds exists, is not    *)
(* queued for deletion and is held for one UID; the job's interface is     *)
(* nobody else's.                                                          *)
(***************************************************************************)
ExclusiveInv ==
  /\ \A p, q \in listed : p = q
  /\ here =>
       /\ \A u \in UID : uidToBranchENIMap[u] # None => uidToBranchENIMap[u] \in live \ deleteQueue
       /\ \A u, v \in UID : uidToBranchENIMap[u] # None /\ uidToBranchENIMap[u] = uidToBranchENIMap[v] => u = v
       /\ job.pc = "cache" => job.eni \in live \ deleteQueue /\ \A u \in UID : uidToBranchENIMap[u] # job.eni
       /\ job.pc \in {"annotate", "patch"} => \A u \in UID \ {job.uid} : uidToBranchENIMap[u] # job.eni

\* What the job holds while the branches stay as they are.
LEMMA ExclusiveJob ==
  ASSUME Types, ExclusiveInv, [Next]_vars, here, UNCHANGED branches
  PROVE  /\ job'.pc = "cache" => job'.eni \in live \ deleteQueue /\ \A u \in UID : uidToBranchENIMap[u] # job'.eni
         /\ job'.pc \in {"annotate", "patch"} => \A u \in UID \ {job'.uid} : uidToBranchENIMap[u] # job'.eni
<1>0. NoJob.pc = "idle"
  BY JobFacts
<1>1. CASE UNCHANGED job
  BY <1>1 DEF ExclusiveInv
<1>2. CASE job' = NoJob \/ job'.pc \in {"fetch", "create"}
  BY <1>0, <1>2
<1>3. CASE live' = live \cup {newENI} /\ newENI \in ENI \ remembered
  BY <1>3 DEF branches, remembered
<1>4. CASE addBranchToCache /\ job.pc = "cache" /\ job'.pc = "annotate" /\ job'.uid = job.uid /\ job'.eni = job.eni
  BY <1>4 DEF ExclusiveInv
<1>5. CASE job.pc = "annotate" /\ job'.pc = "patch" /\ job'.uid = job.uid /\ job'.eni = job.eni
  BY <1>5 DEF ExclusiveInv
<1> QED
  BY <1>1, <1>2, <1>3, <1>4, <1>5, JobSteps

\* An interface is cached for one UID, and moves to the delete queue as a whole.
LEMMA ExclusiveStep ==
  ASSUME Types, TrunkInv, ExclusiveInv, [Next]_vars
  PROVE  ExclusiveInv'
<1>0. BranchType /\ JobType /\ NoJob.pc = "idle" /\ None \notin UID /\ None \notin ENI
  BY JobFacts DEF Types
<1>1. \A p, q \in listed' : p = q
  <2>1. UNCHANGED listed \/ listed' = {store} \/ listed' = {}
    BY Frames DEF AddNode, InitResource, InitTrunk, DeleteNode, DeleteAllBranchENIs, removeTrunkFromCache
  <2> QED
    BY <2>1 DEF ExclusiveInv
<1> SUFFICES ASSUME here'
             PROVE  /\ \A u \in UID : uidToBranchENIMap'[u] # None => uidToBranchENIMap'[u] \in live' \ deleteQueue'
                    /\ \A u, v \in UID : uidToBranchENIMap'[u] # None /\ uidToBranchENIMap'[u] = uidToBranchENIMap'[v] => u = v
                    /\ job'.pc = "cache" => /\ job'.eni \in live' \ deleteQueue'
                                            /\ \A u \in UID : uidToBranchENIMap'[u] # job'.eni
                    /\ job'.pc \in {"annotate", "patch"} => \A u \in UID \ {job'.uid} : uidToBranchENIMap'[u] # job'.eni
  BY <1>1 DEF ExclusiveInv
<1>2. here
  BY NodeSteps
<1>3. CASE UNCHANGED branches
  <2>1. UNCHANGED <<uidToBranchENIMap, deleteQueue, live>>
    BY <1>3 DEF branches
  <2> QED
    BY <1>2, <1>3, <2>1, ExclusiveJob DEF ExclusiveInv
<1>4. CASE CreateAndAssociateBranchENIs /\ ~UNCHANGED branches
  <2>1. /\ job' = [job EXCEPT !.pc = "cache", !.eni = newENI] /\ ENI \ remembered # {} /\ live' = live \cup {newENI}
        /\ UNCHANGED <<uidToBranchENIMap, deleteQueue>>
    BY <1>4 DEF CreateAndAssociateBranchENIs, branches
  <2>2. newENI \notin live /\ newENI \notin deleteQueue /\ newENI \in ENI /\ newENI # None
    BY <1>0, <2>1, JobFacts DEF remembered
  <2>3. job'.pc = "cache" /\ job'.eni = newENI
    BY <1>0, <2>1 DEF JobType
  <2>4. \A u \in UID : uidToBranchENIMap[u] # newENI
    BY <1>2, <2>2 DEF ExclusiveInv
  <2> QED
    BY <1>2, <2>1, <2>2, <2>3, <2>4 DEF ExclusiveInv
<1>5. CASE addBranchToCache
  <2>1. /\ job.pc = "cache" /\ job' = [job EXCEPT !.pc = "annotate"] /\ UNCHANGED <<live, deleteQueue>>
        /\ uidToBranchENIMap' = [uidToBranchENIMap EXCEPT ![job.uid] = job.eni]
    BY <1>5 DEF addBranchToCache
  <2>2. job'.pc = "annotate" /\ job'.uid = job.uid /\ job'.eni = job.eni
    BY <1>0, <2>1 DEF JobType
  <2>3. \A u \in UID : uidToBranchENIMap'[u] = IF u = job.uid THEN job.eni ELSE uidToBranchENIMap[u]
    BY <1>0, <2>1 DEF BranchType
  <2>4. job.eni \in live \ deleteQueue /\ \A u \in UID : uidToBranchENIMap[u] # job.eni
    BY <1>2, <2>1 DEF ExclusiveInv
  <2> QED
    BY <1>2, <2>1, <2>2, <2>3, <2>4 DEF ExclusiveInv
<1>6. CASE PushENIsToFrontOfDeleteQueue /\ job' = NoJob /\ job.pc \in {"annotate", "patch"}
  <2>1. /\ deleteQueue' = deleteQueue \cup {job.eni} /\ UNCHANGED live
        /\ \A u \in UID : uidToBranchENIMap'[u] = IF u = job.uid THEN None ELSE uidToBranchENIMap[u]
    BY <1>0, <1>6 DEF PushENIsToFrontOfDeleteQueue, BranchType
  <2>2. \A u \in UID \ {job.uid} : uidToBranchENIMap[u] # job.eni
    BY <1>2, <1>6 DEF ExclusiveInv
  <2> QED
    BY <1>0, <1>2, <1>6, <2>1, <2>2 DEF ExclusiveInv
<1>7. ASSUME NEW uids \in SUBSET UID, toDeleteQueue(uids), UNCHANGED <<live, job>>
      PROVE  /\ \A u \in UID : uidToBranchENIMap'[u] # None => uidToBranchENIMap'[u] \in live' \ deleteQueue'
             /\ \A u, v \in UID : uidToBranchENIMap'[u] # None /\ uidToBranchENIMap'[u] = uidToBranchENIMap'[v] => u = v
             /\ job'.pc = "cache" => /\ job'.eni \in live' \ deleteQueue'
                                     /\ \A u \in UID : uidToBranchENIMap'[u] # job'.eni
             /\ job'.pc \in {"annotate", "patch"} => \A u \in UID \ {job'.uid} : uidToBranchENIMap'[u] # job'.eni
  <2>1. /\ deleteQueue' = deleteQueue \cup ({uidToBranchENIMap[u] : u \in uids} \ {None})
        /\ \A u \in UID : uidToBranchENIMap'[u] = IF u \in uids THEN None ELSE uidToBranchENIMap[u]
    BY <1>7 DEF toDeleteQueue
  <2>2. ASSUME NEW u \in UID, uidToBranchENIMap'[u] # None PROVE uidToBranchENIMap'[u] \in live' \ deleteQueue'
    <3>1. u \notin uids /\ uidToBranchENIMap'[u] = uidToBranchENIMap[u]
      BY <2>1, <2>2
    <3>2. \A v \in uids : uidToBranchENIMap[v] # uidToBranchENIMap[u]
      BY <1>2, <2>2, <3>1 DEF ExclusiveInv
    <3> QED
      BY <1>2, <1>7, <2>1, <2>2, <3>1, <3>2 DEF ExclusiveInv
  <2>3. job.eni # None => \A u \in UID : uidToBranchENIMap[u] # job.eni => uidToBranchENIMap'[u] # job.eni
    BY <2>1
  <2>4. job.pc \in {"cache", "annotate", "patch"} => job.eni # None
    BY <1>0 DEF JobType
  <2>5. ASSUME job.pc = "cache"
        PROVE  job.eni \in live' \ deleteQueue' /\ \A u \in UID : uidToBranchENIMap'[u] # job.eni
    <3>1. job.eni \in live \ deleteQueue /\ \A u \in UID : uidToBranchENIMap[u] # job.eni
      BY <1>2, <2>5 DEF ExclusiveInv
    <3> QED
      BY <1>7, <2>1, <2>3, <2>4, <2>5, <3>1
  <2>6. job.pc \in {"annotate", "patch"} => \A u \in UID \ {job.uid} : uidToBranchENIMap'[u] # job.eni
    BY <1>2, <2>3, <2>4 DEF ExclusiveInv
  <2>7. \A u, v \in UID : uidToBranchENIMap'[u] # None /\ uidToBranchENIMap'[u] = uidToBranchENIMap'[v] => u = v
    BY <1>2, <2>1 DEF ExclusiveInv
  <2> QED
    BY <1>7, <2>2, <2>5, <2>6, <2>7
<1>8. CASE DeleteBranchUsedByPods /\ Head(jobs) \in UID /\ toDeleteQueue({Head(jobs)}) /\ UNCHANGED live
  BY <1>7, <1>8 DEF DeleteBranchUsedByPods
<1>9. CASE ReconcileNode /\ leaked \subseteq UID /\ toDeleteQueue(leaked) /\ UNCHANGED live
  BY <1>7, <1>9 DEF ReconcileNode, work
<1>10. CASE DeleteCooledDownENIs
  <2>1. PICK e \in deleteQueue : /\ deleteQueue' = deleteQueue \ {e} /\ live' = live \ {e}
                                 /\ UNCHANGED <<uidToBranchENIMap, job>>
    BY <1>10 DEF DeleteCooledDownENIs, work
  <2> QED
    BY <1>2, <2>1 DEF ExclusiveInv
<1>11. CASE InitTrunk
  <2>1. UNCHANGED <<job, live>> /\ ~trunk /\ deleteQueue' = live \ {p.ann : p \in listed}
    BY <1>11 DEF InitTrunk, work
  <2>2. ~(job.pc \in {"cache", "annotate", "patch"})
    BY <1>2, <2>1 DEF TrunkInv
  <2>3. ASSUME NEW u \in UID, uidToBranchENIMap'[u] # None
        PROVE  \E p \in listed : p.uid = u /\ uidToBranchENIMap'[u] = p.ann /\ p.ann \in live
    BY <1>11, <2>3, InitTrunkMap DEF ExclusiveInv
  <2>4. \A u \in UID : uidToBranchENIMap'[u] # None => uidToBranchENIMap'[u] \in live' \ deleteQueue'
    BY <2>1, <2>3
  <2>5. \A u, v \in UID : uidToBranchENIMap'[u] # None /\ uidToBranchENIMap'[u] = uidToBranchENIMap'[v] => u = v
    BY <2>3 DEF ExclusiveInv
  <2> QED
    BY <2>1, <2>2, <2>4, <2>5
<1>12. CASE DeleteAllBranchENIs \/ removeTrunkFromCache
  BY <1>2, <1>12 DEF DeleteAllBranchENIs, removeTrunkFromCache, deleteNode, here
<1> QED
  BY <1>3, <1>4, <1>5, <1>6, <1>8, <1>9, <1>10, <1>11, <1>12, BranchSteps

-----------------------------------------------------------------------------
(***************************************************************************)
(* The trunk holds for a running pod the interface its job is about to     *)
(* annotate, and then the one it was annotated with, unless a namesake's   *)
(* job patched the pod or the node's reconciliation took the interface     *)
(* away.                                                                   *)
(***************************************************************************)
OwnedInv ==
  here /\ running /\ created \notin foreign \cup stolen =>
    /\ job.pc \in {"annotate", "patch"} /\ job.uid = created => uidToBranchENIMap[created] = job.eni
    /\ trunk /\ api.ann # None => uidToBranchENIMap[created] = api.ann

PipelineInv == PodInv /\ JobOf /\ AnnotationInv /\ TrunkInv /\ JobInv /\ ExclusiveInv /\ OwnedInv

\* No step takes the interface from under the pod or its job.
LEMMA OwnedStep ==
  ASSUME Types, PipelineInv, [Next]_vars
  PROVE  OwnedInv'
<1>0. /\ PodInv /\ JobOf /\ AnnotationInv /\ TrunkInv /\ JobInv /\ ExclusiveInv /\ OwnedInv
      /\ ClusterType /\ WatchType /\ NodeType /\ BranchType /\ JobType /\ NoJob.pc = "idle" /\ created \in Nat
      /\ UID \subseteq Nat \ {0}
  BY JobFacts, Numbers DEF PipelineInv, Types
<1> SUFFICES ASSUME here', running', created' \notin foreign' \cup stolen'
             PROVE  /\ job'.pc \in {"annotate", "patch"} /\ job'.uid = created' => uidToBranchENIMap'[created'] = job'.eni
                    /\ trunk' /\ api'.ann # None => uidToBranchENIMap'[created'] = api'.ann
  BY DEF OwnedInv
<1>1. CASE PodCreated
  <2>1. UNCHANGED job /\ created' = created + 1 /\ api'.ann = None
    BY <1>1, PodSteps DEF PodCreated, work
  <2>2. job.pc \in {"annotate", "patch"} => job'.uid # created'
    BY <1>0, <2>1 DEF JobOf
  <2> QED
    BY <2>1, <2>2
<1>2. CASE ~PodCreated
  <2>0. /\ here /\ running /\ UNCHANGED created /\ created \in UID /\ api # NoPod /\ api' # NoPod
        /\ api'.ann = api.ann \/ (Patch /\ ~UNCHANGED api)
    <3>1. here /\ running /\ UNCHANGED created
      BY <1>2, PodSteps, NodeSteps, IsPod DEF running
    <3>2. api # NoPod /\ api' # NoPod
      BY <3>1 DEF running
    <3>3. created \in UID
      BY <1>0, <3>2, IsPod DEF PodInv, ClusterType
    <3>4. api'.ann = api.ann \/ (Patch /\ ~UNCHANGED api)
      BY <1>2, <3>2, PodSteps
    <3> QED
      BY <3>1, <3>2, <3>3, <3>4
  <2>excuse. /\ ~addBranchToCache => created \notin foreign \cup stolen
             /\ job.uid # created => created \notin foreign \cup stolen
    <3>1. ~PodDeleted
      BY <2>0 DEF PodDeleted
    <3>2. foreign \subseteq foreign'
      BY <3>1, Frames DEF Patch
    <3>3. stolen \ {job.uid} \subseteq stolen' /\ (~addBranchToCache => stolen \subseteq stolen')
      BY <3>1, Frames DEF addBranchToCache, ReconcileNode
    <3> QED
      BY <2>0, <3>2, <3>3
  <2>1. CASE UNCHANGED uidToBranchENIMap /\ (trunk' => trunk) /\ ~addBranchToCache
    <3>1. job'.pc \in {"annotate", "patch"} /\ job'.uid = created' => uidToBranchENIMap'[created'] = job'.eni
      <4>1. CASE UNCHANGED job
        BY <1>0, <2>0, <2>excuse, <2>1, <4>1 DEF OwnedInv
      <4>2. CASE job' = NoJob \/ job'.pc \in {"fetch", "create", "cache"}
        BY <1>0, <4>2
      <4>3. CASE job.pc = "annotate" /\ job'.pc = "patch" /\ job'.uid = job.uid /\ job'.eni = job.eni
        BY <1>0, <2>0, <2>excuse, <2>1, <4>3 DEF OwnedInv
      <4> QED
        BY <2>1, <4>1, <4>2, <4>3, JobSteps
    <3>2. trunk' /\ api'.ann # None => uidToBranchENIMap'[created'] = api'.ann
      <4>1. CASE api'.ann = api.ann
        BY <1>0, <2>0, <2>excuse, <2>1, <4>1 DEF OwnedInv
      <4>2. CASE Patch /\ ~UNCHANGED api
        <5>1. job.pc = "patch" /\ api'.ann = job.eni /\ api.uid = created
              /\ foreign' = IF api.uid = job.uid THEN foreign ELSE foreign \cup {api.uid}
          BY <1>0, <2>0, <4>2, PodSteps DEF Patch, PodInv
        <5>2. job.uid = created /\ created \notin foreign \cup stolen
          BY <2>0, <2>excuse, <2>1, <5>1
        <5> QED
          BY <1>0, <2>0, <2>1, <5>1, <5>2 DEF OwnedInv
      <4> QED
        BY <2>0, <4>1, <4>2
    <3> QED
      BY <3>1, <3>2
  <2>caching. addBranchToCache => job.pc = "cache" /\ job'.pc = "annotate"
    BY <1>0 DEF addBranchToCache, JobType
  <2>2. CASE addBranchToCache
    <3>1. /\ job.pc = "cache" /\ job' = [job EXCEPT !.pc = "annotate"] /\ UNCHANGED <<api, trunk>>
          /\ uidToBranchENIMap' = [uidToBranchENIMap EXCEPT ![job.uid] = job.eni]
      BY <2>2 DEF addBranchToCache, cluster
    <3>2. job'.uid = job.uid /\ job'.eni = job.eni
      BY <1>0, <3>1 DEF JobType
    <3>3. uidToBranchENIMap'[created] = IF created = job.uid THEN job.eni ELSE uidToBranchENIMap[created]
      BY <1>0, <2>0, <3>1 DEF BranchType
    <3>4. job.uid = created => api.ann = None
      BY <1>0, <3>1 DEF AnnotationInv
    <3> QED
      BY <1>0, <2>0, <2>excuse, <3>1, <3>2, <3>3, <3>4 DEF OwnedInv
  <2>3. CASE PushENIsToFrontOfDeleteQueue /\ job' = NoJob /\ job.pc \in {"annotate", "patch"} /\ UNCHANGED api /\ (trunk' => trunk)
    <3>1. uidToBranchENIMap'[created] = IF created = job.uid THEN None ELSE uidToBranchENIMap[created]
      BY <1>0, <2>0, <2>3 DEF PushENIsToFrontOfDeleteQueue, BranchType
    <3>2. job.uid = created => api.ann = None
      BY <1>0, <2>3 DEF AnnotationInv
    <3> QED
      BY <1>0, <2>0, <2>excuse, <2>3, <2>caching, <3>1, <3>2 DEF OwnedInv
  <2>4. CASE DeleteBranchUsedByPods /\ jobs # << >> /\ Head(jobs) \in UID /\ toDeleteQueue({Head(jobs)})
    <3>1. UNCHANGED <<job, api, trunk>> /\ Head(jobs) # Create
      BY <2>4 DEF DeleteBranchUsedByPods, cluster
    <3>2. CASE Head(jobs) = created
      <4>1. 1 \in DOMAIN jobs /\ jobs[1] = created /\ jobs[1] # Create
        BY <2>4, <3>1, <3>2, TailFacts DEF Types, WorkType
      <4>2. idle
        BY <1>0, <2>0, <4>1 DEF JobInv
      <4> QED
        BY <3>1, <4>2 DEF idle
    <3>3. CASE Head(jobs) # created
      <4>1. uidToBranchENIMap'[created] = uidToBranchENIMap[created]
        BY <2>0, <2>4, <3>3 DEF toDeleteQueue
      <4> QED
        BY <1>0, <2>0, <2>excuse, <2>caching, <3>1, <4>1 DEF OwnedInv
    <3> QED
      BY <3>2, <3>3
  <2>5. CASE ReconcileNode /\ toDeleteQueue(leaked)
    <3>1. UNCHANGED <<job, api, trunk>>
      BY <2>5 DEF ReconcileNode, work, cluster
    <3>2. CASE created \in leaked
      <4>1. created \in stolen'
        BY <1>0, <2>0, <2>5, <3>2 DEF ReconcileNode, PodInv
      <4> QED
        BY <2>0, <4>1
    <3>3. CASE created \notin leaked
      <4>1. uidToBranchENIMap'[created] = uidToBranchENIMap[created]
        BY <2>0, <2>5, <3>3 DEF toDeleteQueue
      <4> QED
        BY <1>0, <2>0, <2>excuse, <2>caching, <3>1, <4>1 DEF OwnedInv
    <3> QED
      BY <3>2, <3>3
  <2>6. CASE InitTrunk
    <3>1. UNCHANGED <<job, api>> /\ ~trunk /\ (listed # {} \/ store = NoPod \/ store.phase = "completed")
      BY <2>6 DEF InitTrunk, work, cluster
    <3>2. ~(job.pc \in {"cache", "annotate", "patch"})
      BY <1>0, <2>0, <3>1 DEF TrunkInv
    <3>3. ASSUME api.ann # None PROVE uidToBranchENIMap'[created] = api.ann
      <4>0. created = 1 /\ store # NoPod /\ api.ann \in live
        BY <1>0, <2>0, <3>1, <3>3 DEF TrunkInv
      <4>1. store # NoPod /\ store.phase # "completed"
        <5>1. store.uid \in Nat \ {0} /\ store.uid <= 1
          BY <1>0, <4>0, Numbers DEF PodInv
        <5>2. store.uid = created
          BY <4>0, <5>1
        <5> QED
          BY <1>0, <2>0, <4>0, <5>2 DEF PodInv
      <4>2. api.ann \in live /\ \A p \in listed : p.uid = created /\ p.ann = api.ann
        <5> SUFFICES ASSUME NEW p \in listed PROVE p.uid = created /\ p.ann = api.ann
          BY <4>0
        <5>1. p.uid \in Nat \ {0} /\ p.uid <= 1
          BY <1>0, <4>0, IsPod DEF TrunkInv, NodeType
        <5>2. p.uid = created
          BY <4>0, <5>1
        <5> QED
          BY <1>0, <2>0, <3>1, <5>2 DEF TrunkInv
      <4>3. listed # {}
        BY <3>1, <4>1
      <4>4. ~(\A p \in listed : p.uid = created => p.ann \notin live)
        BY <4>2, <4>3
      <4> QED
        BY <2>0, <2>6, <4>2, <4>4, InitTrunkMap
    <3> QED
      BY <2>0, <3>1, <3>2, <3>3
  <2>7. trunk' => trunk \/ InitTrunk
    BY NodeSteps
  <2>8. CASE DeleteAllBranchENIs \/ removeTrunkFromCache
    BY <2>0, <2>8 DEF DeleteAllBranchENIs, removeTrunkFromCache, deleteNode, here
  <2>9. UNCHANGED branches \/ CreateAndAssociateBranchENIs \/ DeleteCooledDownENIs => UNCHANGED uidToBranchENIMap
    BY DEF branches, CreateAndAssociateBranchENIs, DeleteCooledDownENIs
  <2> QED
    BY <2>1, <2>2, <2>3, <2>4, <2>5, <2>6, <2>7, <2>8, <2>9, BranchSteps
<1> QED
  BY <1>1, <1>2

\* The states the controller starts in satisfy the invariant.
LEMMA InitPipeline == Init => PipelineInv
<1> SUFFICES ASSUME Init PROVE PipelineInv
  OBVIOUS
<1>0. /\ elements(stream) = {} /\ DOMAIN jobs = {} /\ store = api /\ job = NoJob /\ NoJob.pc = "idle" /\ ~again
      /\ deleted = {} /\ listed = {} /\ trunk = FALSE /\ view = "unknown" /\ api \in Pod \cup {NoPod} /\ created = api.uid
      /\ NoPod.phase = "none" /\ NoPod.ann = None
  <2>1. Types
    BY InitTypes
  <2>2. api \in Pod \cup {NoPod} /\ NoPod.phase = "none" /\ NoPod.ann = None
    BY <2>1 DEF Types, ClusterType, NoPod
  <2> QED
    BY <2>1, <2>2, ShortFacts, JobFacts DEF Init, Node!Unknown
<1>1. PodInv /\ JobOf
  <2>1. created \in Nat
    BY InitTypes, Numbers
  <2> QED
    BY <1>0, <2>1 DEF PodInv, JobOf, running
<1>2. api.ann \in live \cup {None} /\ (api.ann # None => api # NoPod)
  <2>1. api = NoPod \/ api.ann \in {None} \cup live
    BY DEF Init
  <2> QED
    BY <1>0, <2>1
<1>3. AnnotationInv /\ TrunkInv
  <2>1. api # NoPod => api.uid = 1
    BY DEF Init
  <2> QED
    BY <1>0, <1>2, <2>1 DEF AnnotationInv, TrunkInv
<1>4. JobInv
  <2>1. node = "new" => api.ann = None
    <3> SUFFICES ASSUME node = "new" PROVE api.ann = None
      OBVIOUS
    <3>1. live = {}
      BY DEF Init
    <3> QED
      BY <1>2, <3>1
  <2> QED
    BY <1>0, <2>1 DEF JobInv, idle
<1>5. ExclusiveInv
  <2>1. \A u \in UID : uidToBranchENIMap[u] = None
    BY DEF Init
  <2> QED
    BY <1>0, <2>1 DEF ExclusiveInv
<1>6. OwnedInv
  BY <1>0 DEF OwnedInv
<1> QED
  BY <1>1, <1>3, <1>4, <1>5, <1>6 DEF PipelineInv

\* The interface in the annotation of a running pod on a ready node is the one the
\* trunk holds for this very pod, exists and is not queued for deletion.  It holds
\* for any number of incarnations, recreated at any moment, for any retries, failing
\* calls, interruptions and delays of the watch, and restarts.  The pods excepted
\* are the two that AnnotatedInterfaceOwned names.
THEOREM AnnotatedPodOwnsInterface == Spec => []AnnotatedInterfaceOwned
<1>1. ASSUME Types, PipelineInv, [Next]_vars PROVE PipelineInv'
  <2>1. PodInv /\ JobOf /\ AnnotationInv /\ TrunkInv /\ JobInv /\ ExclusiveInv
    BY <1>1 DEF PipelineInv
  <2> QED
    BY <1>1, <2>1, PodInvStep, JobOfStep, AnnotationStep, TrunkStep, JobInvStep, ExclusiveStep, OwnedStep DEF PipelineInv
<1>2. ASSUME Types, PipelineInv PROVE AnnotatedInterfaceOwned
  <2> SUFFICES ASSUME api.ann # None, served(api), api.uid \notin foreign \cup stolen
               PROVE  uidToBranchENIMap[api.uid] = api.ann /\ api.ann \in live \ deleteQueue
    BY DEF AnnotatedInterfaceOwned
  <2>1. api.phase = "bound" /\ here /\ trunk
    BY <1>2 DEF served, nodeExists, here, PipelineInv, TrunkInv, Node!Ready
  <2>2. api # NoPod /\ api.uid = created /\ running
    BY <1>2, <2>1 DEF PipelineInv, PodInv, running, NoPod
  <2>3. created \in UID
    BY <1>2, <2>2, IsPod DEF Types, ClusterType
  <2>4. uidToBranchENIMap[created] = api.ann
    BY <1>2, <2>1, <2>2 DEF PipelineInv, OwnedInv
  <2> QED
    BY <1>2, <2>1, <2>2, <2>3, <2>4 DEF PipelineInv, ExclusiveInv
<1> QED
  BY <1>1, <1>2, InitPipeline, TypesInvariant, PTL DEF Spec
=============================================================================
