-------------------------- MODULE CpuSetterProofs ---------------------------
(***************************************************************************)
(* Proofs about CpuSetter, for every configuration of pools, every set of  *)
(* Pods and every number of workers, retries, starts, crashes and faults:  *)
(*   TypeCorrect   Spec => []TypeOK                                        *)
(*   Invariance    Spec => []IInv                                          *)
(*   ConfinedThm   Spec => []Confined                                      *)
(*   HandlesStartedPodsThm   Spec => []HandlesStartedPods                  *)
(*   IsolationThm  Separated => (Spec => []Isolation)                      *)
(***************************************************************************)
EXTENDS CpuSetter, PoolConfigProofs

-----------------------------------------------------------------------------
(* Type correctness.                                                       *)

LEMMA BlankType ==
  ASSUME NEW u \in Pods \cup {NoPod}, NEW ph \in Phases
  PROVE  /\ Blank(u, ph) \in Objects /\ Blank(u, ph).uid = u /\ Blank(u, ph).phase = ph
         /\ \A c \in Containers : Blank(u, ph).ids[c] = 0
  BY BoundsAssumption DEF Blank, Objects

LEMMA NoObjectType ==
  NoObject \in Objects /\ \A c \in Containers : NoObject.ids[c] = 0
  BY BlankType DEF NoObject, Phases

(* What a GET by name returns is a Pod object of the API server, if any.   *)
LEMMA StoredType ==
  ASSUME TypeOK, NEW n
  PROVE  /\ Stored(n) \in Objects
         /\ Stored(n) = NoObject \/ \E p \in Pods : Stored(n) = api[p]
         /\ Stored(n).phase # "Absent" => Stored(n).uid \in Pods
  <1>1. CASE WithName(n) = {}
    <2>1. Stored(n) = NoObject
      BY <1>1 DEF Stored
    <2> QED
      BY <2>1, NoObjectType, BlankType DEF NoObject, Phases
  <1>2. CASE WithName(n) # {}
    <2>1. PICK p \in Pods : Stored(n) = api[p]
      BY <1>2 DEF Stored, WithName
    <2> QED
      BY <2>1 DEF TypeOK, KubeTypeOK
  <1> QED
    BY <1>1, <1>2

LEMMA CheckpointType ==
  ASSUME KubeTypeOK, NEW p \in Pods, NEW c \in Containers
  PROVE  \A r \in CheckpointRequests(p, c) :
           /\ r \in PoolNames
           /\ GetListOfAllocatedExclusiveCpus(p, c)[r] \in SUBSET Nat
  BY PodsAssumption DEF CheckpointRequests, GetListOfAllocatedExclusiveCpus, KubeTypeOK

LEMMA CorrectSetsType ==
  ASSUME KubeTypeOK, NEW p \in Pods, NEW c \in Containers, NEW o \in CorrectSets(p, c)
  PROVE  /\ o.cfg \subseteq CPUs /\ o.real \subseteq CPUs
         /\ [cfg |-> o.cfg, real |-> o.real] \in Values
  <1> DEFINE devs == GetListOfAllocatedExclusiveCpus(p, c)
  <1>1. \A r \in RequestsOf(p, c) : RequestKind(r) \in CheckpointKinds => devs[r] \in SUBSET Nat
    BY CheckpointType DEF CheckpointRequests
  <1>2. o \in DetermineCorrectCpuset(RequestsOf(p, c), devs)
    BY DEF CorrectSets
  <1> HIDE DEF devs
  <1> QED
    BY <1>1, <1>2, OutcomesType DEF Values

LEMMA SpecContainerType ==
  ASSUME NEW p \in Pods
  PROVE  /\ ContainersOf(p) \subseteq Containers
         /\ 1 \in 1 .. Len(SpecContainers[p])
         /\ \A i \in 1 .. Len(SpecContainers[p]) :
              SpecContainers[p][i] \in Containers /\ SpecContainers[p][i] \in ContainersOf(p)
  BY PodsAssumption DEF ContainersOf

LEMMA WorkerContainerType ==
  ASSUME TypeOK, NEW w \in Workers, pc[w] \in Adjusting
  PROVE  Uid(w) \in Pods /\ Cont(w) \in Containers /\ Cont(w) \in ContainersOf(Uid(w))
  BY SpecContainerType DEF TypeOK, WorkObjectsOK, Adjusting, Uid, Cont

LEMMA DirType ==
  ASSUME FileTypeOK, NEW n \in Names, NEW c \in Containers, NEW cfg \in SUBSET CPUs,
         ClearDir(n, c) \/ FillDir(n, c, cfg)
  PROVE  cpuDir' \in [Names -> [Containers -> CpuDirs]]
  <1>1. Cardinality(cfg) \in Nat
    BY CPUsFinite, FS_Subset, FS_CardinalityType
  <1>2. EmptyDir \in CpuDirs
    BY DEF EmptyDir, CpuDirs, NoFile
  <1>3. CASE ClearDir(n, c)
    BY <1>2, <1>3 DEF ClearDir, FileTypeOK
  <1>4. CASE FillDir(n, c, cfg)
    <2> DEFINE k == Cardinality(cfg)
               new == [dirs |-> cpuDir[n][c].dirs \cup {0} \cup 1 .. k - 1, kernelMax |-> k - 1]
    <2>1. new \in CpuDirs
      BY <1>1 DEF CpuDirs, FileTypeOK
    <2>2. cpuDir' = [cpuDir EXCEPT ![n][c] = new]
      BY <1>4 DEF FillDir, FileTypeOK
    <2> HIDE DEF new
    <2> QED
      BY <2>1, <2>2 DEF FileTypeOK
  <1> QED
    BY <1>3, <1>4

LEMMA GiveUpType ==
  ASSUME WorkTypeOK, WorkObjectsOK, NEW w \in Workers, GiveUp(w)
  PROVE  WorkTypeOK' /\ WorkObjectsOK'
  <1>1. NoValue \in Values
    BY DEF NoValue, Values
  <1>2. WorkTypeOK'
    BY <1>1, NoObjectType, BoundsAssumption DEF WorkTypeOK, GiveUp, Goto, WorkerLabels
  <1>3. WorkObjectsOK'
    BY DEF WorkTypeOK, WorkObjectsOK, GiveUp, Goto
  <1> QED
    BY <1>2, <1>3

LEMMA RetryType ==
  ASSUME WorkTypeOK, WorkObjectsOK, NEW w \in Workers, pc[w] \in Adjusting, Retry(w)
  PROVE  WorkTypeOK' /\ WorkObjectsOK'
  <1>1. NoValue \in Values
    BY DEF NoValue, Values
  <1>2. CASE try[w] + 1 < MaxRetryCount
    <2>0. try[w] + 1 \in 0 .. MaxRetryCount - 1
      BY <1>2, BoundsAssumption DEF WorkTypeOK
    <2>1. WorkTypeOK'
      <3>1. /\ try' = [try EXCEPT ![w] = try[w] + 1] /\ wobj' = wobj
            /\ pc' = [pc EXCEPT ![w] = "determine"] /\ idx' = [idx EXCEPT ![w] = 1]
            /\ val' = [val EXCEPT ![w] = NoValue] /\ path' = [path EXCEPT ![w] = FALSE]
        BY <1>2 DEF Retry, Goto, WorkTypeOK
      <3> QED
        BY <1>1, <2>0, <3>1 DEF WorkTypeOK, WorkerLabels
    <2>2. WorkObjectsOK'
      BY <1>2, SpecContainerType DEF WorkTypeOK, WorkObjectsOK, Retry, Goto, Adjusting
    <2> QED
      BY <2>1, <2>2
  <1>3. CASE ~(try[w] + 1 < MaxRetryCount)
    BY <1>3, GiveUpType DEF Retry
  <1> QED
    BY <1>2, <1>3

LEMMA HandleType ==
  ASSUME WorkTypeOK, WorkObjectsOK, NEW w \in Workers, NEW o \in Objects, Handle(w, o)
  PROVE  WorkTypeOK' /\ WorkObjectsOK'
  <1>1. CASE o.uid \in Local /\ IsPodReadyForProcessing(o)
    <2>1. WorkTypeOK'
      BY <1>1, BoundsAssumption DEF WorkTypeOK, Handle, Goto, WorkerLabels
    <2>2. WorkObjectsOK'
      <3>1. o.uid \in Pods /\ 1 \in 1 .. Len(SpecContainers[o.uid])
        BY <1>1, SpecContainerType, PodsAssumption
      <3>2. /\ wobj' = [wobj EXCEPT ![w] = o] /\ idx' = [idx EXCEPT ![w] = 1]
            /\ pc' = [pc EXCEPT ![w] = "determine"]
        BY <1>1 DEF Handle, Goto
      <3> QED
        BY <3>1, <3>2 DEF WorkTypeOK, WorkObjectsOK
    <2> QED
      BY <2>1, <2>2
  <1>2. CASE ~(o.uid \in Local /\ IsPodReadyForProcessing(o))
    BY <1>2, GiveUpType DEF Handle
  <1> QED
    BY <1>1, <1>2

(* TypeOK by groups of variables: an action that leaves a group alone      *)
(* leaves its part of TypeOK alone.                                        *)
ApiUidOK == \A p \in Pods : api[p].uid = p

LEMMA TypeFrame ==
  ASSUME TypeOK
  PROVE  /\ UNCHANGED kubeVars => KubeTypeOK' /\ ApiUidOK'
         /\ UNCHANGED cgroupVars => CgroupTypeOK'
         /\ UNCHANGED <<cpuDir, annotated>> => FileTypeOK'
         /\ UNCHANGED watchVars => WatchTypeOK' /\ QueueOK'
         /\ UNCHANGED workVars => WorkTypeOK' /\ WorkObjectsOK'
         /\ UNCHANGED recVars => RecTypeOK'
         /\ UNCHANGED procVars => ProcTypeOK'
  <1> USE DEF TypeOK
  <1>1. UNCHANGED kubeVars => KubeTypeOK' /\ ApiUidOK'
    BY DEF kubeVars, KubeTypeOK, ApiUidOK
  <1>2. UNCHANGED cgroupVars => CgroupTypeOK'
    BY DEF cgroupVars, CgroupTypeOK
  <1>3. UNCHANGED <<cpuDir, annotated>> => FileTypeOK'
    BY DEF FileTypeOK
  <1>4. UNCHANGED watchVars => WatchTypeOK' /\ QueueOK'
    BY DEF watchVars, WatchTypeOK, QueueOK
  <1>5. UNCHANGED workVars => WorkTypeOK' /\ WorkObjectsOK'
    BY DEF workVars, WorkTypeOK, WorkObjectsOK
  <1>6. UNCHANGED recVars => RecTypeOK'
    BY DEF recVars, RecTypeOK
  <1>7. UNCHANGED procVars => ProcTypeOK'
    BY DEF procVars, ProcTypeOK
  <1> QED
    BY <1>1, <1>2, <1>3, <1>4, <1>5, <1>6, <1>7

LEMMA EnvironmentType ==
  ASSUME TypeOK, Environment
  PROVE  KubeTypeOK' /\ ApiUidOK' /\ CgroupTypeOK'
  <1> USE DEF TypeOK, ApiUidOK
  <1>0. PICK p \in Pods :
          \/ CreatePod(p) \/ AdmitPod(p) \/ FinishPod(p) \/ DeletePod(p) \/ StatusUpdate(p)
          \/ \E c \in Containers : StartContainer(p, c) \/ StopContainer(p, c)
    BY DEF Environment
  <1>1. CASE CreatePod(p)
    BY <1>1, BlankType DEF CreatePod, KubeTypeOK, CgroupTypeOK, cgroupVars, Stages, Phases
  <1>2. CASE AdmitPod(p)
    <2>1. stage' \in [Pods -> Stages]
      BY <1>2 DEF AdmitPod, KubeTypeOK, Stages
    <2>2. alloc' \in [Pods -> [Containers -> [PoolNames -> SUBSET Nat]]] /\ ckpt' \in SUBSET Pods
      <3>1. CASE p \in Local
        <4>1. PICK f \in Allocations(p) :
                /\ alloc' = [alloc EXCEPT ![p] = [c \in Containers |-> [r \in PoolNames |->
                               IF <<c, r>> \in DeviceClaims(p) THEN f[<<c, r>>] ELSE {}]]]
                /\ ckpt' = {q \in ckpt : stage[q] = "admitted"} \cup {p}
          BY <1>2, <3>1 DEF AdmitPod
        <4>2. \A c \in Containers, r \in PoolNames :
                <<c, r>> \in DeviceClaims(p) => f[<<c, r>>] \in SUBSET Nat
          <5>1. \A cr \in DeviceClaims(p) : f[cr] \subseteq DeviceIDs(cr[2]) /\ cr[2] \in PoolNames
            BY DEF Allocations, DeviceClaims
          <5> QED
            BY <5>1, DeviceIDsType
        <4>3. [c \in Containers |-> [r \in PoolNames |->
                 IF <<c, r>> \in DeviceClaims(p) THEN f[<<c, r>>] ELSE {}]]
                \in [Containers -> [PoolNames -> SUBSET Nat]]
          BY <4>2
        <4> QED
          BY <4>1, <4>3 DEF KubeTypeOK
      <3>2. CASE p \notin Local
        BY <1>2, <3>2 DEF AdmitPod, KubeTypeOK
      <3> QED
        BY <3>1, <3>2
    <2> QED
      BY <1>2, <2>1, <2>2 DEF AdmitPod, KubeTypeOK, CgroupTypeOK, cgroupVars
  <1>3. CASE FinishPod(p)
    BY <1>3 DEF FinishPod, KubeTypeOK, CgroupTypeOK, cgroupVars, Stages
  <1>4. CASE DeletePod(p)
    BY <1>4, BlankType DEF DeletePod, KubeTypeOK, CgroupTypeOK, cgroupVars, Stages, Phases
  <1>5. CASE StatusUpdate(p)
    <2>1. Observed(p) \in Objects /\ Observed(p).uid = p
      BY DEF Observed, Objects, KubeTypeOK, Phases
    <2> QED
      BY <1>5, <2>1 DEF StatusUpdate, KubeTypeOK, CgroupTypeOK, cgroupVars
  <1>6. ASSUME NEW c \in Containers, StartContainer(p, c)
        PROVE  KubeTypeOK' /\ ApiUidOK' /\ CgroupTypeOK'
    <2>1. inc[p][c] + 1 \in 0 .. MaxStarts
      BY <1>6, BoundsAssumption DEF StartContainer, KubeTypeOK
    <2>2. inc' = [inc EXCEPT ![p][c] = inc[p][c] + 1]
      BY <1>6 DEF StartContainer, KubeTypeOK
    <2>3. KubeTypeOK' /\ ApiUidOK'
      BY <1>6, <2>1, <2>2 DEF StartContainer, KubeTypeOK
    <2>4. CgroupTypeOK'
      BY <1>6 DEF StartContainer, CgroupTypeOK, AllCpus
    <2> QED
      BY <2>3, <2>4
  <1>7. ASSUME NEW c \in Containers, StopContainer(p, c)
        PROVE  KubeTypeOK' /\ ApiUidOK' /\ CgroupTypeOK'
    BY <1>7 DEF StopContainer, KubeTypeOK, CgroupTypeOK, cgroupVars
  <1> QED
    BY <1>0, <1>1, <1>2, <1>3, <1>4, <1>5, <1>6, <1>7

LEMMA EnvironmentFrame ==
  ASSUME Environment
  PROVE  UNCHANGED <<cpuDir, annotated, watchVars, workVars, recVars, procVars>>
  BY DEF Environment, CreatePod, AdmitPod, FinishPod, DeletePod, StatusUpdate, StartContainer,
         StopContainer

LEMMA InformerType ==
  ASSUME TypeOK, Informer
  PROVE  WatchTypeOK' /\ QueueOK'
  <1> USE DEF TypeOK
  <1>0. PICK n \in Names : InformerQuiet(n) \/ PodChanged(n)
    BY DEF Informer
  <1>1. Stored(n) \in Objects /\ (Stored(n).phase # "Absent" => Stored(n).uid \in Pods)
    BY StoredType
  <1>2. CASE InformerQuiet(n)
    BY <1>1, <1>2 DEF InformerQuiet, WatchTypeOK, QueueOK
  <1>3. CASE PodChanged(n)
    <2>1. seen' \in [Names -> Objects]
      BY <1>1, <1>3 DEF PodChanged, WatchTypeOK
    <2>2. queue' = queue \/ queue' = Append(queue, Stored(n))
      BY <1>3 DEF PodChanged
    <2>3. Stored(n).uid \in Pods
      BY <1>1, <1>3 DEF PodChanged
    <2>4. queue' \in Seq(Objects) /\ QueueOK'
      <3>1. CASE queue' = queue
        BY <3>1 DEF WatchTypeOK, QueueOK
      <3>2. CASE queue' = Append(queue, Stored(n))
        <4>1. queue \in Seq(Objects) /\ Stored(n) \in Objects
          BY <1>1 DEF WatchTypeOK
        <4>2. queue' \in Seq(Objects) /\ Len(queue') = Len(queue) + 1 /\ Len(queue) \in Nat
          BY <3>2, <4>1
        <4>3. \A i \in 1 .. Len(queue) : queue'[i] = queue[i]
          BY <3>2, <4>1
        <4>4. queue'[Len(queue) + 1] = Stored(n)
          BY <3>2, <4>1
        <4> QED
          BY <4>2, <4>3, <4>4, <2>3 DEF QueueOK
      <3> QED
        BY <2>2, <3>1, <3>2
    <2> QED
      BY <2>1, <2>4 DEF WatchTypeOK
  <1> QED
    BY <1>0, <1>2, <1>3

LEMMA WorkerType ==
  ASSUME TypeOK, NEW w \in Workers, Worker(w)
  PROVE  TypeOK'
  <1> USE DEF TypeOK
  <1>a. WorkTypeOK /\ WorkObjectsOK
    OBVIOUS
  <1>f. /\ UNCHANGED kubeVars => KubeTypeOK' /\ ApiUidOK'
        /\ UNCHANGED cgroupVars => CgroupTypeOK'
        /\ UNCHANGED <<cpuDir, annotated>> => FileTypeOK'
        /\ UNCHANGED watchVars => WatchTypeOK' /\ QueueOK'
        /\ UNCHANGED recVars => RecTypeOK'
        /\ UNCHANGED procVars => ProcTypeOK'
    BY TypeFrame
  <1>1. CASE ProcessNextWorkItem(w)
    <2>1. Head(queue) \in Objects /\ Head(queue).uid \in Pods
      BY <1>1 DEF ProcessNextWorkItem, WatchTypeOK, QueueOK
    <2>2. WorkTypeOK' /\ WorkObjectsOK'
      <3>1. CASE Head(queue).phase = "Succeeded"
        BY <1>1, <3>1 DEF ProcessNextWorkItem, WorkTypeOK, WorkObjectsOK
      <3>2. CASE Head(queue).phase # "Succeeded"
        BY <1>1, <3>2, <2>1 DEF ProcessNextWorkItem, WorkTypeOK, WorkObjectsOK, Goto, WorkerLabels
      <3> QED
        BY <3>1, <3>2
    <2>3. WatchTypeOK' /\ QueueOK'
      <3>1. queue' = Tail(queue) /\ seen' = seen /\ queue # <<>>
        BY <1>1 DEF ProcessNextWorkItem
      <3> QED
        BY <3>1 DEF WatchTypeOK, QueueOK
    <2> QED
      BY <1>1, <1>f, <2>2, <2>3 DEF ProcessNextWorkItem, ApiUidOK
  <1>2. CASE RefreshPod(w)
    <2> DEFINE new == Stored(WName(w))
    <2>1. new \in Objects /\ wobj[w] \in Objects
      BY StoredType DEF WorkTypeOK
    <2>2. \/ GiveUp(w) \/ Handle(w, new) \/ Handle(w, wobj[w])
          \/ /\ try[w] + 1 < MaxRetryCount /\ try' = [try EXCEPT ![w] = try[w] + 1]
             /\ UNCHANGED <<pc, wobj, idx, val, path>>
      BY <1>2 DEF RefreshPod, WorkTypeOK
    <2>3. WorkTypeOK' /\ WorkObjectsOK'
      <3>1. CASE GiveUp(w)
        BY <3>1, GiveUpType
      <3>2. CASE Handle(w, new) \/ Handle(w, wobj[w])
        BY <3>2, <2>1, HandleType
      <3>3. CASE /\ try[w] + 1 < MaxRetryCount /\ try' = [try EXCEPT ![w] = try[w] + 1]
                 /\ UNCHANGED <<pc, wobj, idx, val, path>>
        <4>1. try[w] + 1 \in 0 .. MaxRetryCount - 1
          BY <3>3, BoundsAssumption DEF WorkTypeOK
        <4> QED
          BY <3>3, <4>1 DEF WorkTypeOK, WorkObjectsOK
      <3> QED
        BY <2>2, <3>1, <3>2, <3>3
    <2> QED
      BY <1>2, <1>f, <2>3 DEF RefreshPod, ApiUidOK
  <1>3. CASE Determine(w)
    <2>1. pc[w] \in Adjusting
      BY <1>3 DEF Determine, Adjusting
    <2>2. Uid(w) \in Pods /\ Cont(w) \in Containers
      BY <2>1, WorkerContainerType
    <2>3. PICK o \in CorrectSets(Uid(w), Cont(w)) :
            IF o.err THEN Retry(w)
            ELSE /\ Goto(w, "apply")
                 /\ val' = [val EXCEPT ![w] = [cfg |-> o.cfg, real |-> o.real]]
                 /\ UNCHANGED <<wobj, try, idx, path>>
      BY <1>3 DEF Determine
    <2>4. [cfg |-> o.cfg, real |-> o.real] \in Values
      BY <2>2, CorrectSetsType
    <2>5. WorkTypeOK' /\ WorkObjectsOK'
      <3>1. CASE o.err
        BY <2>1, <2>3, <3>1, RetryType
      <3>2. CASE ~o.err
        <4>1. /\ pc' = [pc EXCEPT ![w] = "apply"]
              /\ val' = [val EXCEPT ![w] = [cfg |-> o.cfg, real |-> o.real]]
              /\ UNCHANGED <<wobj, try, idx, path>>
          BY <2>3, <3>2 DEF Goto
        <4> QED
          BY <1>3, <2>4, <4>1 DEF Determine, WorkTypeOK, WorkObjectsOK, WorkerLabels
      <3> QED
        BY <3>1, <3>2
    <2> QED
      BY <1>3, <1>f, <2>5 DEF Determine, ApiUidOK
  <1>4. CASE ApplyCpusetToContainer(w)
    <2>1. pc[w] \in Adjusting
      BY <1>4 DEF ApplyCpusetToContainer, Adjusting
    <2>2. Uid(w) \in Pods /\ Cont(w) \in Containers /\ val[w] \in Values
      BY <2>1, WorkerContainerType DEF WorkTypeOK
    <2>3. CASE val[w].real # {} /\ ~Live(Uid(w), Cont(w), CidOf(w))
      <3>1. Retry(w) /\ cpuset' = cpuset /\ infra' = infra
        BY <1>4, <2>3 DEF ApplyCpusetToContainer
      <3>2. WorkTypeOK' /\ WorkObjectsOK'
        BY <2>1, <3>1, RetryType
      <3> QED
        BY <1>4, <1>f, <3>1, <3>2 DEF ApplyCpusetToContainer, ApiUidOK, cgroupVars
    <2>4. CASE ~(val[w].real # {} /\ ~Live(Uid(w), Cont(w), CidOf(w)))
      <3>1. WorkTypeOK' /\ WorkObjectsOK'
        <4>1. /\ pc' = [pc EXCEPT ![w] = "clear"] /\ path' = [path EXCEPT ![w] = val[w].real # {}]
              /\ UNCHANGED <<wobj, try, idx, val>>
          BY <1>4, <2>4 DEF ApplyCpusetToContainer, Goto
        <4>2. (val[w].real # {}) \in BOOLEAN
          OBVIOUS
        <4> QED
          BY <1>4, <4>1, <4>2 DEF ApplyCpusetToContainer, WorkTypeOK, WorkObjectsOK, WorkerLabels
      <3>2. CgroupTypeOK'
        <4>1. /\ infra' = infra
              /\ cpuset' = cpuset \/ cpuset' = [cpuset EXCEPT ![Uid(w)][Cont(w)] = val[w].real]
          BY <1>4, <2>4 DEF ApplyCpusetToContainer
        <4>2. val[w].real \in SUBSET CPUs
          BY <2>2 DEF Values
        <4>3. CASE cpuset' = cpuset
          BY <4>1, <4>3 DEF CgroupTypeOK
        <4>4. CASE cpuset' = [cpuset EXCEPT ![Uid(w)][Cont(w)] = val[w].real]
          BY <2>2, <4>1, <4>2, <4>4 DEF CgroupTypeOK
        <4> QED
          BY <4>1, <4>3, <4>4
      <3> QED
        BY <1>4, <1>f, <3>1, <3>2 DEF ApplyCpusetToContainer, ApiUidOK
    <2> QED
      BY <2>3, <2>4
  <1>5. CASE ClearCpus(w)
    <2>1. pc[w] \in Adjusting
      BY <1>5 DEF ClearCpus, Adjusting
    <2>2. WName(w) \in Names /\ Cont(w) \in Containers
      BY <2>1, WorkerContainerType, PodsAssumption DEF WName
    <2>3. FileTypeOK'
      BY <1>5, <2>2, DirType DEF ClearCpus, FileTypeOK
    <2>4. WorkTypeOK' /\ WorkObjectsOK'
      BY <1>5 DEF ClearCpus, Goto, WorkTypeOK, WorkObjectsOK, WorkerLabels
    <2> QED
      BY <1>5, <1>f, <2>3, <2>4 DEF ClearCpus, ApiUidOK
  <1>6. CASE FillCpus(w)
    <2>1. pc[w] \in Adjusting
      BY <1>6 DEF FillCpus, Adjusting
    <2>2. WName(w) \in Names /\ Cont(w) \in Containers /\ Uid(w) \in Pods
      BY <2>1, WorkerContainerType, PodsAssumption DEF WName
    <2>3. FileTypeOK'
      <3>1. val[w].cfg \in SUBSET CPUs
        BY DEF WorkTypeOK, Values
      <3> QED
        BY <1>6, <2>2, <3>1, DirType DEF FillCpus, FileTypeOK
    <2>4. WorkTypeOK' /\ WorkObjectsOK'
      <3>0. NoValue \in Values
        BY DEF NoValue, Values
      <3>1. CASE idx[w] < Len(SpecContainers[Uid(w)])
        <4>1. /\ pc' = [pc EXCEPT ![w] = "determine"] /\ idx' = [idx EXCEPT ![w] = idx[w] + 1]
              /\ val' = [val EXCEPT ![w] = NoValue] /\ UNCHANGED <<wobj, try, path>>
          BY <1>6, <3>1 DEF FillCpus, Goto, WorkTypeOK
        <4>2. Len(SpecContainers[Uid(w)]) \in Nat
          BY <2>2, PodsAssumption
        <4>3. idx[w] + 1 \in Nat \ {0} /\ idx[w] + 1 \in 1 .. Len(SpecContainers[wobj[w].uid])
          BY <3>1, <4>2 DEF WorkTypeOK, Uid
        <4>4. WorkTypeOK'
          BY <3>0, <4>1, <4>3 DEF WorkTypeOK, WorkerLabels
        <4>5. WorkObjectsOK'
          BY <2>2, <4>1, <4>3 DEF WorkTypeOK, WorkObjectsOK, Uid
        <4> QED
          BY <4>4, <4>5
      <3>2. CASE ~(idx[w] < Len(SpecContainers[Uid(w)]))
        BY <1>6, <3>0, <3>2 DEF FillCpus, Goto, WorkTypeOK, WorkObjectsOK, WorkerLabels
      <3> QED
        BY <3>1, <3>2
    <2> QED
      BY <1>6, <1>f, <2>3, <2>4 DEF FillCpus, ApiUidOK
  <1>7. CASE ApplyCpusetToInfraContainer(w)
    <2>1. pc[w] \in Adjusting
      BY <1>7 DEF ApplyCpusetToInfraContainer, Adjusting
    <2>2. Uid(w) \in Pods
      BY <2>1, WorkerContainerType
    <2>3. WorkTypeOK' /\ WorkObjectsOK'
      <3>1. \/ Retry(w)
            \/ pc' = [pc EXCEPT ![w] = "annotate"] /\ UNCHANGED <<wobj, try, idx, val, path>>
        BY <1>7 DEF ApplyCpusetToInfraContainer, Goto
      <3>2. CASE Retry(w)
        BY <2>1, <3>2, RetryType
      <3>3. CASE pc' = [pc EXCEPT ![w] = "annotate"] /\ UNCHANGED <<wobj, try, idx, val, path>>
        BY <2>1, <3>3 DEF WorkTypeOK, WorkObjectsOK, WorkerLabels, Adjusting
      <3> QED
        BY <3>1, <3>2, <3>3
    <2>4. CgroupTypeOK'
      <3>1. \/ UNCHANGED cgroupVars
            \/ \E d \in DefaultSets :
                 \/ infra' = [infra EXCEPT ![Uid(w)] = d] /\ UNCHANGED cpuset
                 \/ /\ \E c \in UnknownContainers(w) : cpuset' = [cpuset EXCEPT ![Uid(w)][c] = d]
                    /\ UNCHANGED infra
        BY <1>7 DEF ApplyCpusetToInfraContainer
      <3>2. UnknownContainers(w) \subseteq Containers
        BY <2>2, SpecContainerType DEF UnknownContainers
      <3>3. CASE UNCHANGED cgroupVars
        BY <1>f, <3>3
      <3>4. ASSUME NEW d \in DefaultSets, infra' = [infra EXCEPT ![Uid(w)] = d], UNCHANGED cpuset
            PROVE  CgroupTypeOK'
        BY <2>2, <3>4, DefaultSetsType DEF CgroupTypeOK
      <3>5. ASSUME NEW d \in DefaultSets, NEW c \in UnknownContainers(w),
                   cpuset' = [cpuset EXCEPT ![Uid(w)][c] = d], UNCHANGED infra
            PROVE  CgroupTypeOK'
        BY <2>2, <3>2, <3>5, DefaultSetsType DEF CgroupTypeOK
      <3> QED
        BY <3>1, <3>3, <3>4, <3>5
    <2> QED
      BY <1>7, <1>f, <2>3, <2>4 DEF ApplyCpusetToInfraContainer, ApiUidOK
  <1>8. CASE SetPodAnnotation(w)
    <2>1. pc[w] \in Adjusting
      BY <1>8 DEF SetPodAnnotation, Adjusting
    <2>2. WorkTypeOK' /\ WorkObjectsOK'
      BY <1>8, <2>1, RetryType, GiveUpType DEF SetPodAnnotation
    <2>3. FileTypeOK'
      BY <1>8 DEF SetPodAnnotation, FileTypeOK, WithName
    <2> QED
      BY <1>8, <1>f, <2>2, <2>3 DEF SetPodAnnotation, ApiUidOK
  <1>9. CASE WorkerFault(w)
    <2>1. GiveUp(w) \/ (pc[w] \in Adjusting /\ Retry(w))
      BY <1>9 DEF WorkerFault, Adjusting
    <2>2. WorkTypeOK' /\ WorkObjectsOK'
      <3>1. CASE GiveUp(w)
        BY <3>1, GiveUpType
      <3>2. CASE pc[w] \in Adjusting /\ Retry(w)
        BY <3>2, RetryType
      <3> QED
        BY <2>1, <3>1, <3>2
    <2>3. ProcTypeOK'
      BY <1>9 DEF WorkerFault, ProcTypeOK
    <2> QED
      BY <1>9, <1>f, <2>2, <2>3 DEF WorkerFault, ApiUidOK
  <1> QED
    BY <1>1, <1>2, <1>3, <1>4, <1>5, <1>6, <1>7, <1>8, <1>9 DEF Worker

LEMMA ReconcilerType ==
  ASSUME TypeOK, Reconciler
  PROVE  TypeOK'
  <1> USE DEF TypeOK
  <1>f. /\ UNCHANGED kubeVars => KubeTypeOK' /\ ApiUidOK'
        /\ UNCHANGED cgroupVars => CgroupTypeOK'
        /\ UNCHANGED <<cpuDir, annotated>> => FileTypeOK'
        /\ UNCHANGED watchVars => WatchTypeOK' /\ QueueOK'
        /\ UNCHANGED workVars => WorkTypeOK' /\ WorkObjectsOK'
        /\ UNCHANGED procVars => ProcTypeOK'
    BY TypeFrame
  <1>v. NoValue \in Values
    BY DEF NoValue, Values
  <1>1. CASE GetPodsFromKubelet
    <2>1. RecTypeOK'
      BY <1>1 DEF GetPodsFromKubelet, RecTypeOK, Listed
    <2>2. ProcTypeOK'
      BY <1>1 DEF GetPodsFromKubelet, ProcTypeOK
    <2> QED
      BY <1>1, <1>f, <2>1, <2>2 DEF GetPodsFromKubelet, ApiUidOK
  <1>2. ASSUME NEW i \in rtodo, ReconcileContainer(i)
        PROVE  TypeOK'
    <2>1. i \in Items /\ i.uid \in Pods /\ i.c \in Containers
      BY DEF RecTypeOK, Items
    <2>2. PICK o \in CorrectSets(i.uid, i.c) :
            \/ rpc' = "clear" /\ ritem' = i /\ rval' = [cfg |-> o.cfg, real |-> o.real]
            \/ rpc' = AfterItem(rtodo') /\ UNCHANGED <<ritem, rval>>
      BY <1>2 DEF ReconcileContainer
    <2>3. [cfg |-> o.cfg, real |-> o.real] \in Values
      BY <2>1, CorrectSetsType
    <2>4. rtodo' \in SUBSET Items
      BY <1>2 DEF ReconcileContainer, RecTypeOK
    <2>5. RecTypeOK'
      BY <2>1, <2>2, <2>3, <2>4 DEF RecTypeOK, AfterItem
    <2> QED
      BY <1>2, <1>f, <2>5 DEF ReconcileContainer, ApiUidOK
  <1>3. CASE ReconcilerClears \/ ReconcilerFills
    <2>1. ritem \in Items /\ rval.cfg \in SUBSET CPUs
      BY <1>3 DEF ReconcilerClears, ReconcilerFills, RecTypeOK, Values
    <2>2. Name[ritem.uid] \in Names /\ ritem.c \in Containers
      BY <2>1, PodsAssumption DEF Items
    <2>3. ClearDir(Name[ritem.uid], ritem.c) \/ FillDir(Name[ritem.uid], ritem.c, rval.cfg)
      BY <1>3 DEF ReconcilerClears, ReconcilerFills
    <2>4. cpuDir' \in [Names -> [Containers -> CpuDirs]]
      BY <2>1, <2>2, <2>3, DirType
    <2>5. FileTypeOK' /\ RecTypeOK'
      BY <1>3, <2>4 DEF ReconcilerClears, ReconcilerFills, RecTypeOK, FileTypeOK
    <2> QED
      BY <1>3, <1>f, <2>5 DEF ReconcilerClears, ReconcilerFills, ApiUidOK
  <1>4. CASE ReconcilerWrites
    <2>1. ritem \in Items /\ rval.real \in SUBSET CPUs
      BY <1>4 DEF ReconcilerWrites, RecTypeOK, Values
    <2>2. CgroupTypeOK'
      BY <1>4, <2>1 DEF ReconcilerWrites, CgroupTypeOK, Items
    <2>3. RecTypeOK'
      BY <1>4, <1>v DEF ReconcilerWrites, RecTypeOK, AfterItem
    <2> QED
      BY <1>4, <1>f, <2>2, <2>3 DEF ReconcilerWrites, ApiUidOK
  <1>5. CASE ReconcilerFault
    <2>1. RecTypeOK'
      BY <1>5, <1>v DEF ReconcilerFault, RecTypeOK, AfterItem
    <2>2. ProcTypeOK'
      BY <1>5 DEF ReconcilerFault, ProcTypeOK
    <2> QED
      BY <1>5, <1>f, <2>1, <2>2 DEF ReconcilerFault, ApiUidOK
  <1> QED
    BY <1>1, <1>2, <1>3, <1>4, <1>5 DEF Reconciler

LEMMA RestartType ==
  ASSUME TypeOK, Restart
  PROVE  TypeOK'
  <1> USE DEF TypeOK
  <1>1. WatchTypeOK' /\ QueueOK'
    BY NoObjectType DEF Restart, WatchTypeOK, QueueOK
  <1>2. NoValue \in Values
    BY DEF NoValue, Values
  <1>3. WorkTypeOK' /\ WorkObjectsOK'
    BY <1>2, NoObjectType, BoundsAssumption DEF Restart, WorkTypeOK, WorkObjectsOK, WorkerLabels
  <1>4. RecTypeOK'
    BY <1>2 DEF Restart, RecTypeOK
  <1>5. ProcTypeOK'
    <2>1. ProcTypeOK
      OBVIOUS
    <2>2. thisNode' = "unset" /\ shut' = FALSE /\ crashes' = crashes + 1 /\ faults' = faults
      BY DEF Restart
    <2>3. crashes' \in Nat
      BY <2>1, <2>2 DEF ProcTypeOK
    <2> QED
      BY ONLY <2>1, <2>2, <2>3, Zenon DEF ProcTypeOK
  <1> QED
    BY <1>1, <1>3, <1>4, <1>5, TypeFrame DEF Restart, ApiUidOK

LEMMA InitType == Init => TypeOK
  <1> SUFFICES ASSUME Init PROVE TypeOK
    OBVIOUS
  <1>1. NoValue \in Values
    BY DEF NoValue, Values
  <1>2. KubeTypeOK /\ ApiUidOK
    BY BlankType, BoundsAssumption DEF Init, KubeTypeOK, ApiUidOK, Stages, Phases
  <1>3. CgroupTypeOK
    BY DEF Init, CgroupTypeOK, AllCpus
  <1>4. FileTypeOK
    BY DEF Init, FileTypeOK, EmptyDir, CpuDirs, NoFile
  <1>5. WatchTypeOK /\ QueueOK
    BY NoObjectType DEF Init, WatchTypeOK, QueueOK
  <1>6. WorkTypeOK /\ WorkObjectsOK
    BY <1>1, NoObjectType, BoundsAssumption DEF Init, WorkTypeOK, WorkObjectsOK, WorkerLabels
  <1>7. RecTypeOK /\ ProcTypeOK
    BY <1>1 DEF Init, RecTypeOK, ProcTypeOK
  <1> QED
    BY <1>2, <1>3, <1>4, <1>5, <1>6, <1>7 DEF TypeOK, ApiUidOK

LEMMA NextType == TypeOK /\ [Next]_vars => TypeOK'
  <1> SUFFICES ASSUME TypeOK, [Next]_vars PROVE TypeOK'
    OBVIOUS
  <1>1. CASE Environment
    BY <1>1, EnvironmentType, EnvironmentFrame, TypeFrame DEF TypeOK, ApiUidOK
  <1>2. CASE Informer
    <2>1. UNCHANGED <<kubeVars, cgroupVars, cpuDir, annotated, workVars, recVars, procVars>>
      BY <1>2 DEF Informer, InformerQuiet, PodChanged
    <2> QED
      BY <1>2, <2>1, InformerType, TypeFrame DEF TypeOK, ApiUidOK
  <1>3. CASE \E w \in Workers : Worker(w)
    BY <1>3, WorkerType
  <1>4. CASE Reconciler
    BY <1>4, ReconcilerType
  <1>5. CASE Stop
    <2>1. RecTypeOK' /\ ProcTypeOK'
      BY <1>5 DEF Stop, RecTypeOK, ProcTypeOK, TypeOK
    <2> QED
      BY <1>5, <2>1, TypeFrame DEF Stop, TypeOK, ApiUidOK
  <1>6. CASE Exit \/ Crash
    BY <1>6, RestartType DEF Exit, Crash
  <1>7. CASE UNCHANGED vars
    <2>1. /\ UNCHANGED kubeVars /\ UNCHANGED cgroupVars /\ UNCHANGED <<cpuDir, annotated>>
          /\ UNCHANGED watchVars /\ UNCHANGED workVars /\ UNCHANGED recVars /\ UNCHANGED procVars
      BY <1>7 DEF vars, kubeVars, cgroupVars, watchVars, workVars, recVars, procVars
    <2> QED
      BY <2>1, TypeFrame DEF TypeOK, ApiUidOK
  <1> QED
    BY <1>1, <1>2, <1>3, <1>4, <1>5, <1>6, <1>7 DEF Next

(* Type correctness: cpusets consist of CPUs of the node, workers hold a   *)
(* Pod and a container of its spec, retries stay below MaxRetryCount.      *)
THEOREM TypeCorrect == Spec => []TypeOK
  BY InitType, NextType, PTL DEF Spec

-----------------------------------------------------------------------------
(* What a step does to the Pods, whoever takes it.                         *)

LEMMA KubeFrame ==
  ASSUME [Next]_vars, ~Environment
  PROVE  UNCHANGED kubeVars
  <1>1. CASE Informer
    BY <1>1 DEF Informer, InformerQuiet, PodChanged
  <1>2. CASE \E w \in Workers : Worker(w)
    BY <1>2 DEF Worker, ProcessNextWorkItem, RefreshPod, Determine, ApplyCpusetToContainer,
                ClearCpus, FillCpus, ApplyCpusetToInfraContainer, SetPodAnnotation, WorkerFault
  <1>3. CASE Reconciler
    BY <1>3 DEF Reconciler, GetPodsFromKubelet, ReconcileContainer, ReconcilerClears,
                ReconcilerFills, ReconcilerWrites, ReconcilerFault
  <1>4. CASE Stop \/ Exit \/ Crash
    BY <1>4 DEF Stop, Exit, Crash, Restart
  <1>5. CASE UNCHANGED vars
    BY <1>5 DEF vars, kubeVars
  <1> QED
    BY <1>1, <1>2, <1>3, <1>4, <1>5 DEF Next

(* Pods only move forward: an admitted Pod stays admitted or ends, its     *)
(* devices stay the same, and container ids never decrease.                *)
LEMMA KubeMonotone ==
  ASSUME TypeOK, KubeletCoherent, [Next]_vars
  PROVE  /\ \A p \in Pods : Started(p) => Started(p)'
         /\ \A p \in Pods, c \in Containers : inc[p][c] <= inc'[p][c]
         /\ \A p \in Pods : Started(p) /\ stage'[p] = "admitted" =>
              /\ stage[p] = "admitted" /\ alloc'[p] = alloc[p]
              /\ p \in Local => p \in ckpt /\ p \in ckpt'
  <1> USE DEF TypeOK, KubeTypeOK
  <1>1. CASE ~Environment
    <2>1. UNCHANGED <<stage, inc, alloc, ckpt>>
      BY <1>1, KubeFrame DEF kubeVars
    <2> QED
      BY <2>1, BoundsAssumption DEF KubeletCoherent, Started
  <1>2. CASE Environment
    <2>0. PICK q \in Pods :
            \/ CreatePod(q) \/ AdmitPod(q) \/ FinishPod(q) \/ DeletePod(q) \/ StatusUpdate(q)
            \/ \E c \in Containers : StartContainer(q, c) \/ StopContainer(q, c)
      BY <1>2 DEF Environment
    <2>1. CASE CreatePod(q)
      BY <2>1, BoundsAssumption DEF CreatePod, Started, KubeletCoherent
    <2>2. CASE AdmitPod(q)
      <3>1. /\ stage[q] = "pending" /\ stage' = [stage EXCEPT ![q] = "admitted"] /\ inc' = inc
            /\ \A p \in Pods : p # q => alloc'[p] = alloc[p]
            /\ \A p \in ckpt : stage[p] = "admitted" => p \in ckpt'
        BY <2>2 DEF AdmitPod
      <3> QED
        BY <3>1, BoundsAssumption DEF Started, KubeletCoherent
    <2>3. CASE FinishPod(q)
      BY <2>3, BoundsAssumption DEF FinishPod, Started, KubeletCoherent
    <2>4. CASE DeletePod(q)
      BY <2>4, BoundsAssumption DEF DeletePod, Started, KubeletCoherent
    <2>5. CASE StatusUpdate(q)
      BY <2>5, BoundsAssumption DEF StatusUpdate, Started, KubeletCoherent
    <2>6. ASSUME NEW d \in Containers, StartContainer(q, d) \/ StopContainer(q, d)
          PROVE  /\ UNCHANGED <<stage, alloc, ckpt>>
                 /\ \A p \in Pods, c \in Containers : inc[p][c] <= inc'[p][c]
      <3>1. CASE StopContainer(q, d)
        BY <3>1, BoundsAssumption DEF StopContainer
      <3>2. CASE StartContainer(q, d)
        <4>1. inc' = [inc EXCEPT ![q][d] = inc[q][d] + 1]
          BY <3>2 DEF StartContainer
        <4> QED
          BY <3>2, <4>1, BoundsAssumption DEF StartContainer
      <3> QED
        BY <2>6, <3>1, <3>2
    <2>7. CASE \E c \in Containers : StartContainer(q, c) \/ StopContainer(q, c)
      BY <2>6, <2>7 DEF Started, KubeletCoherent
    <2> QED
      BY <2>0, <2>1, <2>2, <2>3, <2>4, <2>5, <2>7
  <1> QED
    BY <1>1, <1>2

(* A fixed object stays plausible, and the sets computed for a container   *)
(* of an admitted Pod do not change.                                       *)
LEMMA PlausibleStable ==
  ASSUME TypeOK, TypeOK', KubeletCoherent, [Next]_vars, NEW o \in Objects, Plausible(o)
  PROVE  Plausible(o)'
  <1> SUFFICES ASSUME NEW c \in Containers, o.ids[c] # 0
               PROVE  o.uid \in Pods /\ Started(o.uid)' /\ o.ids[c] <= inc'[o.uid][c]
    BY DEF Plausible
  <1>1. o.uid \in Pods /\ Started(o.uid) /\ o.ids[c] <= inc[o.uid][c]
    BY DEF Plausible
  <1>2. Started(o.uid)' /\ inc[o.uid][c] <= inc'[o.uid][c]
    BY <1>1, KubeMonotone
  <1>3. o.ids[c] \in Int /\ inc[o.uid][c] \in Int /\ inc'[o.uid][c] \in Int
    BY <1>1, BoundsAssumption DEF TypeOK, KubeTypeOK, Objects
  <1> QED
    BY <1>1, <1>2, <1>3

LEMMA OwnSetsStable ==
  ASSUME NEW p \in Pods, NEW c \in Containers, p \in ckpt, p \in ckpt', alloc'[p] = alloc[p]
  PROVE  /\ OwnSets(p, c)' = OwnSets(p, c)
         /\ GetListOfAllocatedExclusiveCpus(p, c)' = GetListOfAllocatedExclusiveCpus(p, c)
  <1>1. GetListOfAllocatedExclusiveCpus(p, c)' = GetListOfAllocatedExclusiveCpus(p, c)
    BY DEF GetListOfAllocatedExclusiveCpus
  <1>2. CorrectSets(p, c)' = CorrectSets(p, c)
    BY <1>1 DEF CorrectSets
  <1> QED
    BY <1>1, <1>2 DEF OwnSets

LEMMA OwnSetsStep ==
  ASSUME TypeOK, KubeletCoherent, [Next]_vars,
         NEW p \in Local, NEW c \in Containers, Started(p), stage'[p] = "admitted"
  PROVE  stage[p] = "admitted" /\ OwnSets(p, c)' = OwnSets(p, c)
  <1>1. p \in Pods
    BY PodsAssumption
  <1>2. stage[p] = "admitted" /\ alloc'[p] = alloc[p] /\ p \in ckpt /\ p \in ckpt'
    BY <1>1, KubeMonotone
  <1> QED
    BY <1>1, <1>2, OwnSetsStable

-----------------------------------------------------------------------------
(* The invariants about kubelet.                                           *)

LEMMA KubeletCoherentStep ==
  ASSUME TypeOK, KubeletCoherent, [Next]_vars
  PROVE  KubeletCoherent'
  <1> USE DEF TypeOK, KubeTypeOK
  <1>1. CASE ~Environment
    <2>1. UNCHANGED <<stage, inc, up, ckpt>>
      BY <1>1, KubeFrame DEF kubeVars
    <2> QED
      BY <2>1 DEF KubeletCoherent, Started
  <1>2. CASE Environment
    <2>0. PICK q \in Pods :
            \/ CreatePod(q) \/ AdmitPod(q) \/ FinishPod(q) \/ DeletePod(q) \/ StatusUpdate(q)
            \/ \E c \in Containers : StartContainer(q, c) \/ StopContainer(q, c)
      BY <1>2 DEF Environment
    <2>1. CASE CreatePod(q)
      BY <2>1 DEF CreatePod, Started, KubeletCoherent
    <2>2. CASE AdmitPod(q)
      <3>1. /\ stage[q] = "pending" /\ stage' = [stage EXCEPT ![q] = "admitted"]
            /\ UNCHANGED <<inc, up>>
            /\ \A p \in ckpt : stage[p] = "admitted" => p \in ckpt'
            /\ q \in Local => q \in ckpt'
        BY <2>2 DEF AdmitPod
      <3> QED
        BY <3>1, PodsAssumption DEF Started, KubeletCoherent
    <2>3. CASE FinishPod(q) \/ DeletePod(q)
      BY <2>3, PodsAssumption DEF FinishPod, DeletePod, AllDown, Started, KubeletCoherent
    <2>4. CASE StatusUpdate(q)
      BY <2>4 DEF StatusUpdate, Started, KubeletCoherent
    <2>5. ASSUME NEW d \in Containers, StartContainer(q, d) PROVE KubeletCoherent'
      <3>1. /\ stage[q] = "admitted" /\ d \in ContainersOf(q)
            /\ inc' = [inc EXCEPT ![q][d] = inc[q][d] + 1] /\ up' = [up EXCEPT ![q][d] = TRUE]
            /\ UNCHANGED <<stage, ckpt>>
        BY <2>5 DEF StartContainer
      <3> QED
        BY <3>1 DEF KubeletCoherent, Started
    <2>6. ASSUME NEW d \in Containers, StopContainer(q, d) PROVE KubeletCoherent'
      BY <2>6 DEF StopContainer, KubeletCoherent, Started
    <2> QED
      BY <2>0, <2>1, <2>2, <2>3, <2>4, <2>5, <2>6
  <1> QED
    BY <1>1, <1>2

(* Kubelet never gives one device of a pool to two containers.             *)
LEMMA DevicesDisjointStep ==
  ASSUME TypeOK, KubeletCoherent, DevicesDisjoint, [Next]_vars
  PROVE  DevicesDisjoint'
  <1> USE DEF TypeOK, KubeTypeOK
  <1>1. CASE \A p \in Pods : ~AdmitPod(p)
    <2>1. alloc' = alloc
      <3>1. CASE Environment
        BY <1>1, <3>1 DEF Environment, CreatePod, FinishPod, DeletePod, StatusUpdate,
                          StartContainer, StopContainer
      <3> QED
        BY <3>1, KubeFrame DEF kubeVars
    <2>2. \A p \in Pods : stage'[p] = "admitted" => stage[p] = "admitted"
      <3>1. CASE Environment
        BY <1>1, <3>1 DEF Environment, CreatePod, FinishPod, DeletePod, StatusUpdate,
                          StartContainer, StopContainer
      <3> QED
        BY <3>1, KubeFrame DEF kubeVars
    <2> QED
      BY <2>1, <2>2, PodsAssumption DEF DevicesDisjoint
  <1>2. ASSUME NEW q \in Pods, AdmitPod(q) PROVE DevicesDisjoint'
    <2>1. CASE q \notin Local
      <3>1. alloc' = alloc /\ stage' = [stage EXCEPT ![q] = "admitted"]
        BY <1>2, <2>1 DEF AdmitPod
      <3> QED
        BY <2>1, <3>1, PodsAssumption DEF DevicesDisjoint
    <2>2. CASE q \in Local
      <3>1. PICK f \in Allocations(q) :
              alloc' = [alloc EXCEPT ![q] = [c \in Containers |-> [r \in PoolNames |->
                          IF <<c, r>> \in DeviceClaims(q) THEN f[<<c, r>>] ELSE {}]]]
        BY <1>2, <2>2 DEF AdmitPod
      <3>2. stage[q] = "pending" /\ stage' = [stage EXCEPT ![q] = "admitted"]
        BY <1>2 DEF AdmitPod
      <3>3. \A c \in Containers, r \in PoolNames :
              alloc'[q][c][r] = IF <<c, r>> \in DeviceClaims(q) THEN f[<<c, r>>] ELSE {}
        BY <3>1
      <3>4. \A p \in Pods : p # q => alloc'[p] = alloc[p] /\ stage'[p] = stage[p]
        BY <3>1, <3>2
      <3>5. \A c \in Containers, r \in PoolNames : <<c, r>> \in DeviceClaims(q) =>
              /\ f[<<c, r>>] \subseteq DeviceIDs(r)
              /\ \A p \in ckpt, d \in Containers :
                   stage[p] = "admitted" => f[<<c, r>>] \cap alloc[p][d][r] = {}
        <4>1. \A cr \in DeviceClaims(q) :
                /\ f[cr] \subseteq DeviceIDs(cr[2])
                /\ \A p \in ckpt, d \in Containers :
                     stage[p] = "admitted" => f[cr] \cap alloc[p][d][cr[2]] = {}
          BY DEF Allocations
        <4> QED
          BY <4>1
      <3>6. \A c, d \in Containers, r \in PoolNames :
              c # d /\ <<c, r>> \in DeviceClaims(q) /\ <<d, r>> \in DeviceClaims(q)
                => f[<<c, r>>] \cap f[<<d, r>>] = {}
        <4>1. \A cr, ds \in DeviceClaims(q) : cr # ds /\ cr[2] = ds[2] => f[cr] \cap f[ds] = {}
          BY DEF Allocations
        <4> QED
          BY <4>1
      <3>7. \A p \in Pods, c \in Containers, r \in PoolNames : alloc'[p][c][r] \subseteq DeviceIDs(r)
        <4> SUFFICES ASSUME NEW p \in Pods, NEW c \in Containers, NEW r \in PoolNames
                     PROVE  alloc'[p][c][r] \subseteq DeviceIDs(r)
          OBVIOUS
        <4>1. CASE p # q
          BY <3>4, <4>1 DEF DevicesDisjoint
        <4>2. CASE p = q /\ <<c, r>> \in DeviceClaims(q)
          BY <3>3, <3>5, <4>2
        <4>3. CASE p = q /\ <<c, r>> \notin DeviceClaims(q)
          BY <3>3, <4>3
        <4> QED
          BY <4>1, <4>2, <4>3
      <3>8. \A p \in Local, c, d \in Containers, r \in PoolNames :
              p # q /\ stage'[p] = "admitted" => alloc'[p][c][r] \cap alloc'[q][d][r] = {}
        <4> SUFFICES ASSUME NEW p \in Local, NEW c \in Containers, NEW d \in Containers,
                            NEW r \in PoolNames, p # q, stage'[p] = "admitted"
                     PROVE  alloc'[p][c][r] \cap alloc'[q][d][r] = {}
          OBVIOUS
        <4>1. p \in Pods /\ stage[p] = "admitted" /\ p \in ckpt /\ alloc'[p] = alloc[p]
          BY <3>4, PodsAssumption DEF KubeletCoherent
        <4>2. CASE <<d, r>> \in DeviceClaims(q)
          <5>1. f[<<d, r>>] \cap alloc[p][c][r] = {}
            BY <4>1, <4>2, <3>5
          <5>2. alloc'[q][d][r] = f[<<d, r>>]
            BY <3>3, <4>2
          <5> QED
            BY <4>1, <5>1, <5>2
        <4>3. CASE <<d, r>> \notin DeviceClaims(q)
          BY <3>3, <4>3
        <4> QED
          BY <4>2, <4>3
      <3>9. \A c, d \in Containers, r \in PoolNames :
              c # d => alloc'[q][c][r] \cap alloc'[q][d][r] = {}
        <4> SUFFICES ASSUME NEW c \in Containers, NEW d \in Containers, NEW r \in PoolNames, c # d
                     PROVE  alloc'[q][c][r] \cap alloc'[q][d][r] = {}
          OBVIOUS
        <4>1. CASE <<c, r>> \in DeviceClaims(q) /\ <<d, r>> \in DeviceClaims(q)
          <5>1. alloc'[q][c][r] = f[<<c, r>>] /\ alloc'[q][d][r] = f[<<d, r>>]
            BY <3>3, <4>1
          <5>2. f[<<c, r>>] \cap f[<<d, r>>] = {}
            BY <3>6, <4>1
          <5> QED
            BY <5>1, <5>2
        <4>2. CASE <<c, r>> \notin DeviceClaims(q)
          BY <3>3, <4>2
        <4>3. CASE <<d, r>> \notin DeviceClaims(q)
          BY <3>3, <4>3
        <4> QED
          BY <4>1, <4>2, <4>3
      <3>10. ASSUME NEW p \in Local, NEW p2 \in Local, NEW c \in Containers, NEW d \in Containers,
                    NEW r \in PoolNames, <<p, c>> # <<p2, d>>,
                    stage'[p] = "admitted", stage'[p2] = "admitted"
             PROVE  alloc'[p][c][r] \cap alloc'[p2][d][r] = {}
        <4>1. CASE p # q /\ p2 # q
          <5>1. /\ alloc'[p] = alloc[p] /\ stage[p] = "admitted"
                /\ alloc'[p2] = alloc[p2] /\ stage[p2] = "admitted"
            BY <3>4, <3>10, <4>1, PodsAssumption
          <5>2. alloc[p][c][r] \cap alloc[p2][d][r] = {}
            BY <3>10, <5>1 DEF DevicesDisjoint
          <5> QED
            BY <5>1, <5>2
        <4>2. CASE p = q /\ p2 # q
          BY <3>8, <3>10, <4>2
        <4>3. CASE p # q /\ p2 = q
          BY <3>8, <3>10, <4>3
        <4>4. CASE p = q /\ p2 = q
          BY <3>9, <3>10, <4>4
        <4> QED
          BY <4>1, <4>2, <4>3, <4>4
      <3> QED
        BY <3>7, <3>10 DEF DevicesDisjoint
    <2> QED
      BY <2>1, <2>2
  <1> QED
    BY <1>1, <1>2

-----------------------------------------------------------------------------
(* How a worker's step changes what the worker holds.                      *)

(* w is the only worker the step touches.                                  *)
OthersKept(w) ==
  \A v \in Workers : v # w =>
    pc'[v] = pc[v] /\ wobj'[v] = wobj[v] /\ val'[v] = val[v] /\ idx'[v] = idx[v]

Abandons(w) == pc'[w] = "idle" /\ wobj'[w] = NoObject
Waits(w) == pc[w] \in {"idle", "refresh"} /\ pc'[w] = pc[w] /\ wobj'[w] = wobj[w]
Takes(w) == pc'[w] = "refresh" /\ queue # <<>> /\ wobj'[w] = Head(queue)
Begins(w) ==
  /\ pc'[w] = "determine"
  /\ wobj'[w].uid \in Local /\ IsPodReadyForProcessing(wobj'[w])
  /\ wobj'[w] = wobj[w] \/ \E p \in Pods : wobj'[w] = api[p]
Continues(w) ==
  pc[w] \in Adjusting /\ pc'[w] \in Adjusting \ {"apply"} /\ wobj'[w] = wobj[w]
Decides(w) ==
  /\ pc[w] = "determine" /\ pc'[w] = "apply" /\ wobj'[w] = wobj[w] /\ idx'[w] = idx[w]
  /\ \E o \in CorrectSets(Uid(w), Cont(w)) : ~o.err /\ val'[w].real = o.real

LEMMA GiveUpShape ==
  ASSUME WorkTypeOK, NEW w \in Workers, GiveUp(w)
  PROVE  OthersKept(w) /\ Abandons(w)
  BY DEF WorkTypeOK, GiveUp, Goto, OthersKept, Abandons

LEMMA RetryShape ==
  ASSUME WorkTypeOK, NEW w \in Workers, pc[w] \in Adjusting, Retry(w)
  PROVE  OthersKept(w) /\ (Abandons(w) \/ Continues(w))
  <1>1. CASE try[w] + 1 < MaxRetryCount
    <2>1. /\ pc' = [pc EXCEPT ![w] = "determine"] /\ wobj' = wobj
          /\ idx' = [idx EXCEPT ![w] = 1] /\ val' = [val EXCEPT ![w] = NoValue]
      BY <1>1 DEF Retry, Goto
    <2> QED
      BY <2>1 DEF WorkTypeOK, OthersKept, Continues, Adjusting
  <1>2. CASE ~(try[w] + 1 < MaxRetryCount)
    BY <1>2, GiveUpShape DEF Retry
  <1> QED
    BY <1>1, <1>2

LEMMA HandleShape ==
  ASSUME WorkTypeOK, NEW w \in Workers, NEW o, Handle(w, o),
         o = wobj[w] \/ \E p \in Pods : o = api[p]
  PROVE  OthersKept(w) /\ (Abandons(w) \/ Begins(w))
  <1>1. CASE o.uid \in Local /\ IsPodReadyForProcessing(o)
    <2>1. /\ pc' = [pc EXCEPT ![w] = "determine"] /\ wobj' = [wobj EXCEPT ![w] = o]
          /\ idx' = [idx EXCEPT ![w] = 1] /\ val' = val
      BY <1>1 DEF Handle, Goto
    <2>2. wobj'[w] = o /\ pc'[w] = "determine"
      BY <2>1 DEF WorkTypeOK
    <2>3. Begins(w)
      BY <1>1, <2>2 DEF Begins
    <2> QED
      BY <2>1, <2>3 DEF WorkTypeOK, OthersKept
  <1>2. CASE ~(o.uid \in Local /\ IsPodReadyForProcessing(o))
    BY <1>2, GiveUpShape DEF Handle
  <1> QED
    BY <1>1, <1>2

LEMMA WorkerShape ==
  ASSUME TypeOK, NEW w \in Workers, Worker(w)
  PROVE  /\ OthersKept(w)
         /\ Abandons(w) \/ Waits(w) \/ Takes(w) \/ Begins(w) \/ Continues(w) \/ Decides(w)
  <1>a. WorkTypeOK
    BY DEF TypeOK
  <1>1. CASE ProcessNextWorkItem(w)
    <2>1. CASE Head(queue).phase = "Succeeded"
      BY <1>1, <2>1 DEF ProcessNextWorkItem, OthersKept, Waits
    <2>2. CASE Head(queue).phase # "Succeeded"
      BY <1>a, <1>1, <2>2 DEF ProcessNextWorkItem, Goto, WorkTypeOK, OthersKept, Takes
    <2> QED
      BY <2>1, <2>2
  <1>2. CASE RefreshPod(w)
    <2> DEFINE new == Stored(WName(w))
    <2>1. \/ GiveUp(w) \/ (new.phase # "Absent" /\ Handle(w, new)) \/ Handle(w, wobj[w])
          \/ UNCHANGED <<pc, wobj, idx, val>> /\ pc[w] = "refresh"
      BY <1>2 DEF RefreshPod
    <2>2. new.phase # "Absent" => \E p \in Pods : new = api[p]
      BY StoredType, BlankType DEF NoObject, Phases
    <2> HIDE DEF new
    <2>3. CASE GiveUp(w)
      BY <1>a, <2>3, GiveUpShape
    <2>4. CASE (new.phase # "Absent" /\ Handle(w, new)) \/ Handle(w, wobj[w])
      BY <1>a, <2>2, <2>4, HandleShape
    <2>5. CASE UNCHANGED <<pc, wobj, idx, val>> /\ pc[w] = "refresh"
      BY <2>5 DEF OthersKept, Waits
    <2> QED
      BY <2>1, <2>3, <2>4, <2>5
  <1>3. CASE Determine(w)
    <2>1. PICK o \in CorrectSets(Uid(w), Cont(w)) :
            IF o.err THEN Retry(w)
            ELSE /\ Goto(w, "apply")
                 /\ val' = [val EXCEPT ![w] = [cfg |-> o.cfg, real |-> o.real]]
                 /\ UNCHANGED <<wobj, try, idx, path>>
      BY <1>3 DEF Determine
    <2>2. CASE o.err
      BY <1>a, <1>3, <2>1, <2>2, RetryShape DEF Determine, Adjusting
    <2>3. CASE ~o.err
      <3>1. /\ pc' = [pc EXCEPT ![w] = "apply"] /\ UNCHANGED <<wobj, idx>>
            /\ val' = [val EXCEPT ![w] = [cfg |-> o.cfg, real |-> o.real]]
        BY <2>1, <2>3 DEF Goto
      <3>2. val'[w].real = o.real
        BY <1>a, <3>1 DEF WorkTypeOK
      <3>3. pc[w] = "determine" /\ pc'[w] = "apply"
        BY <1>a, <1>3, <3>1 DEF Determine, WorkTypeOK
      <3>4. Decides(w)
        BY <2>3, <3>1, <3>2, <3>3 DEF Decides
      <3> QED
        BY <1>a, <3>1, <3>4 DEF OthersKept, WorkTypeOK
    <2> QED
      BY <2>2, <2>3
  <1>4. CASE ApplyCpusetToContainer(w)
    <2>1. pc[w] \in Adjusting
      BY <1>4 DEF ApplyCpusetToContainer, Adjusting
    <2>2. Retry(w) \/ (pc' = [pc EXCEPT ![w] = "clear"] /\ UNCHANGED <<wobj, idx, val>>)
      BY <1>4 DEF ApplyCpusetToContainer, Goto
    <2>3. CASE Retry(w)
      BY <1>a, <2>1, <2>3, RetryShape
    <2>4. CASE pc' = [pc EXCEPT ![w] = "clear"] /\ UNCHANGED <<wobj, idx, val>>
      BY <1>a, <2>1, <2>4 DEF WorkTypeOK, OthersKept, Continues, Adjusting
    <2> QED
      BY <2>2, <2>3, <2>4
  <1>5. CASE ClearCpus(w)
    BY <1>a, <1>5 DEF ClearCpus, Goto, WorkTypeOK, OthersKept, Continues, Adjusting
  <1>6. CASE FillCpus(w)
    <2>1. /\ pc' = [pc EXCEPT ![w] = "determine"] \/ pc' = [pc EXCEPT ![w] = "infra"]
          /\ idx' = [idx EXCEPT ![w] = idx[w] + 1] \/ idx' = idx
          /\ val' = [val EXCEPT ![w] = NoValue] /\ wobj' = wobj /\ pc[w] = "fill"
      BY <1>a, <1>6 DEF FillCpus, Goto, WorkTypeOK
    <2>2. OthersKept(w)
      BY <1>a, <2>1 DEF WorkTypeOK, OthersKept
    <2>3. Continues(w)
      BY <1>a, <2>1 DEF WorkTypeOK, Continues, Adjusting
    <2> QED
      BY <2>2, <2>3
  <1>7. CASE ApplyCpusetToInfraContainer(w)
    <2>1. pc[w] \in Adjusting
      BY <1>7 DEF ApplyCpusetToInfraContainer, Adjusting
    <2>2. Retry(w) \/ (pc' = [pc EXCEPT ![w] = "annotate"] /\ UNCHANGED <<wobj, idx, val>>)
      BY <1>7 DEF ApplyCpusetToInfraContainer, Goto
    <2>3. CASE Retry(w)
      BY <1>a, <2>1, <2>3, RetryShape
    <2>4. CASE pc' = [pc EXCEPT ![w] = "annotate"] /\ UNCHANGED <<wobj, idx, val>>
      BY <1>a, <2>1, <2>4 DEF WorkTypeOK, OthersKept, Continues, Adjusting
    <2> QED
      BY <2>2, <2>3, <2>4
  <1>8. CASE SetPodAnnotation(w)
    BY <1>a, <1>8, RetryShape, GiveUpShape DEF SetPodAnnotation, Adjusting
  <1>9. CASE WorkerFault(w)
    <2>1. GiveUp(w) \/ (pc[w] \in Adjusting /\ Retry(w))
      BY <1>9 DEF WorkerFault, Adjusting
    <2> QED
      BY <1>a, <2>1, RetryShape, GiveUpShape
  <1> QED
    BY <1>1, <1>2, <1>3, <1>4, <1>5, <1>6, <1>7, <1>8, <1>9 DEF Worker

(* Only the workers' and the process' own steps touch the workers.         *)
LEMMA WorkFrame ==
  ASSUME [Next]_vars, \A w \in Workers : ~Worker(w)
  PROVE  \/ UNCHANGED <<pc, wobj, val, idx>>
         \/ \A w \in Workers : pc'[w] = "idle" /\ wobj'[w] = NoObject
  <1>1. CASE Environment
    BY <1>1, EnvironmentFrame DEF workVars
  <1>2. CASE Informer
    BY <1>2 DEF Informer, InformerQuiet, PodChanged, workVars
  <1>3. CASE Reconciler
    BY <1>3 DEF Reconciler, GetPodsFromKubelet, ReconcileContainer, ReconcilerClears,
                ReconcilerFills, ReconcilerWrites, ReconcilerFault, workVars
  <1>4. CASE Stop
    BY <1>4 DEF Stop, workVars
  <1>5. CASE Exit \/ Crash
    BY <1>5 DEF Exit, Crash, Restart
  <1>6. CASE UNCHANGED vars
    BY <1>6 DEF vars
  <1> QED
    BY <1>1, <1>2, <1>3, <1>4, <1>5, <1>6 DEF Next

-----------------------------------------------------------------------------
(* The invariants about the threads.                                       *)

LEMMA NoObjectPlausible == Plausible(NoObject)
  BY NoObjectType DEF Plausible

LEMMA WatchStep ==
  ASSUME TypeOK, [Next]_vars
  PROVE  /\ \A n \in Names : \/ seen'[n] = seen[n] \/ seen'[n] = NoObject
                             \/ \E p \in Pods : seen'[n] = api[p]
         /\ \A i \in 1 .. Len(queue') :
              \/ \E j \in 1 .. Len(queue) : queue'[i] = queue[j]
              \/ \E p \in Pods : queue'[i] = api[p]
  <1>t. WatchTypeOK
    BY DEF TypeOK
  <1>0. CASE UNCHANGED watchVars
    BY <1>0 DEF watchVars
  <1>1. CASE Environment
    BY <1>0, <1>1, EnvironmentFrame
  <1>2. ASSUME NEW n \in Names, InformerQuiet(n) \/ PodChanged(n)
        PROVE  /\ \A m \in Names : \/ seen'[m] = seen[m] \/ seen'[m] = NoObject
                                   \/ \E p \in Pods : seen'[m] = api[p]
               /\ \A i \in 1 .. Len(queue') :
                    \/ \E j \in 1 .. Len(queue) : queue'[i] = queue[j]
                    \/ \E p \in Pods : queue'[i] = api[p]
    <2>1. Stored(n) = NoObject \/ \E p \in Pods : Stored(n) = api[p]
      BY StoredType
    <2>2. seen' = [seen EXCEPT ![n] = Stored(n)]
      BY <1>2 DEF InformerQuiet, PodChanged
    <2>3. queue' = queue \/ (Stored(n).phase # "Absent" /\ queue' = Append(queue, Stored(n)))
      BY <1>2 DEF InformerQuiet, PodChanged
    <2>4. CASE queue' = queue
      BY <1>t, <2>1, <2>2, <2>4 DEF WatchTypeOK
    <2>5. CASE Stored(n).phase # "Absent" /\ queue' = Append(queue, Stored(n))
      <3>1. PICK p \in Pods : Stored(n) = api[p]
        BY <2>1, <2>5, BlankType DEF NoObject, Phases
      <3>2. api[p] \in Objects
        BY DEF TypeOK, KubeTypeOK
      <3>3. \A i \in 1 .. Len(queue') :
              (i \in 1 .. Len(queue) /\ queue'[i] = queue[i]) \/ queue'[i] = api[p]
        BY <1>t, <2>5, <3>1, <3>2 DEF WatchTypeOK
      <3> QED
        BY <1>t, <2>1, <2>2, <3>3 DEF WatchTypeOK
    <2> QED
      BY <2>3, <2>4, <2>5
  <1>3. CASE Informer
    BY <1>2, <1>3 DEF Informer
  <1>4. ASSUME NEW w \in Workers, Worker(w)
        PROVE  seen' = seen /\ (queue' = queue \/ (queue # <<>> /\ queue' = Tail(queue)))
    BY <1>4 DEF Worker, ProcessNextWorkItem, RefreshPod, Determine, ApplyCpusetToContainer,
                ClearCpus, FillCpus, ApplyCpusetToInfraContainer, SetPodAnnotation, WorkerFault,
                watchVars
  <1>5. CASE seen' = seen /\ queue # <<>> /\ queue' = Tail(queue)
    <2>1. \A i \in 1 .. Len(queue') : i + 1 \in 1 .. Len(queue) /\ queue'[i] = queue[i + 1]
      BY <1>t, <1>5 DEF WatchTypeOK
    <2> QED
      BY <1>5, <2>1
  <1>6. CASE Reconciler
    BY <1>0, <1>6 DEF Reconciler, GetPodsFromKubelet, ReconcileContainer, ReconcilerClears,
                      ReconcilerFills, ReconcilerWrites, ReconcilerFault
  <1>7. CASE Stop
    BY <1>0, <1>7 DEF Stop
  <1>8. CASE Exit \/ Crash
    BY <1>8 DEF Exit, Crash, Restart
  <1>9. CASE UNCHANGED vars
    BY <1>0, <1>9 DEF vars, watchVars
  <1> QED
    BY <1>0, <1>1, <1>3, <1>4, <1>5, <1>6, <1>7, <1>8, <1>9 DEF Next, watchVars

(* Every copy of a Pod object, however stale, only reports containers      *)
(* that kubelet did start.                                                 *)
LEMMA ObjectsPlausibleStep ==
  ASSUME TypeOK, TypeOK', KubeletCoherent, KubeletCoherent', ObjectsPlausible, [Next]_vars
  PROVE  ObjectsPlausible'
  <1>k. /\ \A o \in Objects : Plausible(o) => Plausible(o)'
        /\ \A p \in Pods : api[p] \in Objects /\ Plausible(api[p])
    BY PlausibleStable DEF ObjectsPlausible, TypeOK, KubeTypeOK
  <1>n. Plausible(NoObject)'
    BY <1>k, NoObjectType, NoObjectPlausible
  <1>1. ASSUME NEW p \in Pods PROVE Plausible(api[p])'
    <2>1. CASE api'[p] = api[p]
      BY <1>k, <2>1 DEF Plausible
    <2>2. CASE \E ph \in Phases : api'[p] = Blank(p, ph)
      BY <2>2, BlankType DEF Plausible
    <2>3. CASE api'[p] = Observed(p) /\ UNCHANGED <<stage, inc>> /\ stage[p] \in {"admitted", "finished"}
      <3>1. api'[p].uid = p /\ api'[p].ids = inc[p]
        BY <2>3 DEF Observed
      <3>2. \A c \in Containers : inc[p][c] <= inc[p][c]
        BY BoundsAssumption DEF TypeOK, KubeTypeOK
      <3> QED
        BY <2>3, <3>1, <3>2 DEF Plausible, Started
    <2>4. CASE Environment
      <3>0. PICK q \in Pods :
              \/ CreatePod(q) \/ AdmitPod(q) \/ FinishPod(q) \/ DeletePod(q) \/ StatusUpdate(q)
              \/ \E c \in Containers : StartContainer(q, c) \/ StopContainer(q, c)
        BY <2>4 DEF Environment
      <3>1. CASE CreatePod(q) \/ DeletePod(q)
        BY <3>1, <2>1, <2>2 DEF CreatePod, DeletePod, Phases, TypeOK, KubeTypeOK
      <3>2. CASE StatusUpdate(q)
        BY <3>2, <2>1, <2>3 DEF StatusUpdate, TypeOK, KubeTypeOK
      <3>3. CASE \/ AdmitPod(q) \/ FinishPod(q)
                 \/ \E c \in Containers : StartContainer(q, c) \/ StopContainer(q, c)
        BY <3>3, <2>1 DEF AdmitPod, FinishPod, StartContainer, StopContainer
      <3> QED
        BY <3>0, <3>1, <3>2, <3>3
    <2>5. CASE ~Environment
      BY <2>1, <2>5, KubeFrame DEF kubeVars
    <2> QED
      BY <2>4, <2>5
  <1>2. ASSUME NEW n \in Names PROVE Plausible(seen[n])'
    <2>1. seen[n] \in Objects /\ Plausible(seen[n])
      BY DEF ObjectsPlausible, TypeOK, WatchTypeOK
    <2>2. seen'[n] = seen[n] \/ seen'[n] = NoObject \/ \E p \in Pods : seen'[n] = api[p]
      BY WatchStep
    <2> QED
      BY <1>k, <1>n, <2>1, <2>2 DEF Plausible
  <1>3. ASSUME NEW i \in 1 .. Len(queue') PROVE Plausible(queue[i])'
    <2>1. \A j \in 1 .. Len(queue) : queue[j] \in Objects /\ Plausible(queue[j])
      BY DEF ObjectsPlausible, TypeOK, WatchTypeOK
    <2>2. \/ \E j \in 1 .. Len(queue) : queue'[i] = queue[j]
          \/ \E p \in Pods : queue'[i] = api[p]
      BY WatchStep
    <2> QED
      BY <1>k, <2>1, <2>2 DEF Plausible
  <1>4. ASSUME NEW v \in Workers PROVE Plausible(wobj[v])'
    <2>1. wobj[v] \in Objects /\ Plausible(wobj[v])
      BY DEF ObjectsPlausible, TypeOK, WorkTypeOK
    <2>2. queue # <<>> => Head(queue) \in Objects /\ Plausible(Head(queue))
      BY DEF ObjectsPlausible, TypeOK, WatchTypeOK
    <2>3. \/ wobj'[v] = wobj[v] \/ wobj'[v] = NoObject
          \/ queue # <<>> /\ wobj'[v] = Head(queue)
          \/ \E p \in Pods : wobj'[v] = api[p]
      <3>1. ASSUME NEW w \in Workers, Worker(w), v # w PROVE wobj'[v] = wobj[v]
        BY <3>1, WorkerShape DEF OthersKept
      <3>2. CASE Worker(v)
        BY <3>2, WorkerShape DEF Abandons, Waits, Takes, Begins, Continues, Decides
      <3>3. CASE \A w \in Workers : ~Worker(w)
        BY <3>3, WorkFrame
      <3> QED
        BY <3>1, <3>2, <3>3
    <2> QED
      BY <1>k, <1>n, <2>1, <2>2, <2>3 DEF Plausible
  <1> QED
    BY <1>1, <1>2, <1>3, <1>4 DEF ObjectsPlausible

(* A worker that adjusts a Pod keeps the object it began with, or began    *)
(* with a ready object of a Pod of this node.                              *)
LEMMA AdjustingShape ==
  ASSUME TypeOK, [Next]_vars, NEW v \in Workers, pc'[v] \in Adjusting
  PROVE  \/ pc[v] \in Adjusting /\ wobj'[v] = wobj[v]
         \/ wobj'[v].uid \in Local /\ IsPodReadyForProcessing(wobj'[v])
  <1>1. ASSUME NEW w \in Workers, Worker(w), v # w
        PROVE  pc[v] \in Adjusting /\ wobj'[v] = wobj[v]
    BY <1>1, WorkerShape DEF OthersKept
  <1>2. CASE Worker(v)
    BY <1>2, WorkerShape DEF Abandons, Waits, Takes, Begins, Continues, Decides, Adjusting
  <1>3. CASE \A w \in Workers : ~Worker(w)
    BY <1>3, WorkFrame DEF Adjusting
  <1> QED
    BY <1>1, <1>2, <1>3

LEMMA HandlesStartedPodsStep ==
  ASSUME TypeOK, TypeOK', KubeletCoherent, ObjectsPlausible', HandlesStartedPods, [Next]_vars
  PROVE  HandlesStartedPods'
  <1> SUFFICES ASSUME NEW v \in Workers, pc'[v] \in Adjusting
               PROVE  /\ wobj'[v].uid \in Local
                      /\ stage'[wobj'[v].uid] \in {"admitted", "finished", "deleted"}
                      /\ \A c \in ContainersOf(wobj'[v].uid) :
                           wobj'[v].ids[c] \in 1 .. inc'[wobj'[v].uid][c]
    BY DEF HandlesStartedPods, Uid, Started
  <1>t. /\ wobj'[v] \in Objects
        /\ inc \in [Pods -> [Containers -> 0 .. MaxStarts]]
        /\ inc' \in [Pods -> [Containers -> 0 .. MaxStarts]]
    BY DEF TypeOK, WorkTypeOK, KubeTypeOK
  <1>u. PICK u : u = wobj'[v].uid
    OBVIOUS
  <1>1. CASE pc[v] \in Adjusting /\ wobj'[v] = wobj[v]
    <2>1. /\ u \in Local /\ Started(u)
          /\ \A c \in ContainersOf(u) : wobj'[v].ids[c] \in 1 .. inc[u][c]
      BY <1>u, <1>1 DEF HandlesStartedPods, Uid
    <2>2. u \in Pods /\ ContainersOf(u) \subseteq Containers
      BY <2>1, PodsAssumption, SpecContainerType
    <2>3. Started(u)' /\ \A c \in Containers : inc[u][c] <= inc'[u][c]
      BY <2>1, <2>2, KubeMonotone
    <2>4. \A c \in ContainersOf(u) : inc[u][c] \in Int /\ inc'[u][c] \in Int
      BY <1>t, <2>2, BoundsAssumption
    <2>5. \A c \in ContainersOf(u) : wobj'[v].ids[c] \in 1 .. inc'[u][c]
      BY <2>1, <2>2, <2>3, <2>4
    <2> QED
      BY <1>u, <2>1, <2>3, <2>5 DEF Started
  <1>2. CASE wobj'[v].uid \in Local /\ IsPodReadyForProcessing(wobj'[v])
    <2>1. u \in Pods /\ ContainersOf(u) \subseteq Containers /\ ContainersOf(u) # {}
      BY <1>u, <1>2, PodsAssumption, SpecContainerType
    <2>2. \A c \in ContainersOf(u) : wobj'[v].ids[c] # 0
      BY <1>u, <1>2 DEF IsPodReadyForProcessing
    <2>3. \A c \in Containers : wobj'[v].ids[c] # 0 =>
            Started(u)' /\ wobj'[v].ids[c] <= inc'[u][c]
      BY <1>u DEF ObjectsPlausible, Plausible, Started
    <2>4. \A c \in Containers : wobj'[v].ids[c] \in 0 .. MaxStarts /\ inc'[u][c] \in 0 .. MaxStarts
      BY <1>t, <2>1 DEF Objects
    <2>5. Started(u)'
      BY <2>1, <2>2, <2>3
    <2>6. \A c \in ContainersOf(u) : wobj'[v].ids[c] \in 1 .. inc'[u][c]
      BY <2>1, <2>2, <2>3, <2>4, BoundsAssumption
    <2> QED
      BY <1>u, <1>2, <2>5, <2>6 DEF Started
  <1> QED
    BY <1>1, <1>2, AdjustingShape

(* Between the computation of a set and its write the Pod may end, but     *)
(* kubelet cannot give its devices another meaning while it is admitted.   *)
LEMMA PendingApplyStep ==
  ASSUME TypeOK, TypeOK', KubeletCoherent, HandlesStartedPods, PendingWritesOwn, [Next]_vars,
         NEW v \in Workers, pc'[v] = "apply", stage'[Uid(v)'] = "admitted", val'[v].real # {}
  PROVE  val'[v].real \in OwnSets(Uid(v), Cont(v))'
  <1>1. \/ /\ pc[v] = "apply" /\ val'[v] = val[v] /\ wobj'[v] = wobj[v] /\ idx'[v] = idx[v]
        \/ Decides(v)
    <2>1. CASE \E w \in Workers : Worker(w) /\ v # w
      BY <2>1, WorkerShape DEF OthersKept
    <2>2. CASE Worker(v)
      BY <2>2, WorkerShape DEF Abandons, Waits, Takes, Begins, Continues
    <2>3. CASE \A w \in Workers : ~Worker(w)
      BY <2>3, WorkFrame
    <2> QED
      BY <2>1, <2>2, <2>3
  <1>2. /\ Uid(v)' = Uid(v) /\ Cont(v)' = Cont(v) /\ pc[v] \in Adjusting
    BY <1>1 DEF Uid, Cont, Decides, Adjusting
  <1>3. Uid(v) \in Local /\ Started(Uid(v)) /\ Uid(v) \in Pods /\ Cont(v) \in Containers
    BY <1>2, WorkerContainerType DEF HandlesStartedPods
  <1>4. stage[Uid(v)] = "admitted" /\ OwnSets(Uid(v), Cont(v))' = OwnSets(Uid(v), Cont(v))
    <2>1. \A u \in Local, c \in Containers : Started(u) /\ stage'[u] = "admitted" =>
            stage[u] = "admitted" /\ OwnSets(u, c)' = OwnSets(u, c)
      BY OwnSetsStep
    <2>2. ASSUME NEW u, NEW c, u = Uid(v), c = Cont(v), u = Uid(v)', c = Cont(v)'
          PROVE  OwnSets(Uid(v), Cont(v))' = OwnSets(u, c)'
      BY <2>2 DEF OwnSets, CorrectSets, GetListOfAllocatedExclusiveCpus
    <2> QED
      BY <1>2, <1>3, <2>1, <2>2
  <1>5. val'[v].real \in OwnSets(Uid(v), Cont(v))
    <2>1. CASE pc[v] = "apply" /\ val'[v] = val[v]
      BY <1>4, <2>1 DEF PendingWritesOwn
    <2>2. CASE Decides(v)
      BY <2>2 DEF Decides, OwnSets
    <2> QED
      BY <1>1, <2>1, <2>2
  <1> QED
    BY <1>4, <1>5

Writing == {"clear", "fill", "write"}

LEMMA RecFrame ==
  ASSUME [Next]_vars, ~Reconciler
  PROVE  \/ UNCHANGED <<rtodo, ritem, rval>> /\ (rpc' = rpc \/ rpc' = "stopped")
         \/ rtodo' = {} /\ rpc' = "idle"
  <1>1. CASE Environment
    BY <1>1, EnvironmentFrame DEF recVars
  <1>2. CASE Informer
    BY <1>2 DEF Informer, InformerQuiet, PodChanged, recVars
  <1>3. CASE \E w \in Workers : Worker(w)
    BY <1>3 DEF Worker, ProcessNextWorkItem, RefreshPod, Determine, ApplyCpusetToContainer,
                ClearCpus, FillCpus, ApplyCpusetToInfraContainer, SetPodAnnotation, WorkerFault,
                recVars
  <1>4. CASE Stop
    BY <1>4 DEF Stop
  <1>5. CASE Exit \/ Crash
    BY <1>5 DEF Exit, Crash, Restart
  <1>6. CASE UNCHANGED vars
    BY <1>6 DEF vars
  <1> QED
    BY <1>1, <1>2, <1>3, <1>4, <1>5, <1>6 DEF Next

(* The item the reconciliation thread is about to write was taken up with  *)
(* a set computed for it, or is still the one of the last step.            *)
LEMMA RecShape ==
  ASSUME TypeOK, [Next]_vars, rpc' \in Writing
  PROVE  \/ rpc \in Writing /\ ritem' = ritem /\ rval' = rval
         \/ \E i \in rtodo : /\ ritem' = i /\ i.uid \in Local
                             /\ \E o \in CorrectSets(i.uid, i.c) : ~o.err /\ rval'.real = o.real
  <1>1. CASE ~Reconciler
    BY <1>1, RecFrame DEF Writing
  <1>2. CASE GetPodsFromKubelet
    BY <1>2 DEF GetPodsFromKubelet, Writing
  <1>3. ASSUME NEW i \in rtodo, ReconcileContainer(i)
        PROVE  \E j \in rtodo : /\ ritem' = j /\ j.uid \in Local
                 /\ \E o \in CorrectSets(j.uid, j.c) : ~o.err /\ rval'.real = o.real
    BY <1>3 DEF ReconcileContainer, AfterItem, Writing, Live
  <1>4. CASE ReconcilerClears \/ ReconcilerFills
    BY <1>4 DEF ReconcilerClears, ReconcilerFills, Writing
  <1>5. CASE ReconcilerWrites
    BY <1>5 DEF ReconcilerWrites, AfterItem, Writing
  <1>6. CASE ReconcilerFault
    BY <1>6 DEF ReconcilerFault, AfterItem, Writing
  <1> QED
    BY <1>1, <1>2, <1>3, <1>4, <1>5, <1>6 DEF Reconciler

LEMMA TodoStep ==
  ASSUME TypeOK, [Next]_vars
  PROVE  rtodo' \subseteq rtodo \cup Listed
  <1>1. CASE ~Reconciler
    BY <1>1, RecFrame
  <1>2. CASE Reconciler
    BY <1>2 DEF Reconciler, GetPodsFromKubelet, ReconcileContainer, ReconcilerClears,
                ReconcilerFills, ReconcilerWrites, ReconcilerFault
  <1> QED
    BY <1>1, <1>2

LEMMA PendingWritesOwnStep ==
  ASSUME TypeOK, TypeOK', KubeletCoherent, ObjectsPlausible, HandlesStartedPods,
         PendingWritesOwn, [Next]_vars
  PROVE  PendingWritesOwn'
  <1>1. ASSUME NEW v \in Workers, pc'[v] = "apply", stage'[Uid(v)'] = "admitted",
               val'[v].real # {}
        PROVE  val'[v].real \in OwnSets(Uid(v), Cont(v))'
    BY <1>1, PendingApplyStep
  <1>2. \A i \in rtodo \cup Listed : i \in Items /\ i.uid \in Pods /\ i.c \in Containers /\ Started(i.uid)
    <2>1. \A i \in rtodo : i \in Items /\ i.uid \in Pods /\ i.c \in Containers /\ Started(i.uid)
      BY DEF PendingWritesOwn, TypeOK, RecTypeOK, Items
    <2>2. ASSUME NEW i \in Listed PROVE i \in Items /\ i.uid \in Pods /\ i.c \in Containers /\ Started(i.uid)
      <3>1. i \in Items /\ i.uid \in Pods /\ i.c \in Containers /\ i.id \in 1 .. MaxStarts
        BY DEF Listed, Items
      <3>2. api[i.uid].ids[i.c] = i.id /\ i.id # 0
        BY <3>1, BoundsAssumption DEF Listed
      <3>3. api[i.uid].uid = i.uid
        BY <3>1 DEF TypeOK
      <3> QED
        BY <3>1, <3>2, <3>3 DEF ObjectsPlausible, Plausible
    <2> QED
      BY <2>1, <2>2
  <1>3. \A i \in rtodo' : Started(i.uid)'
    <2> SUFFICES ASSUME NEW i \in rtodo' PROVE stage'[i.uid] \in {"admitted", "finished", "deleted"}
      BY DEF Started
    <2>1. i.uid \in Pods /\ Started(i.uid)
      BY <1>2, TodoStep
    <2>2. \A p \in Pods : Started(p) => stage'[p] \in {"admitted", "finished", "deleted"}
      BY KubeMonotone DEF Started
    <2> QED
      BY <2>1, <2>2
  <1>4. ASSUME rpc' \in Writing
        PROVE  /\ ritem'.uid \in Local
               /\ stage'[ritem'.uid] \in {"admitted", "finished", "deleted"}
               /\ stage'[ritem'.uid] = "admitted" /\ rval'.real # {}
                    => rval'.real \in OwnSets(ritem.uid, ritem.c)'
    <2>1. PICK i \in Items : ritem' = i
      BY <1>4 DEF TypeOK, RecTypeOK, Writing
    <2>2. i.uid \in Pods /\ i.c \in Containers
      BY DEF Items
    <2>3. /\ i.uid \in Local /\ Started(i.uid)
          /\ stage[i.uid] = "admitted" /\ rval'.real # {} => rval'.real \in OwnSets(i.uid, i.c)
      <3>1. CASE rpc \in Writing /\ ritem' = ritem /\ rval' = rval
        BY <2>1, <3>1 DEF PendingWritesOwn, Writing
      <3>2. CASE i \in rtodo /\ i.uid \in Local /\ \E o \in CorrectSets(i.uid, i.c) : ~o.err /\ rval'.real = o.real
        BY <1>2, <3>2 DEF OwnSets
      <3> QED
        BY <1>4, <2>1, <3>1, <3>2, RecShape
    <2>4. ASSUME stage'[i.uid] = "admitted"
          PROVE  stage[i.uid] = "admitted" /\ OwnSets(i.uid, i.c)' = OwnSets(i.uid, i.c)
      BY <2>2, <2>3, <2>4, OwnSetsStep
    <2>5. stage'[i.uid] \in {"admitted", "finished", "deleted"}
      <3>1. Started(i.uid)'
        BY <2>2, <2>3, KubeMonotone
      <3> QED
        BY <3>1 DEF Started
    <2>6. OwnSets(ritem.uid, ritem.c)' = OwnSets(i.uid, i.c)'
      BY <2>1 DEF OwnSets, CorrectSets, GetListOfAllocatedExclusiveCpus
    <2> QED
      BY <2>1, <2>3, <2>4, <2>5, <2>6
  <1> QED
    BY <1>1, <1>3, <1>4 DEF PendingWritesOwn, Writing, Started

(* Whoever writes the cgroup of a container of an admitted Pod writes one  *)
(* of the container's own sets or, mistaking it for the infra container,   *)
(* the default pool.                                                       *)
LEMMA CpusetWrites ==
  ASSUME TypeOK, HandlesStartedPods, PendingWritesOwn, [Next]_vars, ~Environment,
         NEW p \in Pods, NEW c \in Containers, stage[p] = "admitted"
  PROVE  cpuset'[p][c] = cpuset[p][c] \/ cpuset'[p][c] \in OwnSets(p, c) \cup DefaultSets
  <1>t. cpuset \in [Pods -> [Containers -> SUBSET CPUs]]
    BY DEF TypeOK, CgroupTypeOK
  <1>1. CASE Informer
    BY <1>1 DEF Informer, InformerQuiet, PodChanged, cgroupVars
  <1>2. ASSUME NEW w \in Workers, Worker(w)
        PROVE  cpuset'[p][c] = cpuset[p][c] \/ cpuset'[p][c] \in OwnSets(p, c) \cup DefaultSets
    <2>1. CASE ApplyCpusetToContainer(w)
      <3>1. \/ cpuset' = cpuset
            \/ val[w].real # {} /\ cpuset' = [cpuset EXCEPT ![Uid(w)][Cont(w)] = val[w].real]
        BY <2>1 DEF ApplyCpusetToContainer
      <3>2. pc[w] = "apply" /\ Uid(w) \in Pods /\ Cont(w) \in Containers
        BY <2>1, WorkerContainerType DEF ApplyCpusetToContainer, Adjusting
      <3>3. CASE cpuset' = cpuset
        BY <3>3
      <3>4. CASE val[w].real # {} /\ cpuset' = [cpuset EXCEPT ![Uid(w)][Cont(w)] = val[w].real]
        <4>1. CASE p = Uid(w) /\ c = Cont(w)
          BY <1>t, <3>2, <3>4, <4>1 DEF PendingWritesOwn
        <4>2. CASE ~(p = Uid(w) /\ c = Cont(w))
          BY <1>t, <3>2, <3>4, <4>2
        <4> QED
          BY <4>1, <4>2
      <3> QED
        BY <3>1, <3>3, <3>4
    <2>2. CASE ApplyCpusetToInfraContainer(w)
      <3>1. \/ cpuset' = cpuset
            \/ \E d \in DefaultSets, e \in UnknownContainers(w) :
                 cpuset' = [cpuset EXCEPT ![Uid(w)][e] = d]
        BY <2>2 DEF ApplyCpusetToInfraContainer, cgroupVars
      <3>2. Uid(w) \in Pods
        BY <2>2, WorkerContainerType DEF ApplyCpusetToInfraContainer, Adjusting
      <3>3. UnknownContainers(w) \subseteq Containers
        BY <3>2, SpecContainerType DEF UnknownContainers
      <3>4. ASSUME NEW d \in DefaultSets, NEW e \in UnknownContainers(w),
                   cpuset' = [cpuset EXCEPT ![Uid(w)][e] = d]
            PROVE  cpuset'[p][c] = cpuset[p][c] \/ cpuset'[p][c] \in DefaultSets
        BY <1>t, <3>2, <3>3, <3>4
      <3> QED
        BY <3>1, <3>4
    <2>3. CASE ~ApplyCpusetToContainer(w) /\ ~ApplyCpusetToInfraContainer(w)
      BY <1>2, <2>3 DEF Worker, ProcessNextWorkItem, RefreshPod, Determine, ClearCpus, FillCpus,
                        SetPodAnnotation, WorkerFault, cgroupVars
    <2> QED
      BY <2>1, <2>2, <2>3
  <1>3. CASE ReconcilerWrites
    <2>1. ritem \in Items /\ ritem.uid \in Pods /\ ritem.c \in Containers
      BY <1>3 DEF ReconcilerWrites, TypeOK, RecTypeOK, Items
    <2>2. \/ cpuset' = cpuset
          \/ rval.real # {} /\ cpuset' = [cpuset EXCEPT ![ritem.uid][ritem.c] = rval.real]
      BY <1>3 DEF ReconcilerWrites
    <2>3. stage[ritem.uid] = "admitted" /\ rval.real # {} => rval.real \in OwnSets(ritem.uid, ritem.c)
      BY <1>3 DEF ReconcilerWrites, PendingWritesOwn
    <2>4. CASE cpuset' = cpuset
      BY <2>4
    <2>5. CASE rval.real # {} /\ cpuset' = [cpuset EXCEPT ![ritem.uid][ritem.c] = rval.real]
      <3>1. CASE p = ritem.uid /\ c = ritem.c
        BY <1>t, <2>1, <2>3, <2>5, <3>1
      <3>2. CASE ~(p = ritem.uid /\ c = ritem.c)
        BY <1>t, <2>1, <2>5, <3>2
      <3> QED
        BY <3>1, <3>2
    <2> QED
      BY <2>2, <2>4, <2>5
  <1>4. CASE Reconciler /\ ~ReconcilerWrites
    BY <1>4 DEF Reconciler, GetPodsFromKubelet, ReconcileContainer, ReconcilerClears,
                ReconcilerFills, ReconcilerFault, cgroupVars
  <1>5. CASE Stop \/ Exit \/ Crash
    BY <1>5 DEF Stop, Exit, Crash, Restart, cgroupVars
  <1>6. CASE UNCHANGED vars
    BY <1>6 DEF vars
  <1> QED
    BY <1>1, <1>2, <1>3, <1>4, <1>5, <1>6 DEF Next

LEMMA ConfinedStep ==
  ASSUME TypeOK, TypeOK', KubeletCoherent, KubeletCoherent', HandlesStartedPods, PendingWritesOwn,
         Confined, [Next]_vars
  PROVE  Confined'
  <1> SUFFICES ASSUME NEW p \in Pods, NEW c \in Containers, Provisioned(p, c)'
               PROVE  cpuset'[p][c] \in OwnSets(p, c)' \cup DefaultSets
    BY DEF Confined
  <1>1. p \in Local /\ up'[p][c] /\ cpuset'[p][c] # AllCpus /\ stage'[p] = "admitted"
    BY DEF Provisioned, Running, KubeletCoherent
  <1>2. CASE Environment
    <2>1. up[p][c] /\ cpuset'[p][c] = cpuset[p][c]
      <3>0. PICK q \in Pods :
              \/ CreatePod(q) \/ AdmitPod(q) \/ FinishPod(q) \/ DeletePod(q) \/ StatusUpdate(q)
              \/ \E e \in Containers : StartContainer(q, e) \/ StopContainer(q, e)
        BY <1>2 DEF Environment
      <3>1. CASE \/ CreatePod(q) \/ AdmitPod(q) \/ FinishPod(q) \/ DeletePod(q) \/ StatusUpdate(q)
        BY <1>1, <3>1 DEF CreatePod, AdmitPod, FinishPod, DeletePod, StatusUpdate, cgroupVars
      <3>2. ASSUME NEW e \in Containers, StopContainer(q, e)
            PROVE  up[p][c] /\ cpuset'[p][c] = cpuset[p][c]
        BY <1>1, <3>2 DEF StopContainer, cgroupVars, TypeOK, KubeTypeOK
      <3>3. ASSUME NEW e \in Containers, StartContainer(q, e)
            PROVE  up[p][c] /\ cpuset'[p][c] = cpuset[p][c]
        <4>1. up' = [up EXCEPT ![q][e] = TRUE] /\ cpuset' = [cpuset EXCEPT ![q][e] = AllCpus]
          BY <3>3 DEF StartContainer
        <4>2. ~(p = q /\ c = e)
          BY <1>1, <4>1 DEF TypeOK, CgroupTypeOK
        <4> QED
          BY <1>1, <4>1, <4>2 DEF TypeOK, KubeTypeOK, CgroupTypeOK
      <3> QED
        BY <3>0, <3>1, <3>2, <3>3
    <2>2. Provisioned(p, c) /\ Started(p)
      BY <1>1, <2>1 DEF Provisioned, Running, KubeletCoherent, Started
    <2>3. OwnSets(p, c)' = OwnSets(p, c)
      BY <1>1, <2>2, OwnSetsStep
    <2> QED
      BY <2>1, <2>2, <2>3 DEF Confined
  <1>3. CASE ~Environment
    <2>1. stage[p] = "admitted" /\ up[p][c]
      BY <1>1, <1>3, KubeFrame DEF kubeVars
    <2>2. OwnSets(p, c)' = OwnSets(p, c)
      BY <1>1, <2>1, OwnSetsStep DEF Started
    <2>3. cpuset'[p][c] = cpuset[p][c] \/ cpuset'[p][c] \in OwnSets(p, c) \cup DefaultSets
      BY <1>3, <2>1, CpusetWrites
    <2>4. CASE cpuset'[p][c] = cpuset[p][c]
      <3>1. Provisioned(p, c)
        BY <1>1, <2>1, <2>4 DEF Provisioned, Running
      <3> QED
        BY <2>2, <2>4, <3>1 DEF Confined
    <2> QED
      BY <2>2, <2>3, <2>4
  <1> QED
    BY <1>2, <1>3

LEMMA InitIInv == Init => IInv
  <1> SUFFICES ASSUME Init PROVE IInv
    OBVIOUS
  <1>1. TypeOK
    BY InitType
  <1>2. ObjectsPlausible
    <2>1. \A p \in Pods : Plausible(api[p])
      BY BlankType DEF Init, Plausible, Phases
    <2>2. /\ \A n \in Names : seen[n] = NoObject
          /\ \A w \in Workers : wobj[w] = NoObject
          /\ Len(queue) = 0
      BY DEF Init
    <2> QED
      BY <2>1, <2>2, NoObjectPlausible DEF ObjectsPlausible
  <1>3. KubeletCoherent
    BY PodsAssumption DEF Init, KubeletCoherent, Started
  <1>4. DevicesDisjoint
    BY PodsAssumption DEF Init, DevicesDisjoint
  <1>5. HandlesStartedPods /\ PendingWritesOwn
    BY DEF Init, HandlesStartedPods, PendingWritesOwn, Adjusting
  <1>6. Confined
    BY DEF Init, Confined, Provisioned, Running
  <1> QED
    BY <1>1, <1>2, <1>3, <1>4, <1>5, <1>6 DEF IInv

LEMMA NextIInv == IInv /\ [Next]_vars => IInv'
  <1> SUFFICES ASSUME IInv, [Next]_vars PROVE IInv'
    OBVIOUS
  <1> USE DEF IInv
  <1>1. TypeOK'
    BY NextType
  <1>2. KubeletCoherent'
    BY KubeletCoherentStep
  <1>3. ObjectsPlausible'
    BY <1>1, <1>2, ObjectsPlausibleStep
  <1>4. DevicesDisjoint'
    BY DevicesDisjointStep
  <1>5. HandlesStartedPods'
    BY <1>1, <1>3, HandlesStartedPodsStep
  <1>6. PendingWritesOwn'
    BY <1>1, PendingWritesOwnStep
  <1>7. Confined'
    BY <1>1, <1>2, ConfinedStep
  <1> QED
    BY <1>1, <1>2, <1>3, <1>4, <1>5, <1>6, <1>7

(* The inductive invariant: type correctness, what the copies of Pod       *)
(* objects and the threads in the middle of their work may hold, kubelet's *)
(* bookkeeping, and Confined.                                              *)
THEOREM Invariance == Spec => []IInv
  BY InitIInv, NextIInv, PTL DEF Spec

(* For any number of workers, Pods and containers, and any schedule of     *)
(* restarts, crashes and failing operations: the cpuset CPUSetter leaves   *)
(* on a running container was computed from the container's own devices or *)
(* is the default pool.                                                    *)
THEOREM ConfinedThm == Spec => []Confined
  <1>1. IInv => Confined
    BY DEF IInv
  <1> QED
    BY <1>1, Invariance, PTL

(* A worker that got past shouldPodBeHandled holds ids of containers that  *)
(* were started, of a Pod of its own node.                                 *)
THEOREM HandlesStartedPodsThm == Spec => []HandlesStartedPods
  <1>1. IInv => HandlesStartedPods
    BY DEF IInv
  <1> QED
    BY <1>1, Invariance, PTL

-----------------------------------------------------------------------------
(* Isolation.                                                              *)

(* Without overcommitment a device id is the number of its CPU.            *)
LEMMA FinalSetIdentity ==
  ASSUME Separated, NEW r \in ExclusivePools, NEW ids, ids \subseteq DeviceIDs(r)
  PROVE  CalculateFinalExclusiveSet(ids) = ids /\ ids \subseteq Pools[r].CPUset
  <1>1. r \in PoolNames /\ Pools[r].Overcommitment \in Int /\ Pools[r].Overcommitment <= 1
    BY PoolsAssumption DEF ExclusivePools, Separated
  <1>2. Pools[r].CPUset \subseteq CPUs
    BY <1>1, PoolsAssumption
  <1>3. DeviceIDs(r) = {cpu + k * NumCPU : cpu \in Pools[r].CPUset, k \in 0 .. 0}
    BY <1>1 DEF DeviceIDs
  <1>4. \A cpu \in CPUs, k \in 0 .. 0 : cpu + k * NumCPU = cpu
    <2>1. \A k \in 0 .. 0 : k = 0
      OBVIOUS
    <2>2. \A cpu \in CPUs : cpu + 0 * NumCPU = cpu
      BY NumCPUAssumption DEF CPUs
    <2> QED
      BY <2>1, <2>2
  <1>5. DeviceIDs(r) \subseteq Pools[r].CPUset
    BY <1>2, <1>3, <1>4
  <1>6. \A x \in CPUs : x % NumCPU = x
    BY NumCPUAssumption DEF CPUs
  <1>7. \A x \in ids : x % NumCPU = x
    BY <1>2, <1>5, <1>6
  <1> QED
    BY <1>5, <1>7 DEF CalculateFinalExclusiveSet

(* What determineCorrectCpuset chooses meets exclusive pools only in the   *)
(* container's own devices.                                                *)
LEMMA OutcomeSeparated ==
  ASSUME Separated, NEW reqs \in SUBSET PoolNames, NEW devs,
         \A r \in OfKind(reqs, ExclusivePoolID) : devs[r] \subseteq DeviceIDs(r),
         NEW o \in DetermineCorrectCpuset(reqs, devs), ~o.err
  PROVE  o.real \cap ExclusivePoolCpus \subseteq UNION {devs[r] : r \in OfKind(reqs, ExclusivePoolID)}
  <1> DEFINE cloud == OfKind(reqs, CloudphonePoolID)
             excl  == OfKind(reqs, ExclusivePoolID)
  <1>s. \A s \in DefaultSets \cup SharedPoolSets : s \cap ExclusivePoolCpus = {}
    BY DEF Separated
  <1>1. CASE cloud # {}
    <2>1. PICK r \in cloud : o \in CloudphoneOutcomes(r, devs[r])
      BY <1>1 DEF DetermineCorrectCpuset
    <2>2. r \in PoolNames /\ RequestKind(r) = CloudphonePoolID
      BY DEF OfKind
    <2> DEFINE cpus == CalculateFinalExclusiveSet(devs[r])
    <2>3. o # Failed
      BY FailedFields
    <2>4. PICK pool \in SelectPool(r), other \in SelectPool(r) :
            o = Decided(cpus, NumaCores(pool, other, cpus))
      BY <2>1, <2>3 DEF CloudphoneOutcomes
    <2>5. o.real \subseteq {CoreOf[k] : k \in other.CPUset}
      BY <2>4, DecidedFields, NumaCoresType
    <2>6. \A k \in other.CPUset : CoreOf[k] \notin ExclusivePoolCpus
      BY <2>2, SelectPoolType DEF Separated
    <2> QED
      BY <2>5, <2>6
  <1>2. CASE cloud = {}
    <2>1. PICK sh \in SharedSets(reqs), ex \in ExclusiveSets(reqs, devs) :
            \E s \in OwnOrDefault(sh, ex) : o = Decided(s, s)
      BY <1>2 DEF DetermineCorrectCpuset
    <2>2. sh \cap ExclusivePoolCpus = {}
      BY <1>s DEF SharedSets
    <2>3. ex \cap ExclusivePoolCpus \subseteq UNION {devs[r] : r \in excl}
      <3>1. CASE ex = {}
        BY <3>1
      <3>2. CASE \E r \in excl : ex \in ExclusiveSetsOf(r, devs[r])
        <4>1. PICK r \in excl : ex \in ExclusiveSetsOf(r, devs[r])
          BY <3>2
        <4>2. r \in ExclusivePools
          BY DEF OfKind, ExclusivePools
        <4>3. CalculateFinalExclusiveSet(devs[r]) = devs[r] /\ devs[r] \subseteq Pools[r].CPUset
          BY <4>2, FinalSetIdentity
        <4>4. ex = devs[r] \/ ex = AddHTSiblingsToCPUSet(devs[r])
          BY <4>1, <4>3 DEF ExclusiveSetsOf
        <4>5. devs[r] \subseteq ExclusivePoolCpus
          BY <4>2, <4>3 DEF ExclusivePoolCpus
        <4>6. \A x \in devs[r] : HTSiblings[x] \cap ExclusivePoolCpus \subseteq {x}
          BY <4>5 DEF Separated
        <4>7. AddHTSiblingsToCPUSet(devs[r]) \cap ExclusivePoolCpus \subseteq devs[r]
          BY <4>6 DEF AddHTSiblingsToCPUSet
        <4> QED
          BY <4>4, <4>7
      <3> QED
        BY <3>1, <3>2 DEF ExclusiveSets
    <2>4. PICK s \in OwnOrDefault(sh, ex) : o = Decided(s, s)
      BY <2>1
    <2>5. s = sh \cup ex \/ s \in DefaultSets
      BY DEF OwnOrDefault
    <2>6. s \cap ExclusivePoolCpus \subseteq UNION {devs[r] : r \in excl}
      BY <1>s, <2>2, <2>3, <2>5
    <2> QED
      BY <2>4, <2>6, DecidedFields
  <1> QED
    BY <1>1, <1>2

(* The devices of a running container are the ones kubelet allocated.      *)
LEMMA RunningDevices ==
  ASSUME TypeOK, KubeletCoherent, DevicesDisjoint, NEW p \in Pods, NEW c \in Containers, Running(p, c)
  PROVE  /\ stage[p] = "admitted" /\ RequestsOf(p, c) \in SUBSET PoolNames
         /\ \A r \in OfKind(RequestsOf(p, c), ExclusivePoolID) :
              /\ r \in ExclusivePools
              /\ GetListOfAllocatedExclusiveCpus(p, c)[r] = alloc[p][c][r]
              /\ alloc[p][c][r] \subseteq DeviceIDs(r)
  <1>1. stage[p] = "admitted" /\ p \in ckpt
    BY DEF Running, KubeletCoherent
  <1>2. RequestsOf(p, c) \subseteq PoolNames
    BY PodsAssumption
  <1>3. \A r \in OfKind(RequestsOf(p, c), ExclusivePoolID) :
          r \in ExclusivePools /\ r \in CheckpointRequests(p, c) /\ r \in PoolNames
    BY <1>2 DEF OfKind, ExclusivePools, CheckpointRequests, CheckpointKinds
  <1> QED
    BY <1>1, <1>2, <1>3 DEF GetListOfAllocatedExclusiveCpus, DevicesDisjoint

(* calculateFinalExclusiveSet names every CPU of which a device was        *)
(* allocated, in whatever round of overcommitment.                         *)
LEMMA AllocatedFolded ==
  ASSUME NEW r \in PoolNames, NEW ids \in SUBSET Nat, NEW x \in AllocatedOf(r, ids)
  PROVE  x \in CalculateFinalExclusiveSet(ids)
  <1>1. PICK d \in ids : \E k \in 0 .. d : d = x + k * NumCPU
    BY DEF AllocatedOf
  <1>2. PICK k \in 0 .. d : d = x + k * NumCPU
    BY <1>1
  <1>3. x \in 0 .. NumCPU - 1 /\ k \in Nat /\ NumCPU \in Nat \ {0}
    <2>1. x \in CPUs
      BY PoolsAssumption DEF AllocatedOf
    <2> QED
      BY <2>1, NumCPUAssumption DEF CPUs
  <1>4. (x + k * NumCPU) % NumCPU = x
    BY <1>3
  <1> QED
    BY <1>2, <1>4 DEF CalculateFinalExclusiveSet

(* Every exclusive CPU of a container comes from one of its exclusive      *)
(* requests.                                                               *)
LEMMA ExclusiveCpusOf ==
  ASSUME KubeTypeOK, NEW p \in Pods, NEW c \in Containers, NEW x \in ExclusiveCpus(p, c)
  PROVE  \E r \in OfKind(RequestsOf(p, c), ExclusivePoolID) :
           x \in CalculateFinalExclusiveSet(GetListOfAllocatedExclusiveCpus(p, c)[r])
  <1>1. PICK r \in OfKind(RequestsOf(p, c), ExclusivePoolID) :
          x \in AllocatedOf(r, GetListOfAllocatedExclusiveCpus(p, c)[r])
    BY DEF ExclusiveCpus
  <1>2. r \in CheckpointRequests(p, c)
    BY DEF OfKind, CheckpointRequests, CheckpointKinds
  <1> QED
    BY <1>1, <1>2, CheckpointType, AllocatedFolded

LEMMA IsolationInv == Separated /\ IInv => Isolation
  <1> SUFFICES ASSUME Separated, IInv,
                      NEW p \in Pods, NEW q \in Pods, NEW c \in Containers, NEW d \in Containers,
                      <<p, c>> # <<q, d>>, Provisioned(p, c), Running(q, d),
                      NEW x \in cpuset[p][c], x \in ExclusiveCpus(q, d)
               PROVE  FALSE
    BY DEF Isolation
  <1> USE DEF IInv
  <1>1. Running(p, c) /\ p \in Local /\ q \in Local
    BY DEF Provisioned, Running
  <1> DEFINE pdevs == GetListOfAllocatedExclusiveCpus(p, c)
             pexcl == OfKind(RequestsOf(p, c), ExclusivePoolID)
  <1>2. /\ stage[p] = "admitted" /\ RequestsOf(p, c) \in SUBSET PoolNames
        /\ \A r \in pexcl : /\ r \in ExclusivePools /\ pdevs[r] = alloc[p][c][r]
                            /\ alloc[p][c][r] \subseteq DeviceIDs(r)
    BY <1>1, RunningDevices
  <1>3. PICK t \in ExclusivePools : x \in alloc[q][d][t] /\ alloc[q][d][t] \subseteq Pools[t].CPUset
    <2>1. PICK t \in OfKind(RequestsOf(q, d), ExclusivePoolID) :
            x \in CalculateFinalExclusiveSet(GetListOfAllocatedExclusiveCpus(q, d)[t])
      BY ExclusiveCpusOf DEF TypeOK
    <2>2. /\ t \in ExclusivePools /\ alloc[q][d][t] \subseteq DeviceIDs(t)
          /\ GetListOfAllocatedExclusiveCpus(q, d)[t] = alloc[q][d][t]
      BY RunningDevices
    <2>3. /\ CalculateFinalExclusiveSet(alloc[q][d][t]) = alloc[q][d][t]
          /\ alloc[q][d][t] \subseteq Pools[t].CPUset
      BY <2>2, FinalSetIdentity
    <2> QED
      BY <2>1, <2>2, <2>3
  <1>4. stage[q] = "admitted" /\ x \in ExclusivePoolCpus
    BY <1>3, RunningDevices DEF ExclusivePoolCpus
  <1>5. cpuset[p][c] \in OwnSets(p, c) \cup DefaultSets
    BY DEF Confined
  <1>6. CASE cpuset[p][c] \in DefaultSets
    BY <1>4, <1>6 DEF Separated
  <1>7. CASE cpuset[p][c] \in OwnSets(p, c)
    <2>1. PICK o \in CorrectSets(p, c) : ~o.err /\ cpuset[p][c] = o.real
      BY <1>7 DEF OwnSets
    <2>2. o \in DetermineCorrectCpuset(RequestsOf(p, c), pdevs)
      BY <2>1 DEF CorrectSets
    <2>3. \A r \in pexcl : pdevs[r] \subseteq DeviceIDs(r)
      BY <1>2
    <2> HIDE DEF pdevs
    <2>4. o.real \cap ExclusivePoolCpus \subseteq UNION {pdevs[r] : r \in pexcl}
      BY <1>2, <2>1, <2>2, <2>3, OutcomeSeparated
    <2>5. PICK r \in pexcl : x \in pdevs[r]
      BY <1>4, <2>1, <2>4
    <2>6. r \in ExclusivePools /\ x \in alloc[p][c][r] /\ alloc[p][c][r] \subseteq Pools[r].CPUset
      BY <1>2, <2>5, FinalSetIdentity
    <2>7. r = t
      BY <1>3, <2>6 DEF Separated
    <2>8. t \in PoolNames
      BY DEF ExclusivePools
    <2> QED
      BY <1>1, <1>2, <1>3, <1>4, <2>6, <2>7, <2>8 DEF DevicesDisjoint
  <1> QED
    BY <1>5, <1>6, <1>7

(* With pools configured as README.md asks, a container CPUSetter has      *)
(* provisioned never shares a CPU with the exclusive CPUs of another       *)
(* running container: "no containers can ever -even accidentally- access   *)
(* CPU resources not meant for them".                                      *)
THEOREM IsolationThm ==
  ASSUME Separated
  PROVE  Spec => []Isolation
  <1>1. IInv => Isolation
    BY IsolationInv
  <1> QED
    BY <1>1, Invariance, PTL
=============================================================================
