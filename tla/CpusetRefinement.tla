-------------------------- MODULE CpusetRefinement --------------------------
(***************************************************************************)
(* CpuSetter implements CpusetSpec, for every configuration of pools and   *)
(* every number of Pods, workers, restarts, crashes and faults.            *)
(*                                                                         *)
(* Every step of CPUSetter's threads writes the cpuset of at most one      *)
(* container, which runs on this node, and writes a set settled for it     *)
(* (OneWrite).  The steps of kubelet map to Start, Stop and Settle.        *)
(***************************************************************************)
EXTENDS CpuSetterProofs

-----------------------------------------------------------------------------
(* A write of s into the cgroup of a running container of this node.  The  *)
(* default pool is only written into a container that was restarted.       *)
Writes(p, c, s) ==
  /\ up[p][c] /\ s # {} /\ cpuset' = [cpuset EXCEPT ![p][c] = s]
  /\ s \in OwnSets(p, c) \/ (s \in DefaultSets /\ inc[p][c] > 1)

(* Whatever step a thread of CPUSetter takes, it writes at most one        *)
(* container's cpuset, and only while that container runs.                 *)
LEMMA OneWrite ==
  ASSUME IInv, [Next]_vars, ~Environment
  PROVE  cpuset' = cpuset \/ \E p \in Local, c \in Containers : \E s : Writes(p, c, s)
  <1> USE DEF IInv
  <1>0. Local \subseteq Pods
    BY PodsAssumption
  <1>1. CASE Informer
    BY <1>1 DEF Informer, InformerQuiet, PodChanged, cgroupVars
  <1>2. ASSUME NEW w \in Workers, Worker(w)
        PROVE  cpuset' = cpuset \/ \E p \in Local, c \in Containers : \E s : Writes(p, c, s)
    <2>1. CASE ApplyCpusetToContainer(w)
      <3>1. \/ cpuset' = cpuset
            \/ /\ val[w].real # {} /\ Live(Uid(w), Cont(w), CidOf(w))
               /\ cpuset' = [cpuset EXCEPT ![Uid(w)][Cont(w)] = val[w].real]
        BY <2>1 DEF ApplyCpusetToContainer
      <3>2. pc[w] = "apply" /\ Uid(w) \in Pods /\ Cont(w) \in Containers
        BY <2>1, WorkerContainerType DEF ApplyCpusetToContainer, Adjusting
      <3>3. ASSUME val[w].real # {}, Live(Uid(w), Cont(w), CidOf(w)),
                   cpuset' = [cpuset EXCEPT ![Uid(w)][Cont(w)] = val[w].real]
            PROVE  \E p \in Local, c \in Containers : \E s : Writes(p, c, s)
        <4>1. Uid(w) \in Local /\ up[Uid(w)][Cont(w)]
          BY <3>3 DEF Live
        <4>2. stage[Uid(w)] = "admitted"
          BY <3>2, <4>1 DEF KubeletCoherent
        <4>3. val[w].real \in OwnSets(Uid(w), Cont(w))
          BY <3>2, <3>3, <4>2 DEF PendingWritesOwn
        <4>4. Writes(Uid(w), Cont(w), val[w].real)
          BY <3>3, <4>1, <4>3 DEF Writes
        <4> QED
          BY <3>2, <4>1, <4>4
      <3> QED
        BY <3>1, <3>3
    <2>2. CASE ApplyCpusetToInfraContainer(w)
      <3>1. \/ cpuset' = cpuset
            \/ /\ PodCgroupExists(Uid(w))
               /\ \E d \in DefaultSets \ {{}}, e \in UnknownContainers(w) :
                    cpuset' = [cpuset EXCEPT ![Uid(w)][e] = d]
        BY <2>2 DEF ApplyCpusetToInfraContainer, cgroupVars
      <3>2. pc[w] \in Adjusting /\ Uid(w) \in Pods
        BY <2>2, WorkerContainerType DEF ApplyCpusetToInfraContainer, Adjusting
      <3>3. ASSUME PodCgroupExists(Uid(w)),
                   NEW d \in DefaultSets \ {{}}, NEW e \in UnknownContainers(w),
                   cpuset' = [cpuset EXCEPT ![Uid(w)][e] = d]
            PROVE  \E p \in Local, c \in Containers : \E s : Writes(p, c, s)
        <4>1. Uid(w) \in Local
          BY <3>3 DEF PodCgroupExists
        <4>2. e \in ContainersOf(Uid(w)) /\ up[Uid(w)][e] /\ inc[Uid(w)][e] # wobj[w].ids[e]
          BY DEF UnknownContainers
        <4>3. e \in Containers
          BY <3>2, <4>2, SpecContainerType
        <4>4. wobj[w].ids[e] \in 1 .. inc[Uid(w)][e]
          BY <3>2, <4>2 DEF HandlesStartedPods
        <4>5. inc[Uid(w)][e] \in Nat
          BY <3>2, <4>3, BoundsAssumption DEF TypeOK, KubeTypeOK
        <4>6. inc[Uid(w)][e] > 1
          BY <4>2, <4>4, <4>5
        <4>7. Writes(Uid(w), e, d)
          BY <3>3, <4>2, <4>6 DEF Writes
        <4> QED
          BY <4>1, <4>3, <4>7
      <3> QED
        BY <3>1, <3>3
    <2>3. CASE ~ApplyCpusetToContainer(w) /\ ~ApplyCpusetToInfraContainer(w)
      BY <1>2, <2>3 DEF Worker, ProcessNextWorkItem, RefreshPod, Determine, ClearCpus, FillCpus,
                        SetPodAnnotation, WorkerFault, cgroupVars
    <2> QED
      BY <2>1, <2>2, <2>3
  <1>3. CASE ReconcilerWrites
    <2>1. rpc = "write" /\ ritem \in Items /\ ritem.uid \in Pods /\ ritem.c \in Containers
      BY <1>3 DEF ReconcilerWrites, TypeOK, RecTypeOK, Items
    <2>2. \/ cpuset' = cpuset
          \/ /\ Live(ritem.uid, ritem.c, ritem.id) /\ rval.real # {}
             /\ cpuset' = [cpuset EXCEPT ![ritem.uid][ritem.c] = rval.real]
      BY <1>3 DEF ReconcilerWrites
    <2>3. ASSUME Live(ritem.uid, ritem.c, ritem.id), rval.real # {},
                 cpuset' = [cpuset EXCEPT ![ritem.uid][ritem.c] = rval.real]
          PROVE  \E p \in Local, c \in Containers : \E s : Writes(p, c, s)
      <3>1. ritem.uid \in Local /\ up[ritem.uid][ritem.c]
        BY <2>3 DEF Live
      <3>2. stage[ritem.uid] = "admitted"
        BY <2>1, <3>1 DEF KubeletCoherent
      <3>3. rval.real \in OwnSets(ritem.uid, ritem.c)
        BY <2>1, <2>3, <3>2 DEF PendingWritesOwn
      <3>4. Writes(ritem.uid, ritem.c, rval.real)
        BY <2>3, <3>1, <3>3 DEF Writes
      <3> QED
        BY <2>1, <3>1, <3>4
    <2> QED
      BY <2>2, <2>3
  <1>4. CASE Reconciler /\ ~ReconcilerWrites
    BY <1>4 DEF Reconciler, GetPodsFromKubelet, ReconcileContainer, ReconcilerClears,
                ReconcilerFills, ReconcilerFault, cgroupVars
  <1>5. CASE Stop \/ Exit \/ Crash
    BY <1>5 DEF Stop, Exit, Crash, Restart, cgroupVars
  <1>6. CASE UNCHANGED vars
    BY <1>6 DEF vars
  <1> QED
    BY <1>1, <1>2, <1>3, <1>4, <1>5, <1>6 DEF Next

(* What is settled for a container depends on kubelet's allocation only.   *)
LEMMA OwnSetsFrame ==
  ASSUME UNCHANGED <<alloc, ckpt>>, NEW p, NEW c
  PROVE  OwnSets(p, c)' = OwnSets(p, c)
  BY DEF OwnSets, CorrectSets, GetListOfAllocatedExclusiveCpus

-----------------------------------------------------------------------------
(* The refinement mapping.                                                 *)
LocalRunning == {k \in LocalContainers : up[k[1]][k[2]]}
LocalCpuset == [k \in LocalContainers |-> cpuset[k[1]][k[2]]]
Settled == [k \in LocalContainers |-> (OwnSets(k[1], k[2]) \cup DefaultSets) \ {{}}]

LEMMA LocalKey ==
  ASSUME NEW p, NEW c
  PROVE  /\ <<p, c>> \in LocalContainers <=> p \in Local /\ c \in Containers
         /\ \A k \in LocalContainers : k = <<k[1], k[2]>> /\ k[1] \in Local /\ k[2] \in Containers
  BY DEF LocalContainers

LEMMA KeyEquality ==
  ASSUME NEW p, NEW c, NEW j \in LocalContainers
  PROVE  /\ j = <<p, c>> <=> j[1] = p /\ j[2] = c
         /\ j[1] \in Local /\ j[2] \in Containers /\ j[1] \in Pods
  BY PodsAssumption DEF LocalContainers

LEMMA ValueAt ==
  ASSUME NEW S, NEW f \in [Pods -> [Containers -> S]], NEW v,
         NEW p \in Pods, NEW c \in Containers, NEW q \in Pods, NEW d \in Containers
  PROVE  [f EXCEPT ![p][c] = v][q][d] = IF q = p /\ d = c THEN v ELSE f[q][d]
  OBVIOUS

LEMMA InitRefines == Init => Promise!Init
  BY PodsAssumption DEF Init, Promise!Init, LocalContainers

(* A thread of CPUSetter takes a step: the container written is provided.  *)
LEMMA ThreadsRefine ==
  ASSUME IInv, [Next]_vars, ~Environment
  PROVE  [Promise!Next]_(Promise!vars)
  <1>1. UNCHANGED <<up, inc, alloc, ckpt>>
    BY KubeFrame DEF kubeVars
  <1>2. LocalRunning' = LocalRunning /\ Settled' = Settled
    BY <1>1, OwnSetsFrame DEF LocalRunning, Settled, LocalContainers
  <1>3. CASE cpuset' = cpuset
    BY <1>2, <1>3 DEF Promise!vars, LocalRunning, Settled
  <1>4. ASSUME NEW p \in Local, NEW c \in Containers, NEW s, Writes(p, c, s)
        PROVE  Promise!Next
    <2> DEFINE k == <<p, c>>
    <2>1. k \in LocalContainers /\ k[1] = p /\ k[2] = c
      BY LocalKey
    <2>2. k \in LocalRunning /\ s \in Settled[k]
      BY <1>4, <2>1 DEF Writes, LocalRunning, Settled
    <2>3. LocalCpuset' = [LocalCpuset EXCEPT ![k] = s]
      <3>1. \A j \in LocalContainers :
              cpuset'[j[1]][j[2]] = IF j = k THEN s ELSE cpuset[j[1]][j[2]]
        <4>1. /\ cpuset \in [Pods -> [Containers -> SUBSET CPUs]] /\ p \in Pods
              /\ cpuset' = [cpuset EXCEPT ![p][c] = s]
          BY <1>4, PodsAssumption DEF Writes, IInv, TypeOK, CgroupTypeOK
        <4>2. TAKE j \in LocalContainers
        <4>3. /\ j[1] \in Pods /\ j[2] \in Containers
              /\ j = k <=> j[1] = p /\ j[2] = c
          BY KeyEquality
        <4>4. cpuset'[j[1]][j[2]] = IF j[1] = p /\ j[2] = c THEN s ELSE cpuset[j[1]][j[2]]
          BY <4>1, <4>3, ValueAt
        <4> QED
          BY <4>3, <4>4
      <3> QED
        BY <2>1, <3>1 DEF LocalCpuset
    <2>4. Promise!Provide(k)
      BY <1>2, <2>2, <2>3 DEF Promise!Provide, LocalRunning, LocalCpuset, Settled
    <2> QED
      BY <2>1, <2>4 DEF Promise!Next
  <1> QED
    BY <1>3, <1>4, OneWrite

(* Kubelet takes a step.                                                   *)
LEMMA KubeletRefines ==
  ASSUME IInv, IInv', Next, Environment
  PROVE  [Promise!Next]_(Promise!vars)
  <1>0. PICK p \in Pods :
          \/ CreatePod(p) \/ AdmitPod(p) \/ FinishPod(p) \/ DeletePod(p) \/ StatusUpdate(p)
          \/ \E c \in Containers : StartContainer(p, c) \/ StopContainer(p, c)
    BY DEF Environment
  <1>t. /\ up \in [Pods -> [Containers -> BOOLEAN]] /\ Local \subseteq Pods
        /\ cpuset \in [Pods -> [Containers -> SUBSET CPUs]]
    BY PodsAssumption DEF IInv, TypeOK, KubeTypeOK, CgroupTypeOK
  <1>1. CASE CreatePod(p) \/ AdmitPod(p) \/ FinishPod(p) \/ DeletePod(p) \/ StatusUpdate(p)
    <2>1. UNCHANGED <<up, cpuset>>
      BY <1>1 DEF CreatePod, AdmitPod, FinishPod, DeletePod, StatusUpdate, cgroupVars
    <2>2. \A k \in LocalRunning : Settled'[k] = Settled[k]
      <3> SUFFICES ASSUME NEW k \in LocalContainers, up[k[1]][k[2]]
                   PROVE  OwnSets(k[1], k[2])' = OwnSets(k[1], k[2])
        BY DEF LocalRunning, Settled
      <3>1. k[1] \in Local /\ k[2] \in Containers /\ k[1] \in Pods
        BY <1>t, LocalKey
      <3>2. stage[k[1]] = "admitted" /\ stage'[k[1]] = "admitted"
        BY <2>1, <3>1 DEF IInv, KubeletCoherent
      <3> QED
        BY <3>1, <3>2, OwnSetsStep DEF IInv, Started
    <2>3. Promise!Settle
      BY <2>1, <2>2 DEF Promise!Settle, LocalRunning, Settled
    <2> QED
      BY <2>3 DEF Promise!Next
  <1>2. ASSUME NEW c \in Containers, StartContainer(p, c)
        PROVE  [Promise!Next]_(Promise!vars)
    <2> DEFINE k == <<p, c>>
    <2>1. /\ ~up[p][c] /\ up' = [up EXCEPT ![p][c] = TRUE]
          /\ cpuset' = [cpuset EXCEPT ![p][c] = AllCpus] /\ UNCHANGED <<alloc, ckpt>>
      BY <1>2 DEF StartContainer
    <2>2. Settled' = Settled
      BY <2>1, OwnSetsFrame DEF Settled, LocalContainers
    <2>3. CASE p \in Local
      <3>1. k \in LocalContainers /\ k[1] = p /\ k[2] = c
        BY <2>3, LocalKey
      <3>2. \A j \in LocalContainers :
              /\ up'[j[1]][j[2]] <=> up[j[1]][j[2]] \/ j = k
              /\ cpuset'[j[1]][j[2]] = IF j = k THEN AllCpus ELSE cpuset[j[1]][j[2]]
        <4>1. TAKE j \in LocalContainers
        <4>2. /\ j[1] \in Pods /\ j[2] \in Containers
              /\ j = k <=> j[1] = p /\ j[2] = c
          BY KeyEquality
        <4>3. cpuset'[j[1]][j[2]] = IF j[1] = p /\ j[2] = c THEN AllCpus
                                    ELSE cpuset[j[1]][j[2]]
          BY <1>t, <2>1, <4>2, ValueAt
        <4>4. up'[j[1]][j[2]] <=> up[j[1]][j[2]] \/ (j[1] = p /\ j[2] = c)
          BY <1>t, <2>1, <4>2
        <4> QED
          BY <4>2, <4>3, <4>4
      <3>3. LocalRunning' = LocalRunning \cup {k} /\ k \notin LocalRunning
        BY <2>1, <3>1, <3>2 DEF LocalRunning
      <3>4. LocalCpuset' = [LocalCpuset EXCEPT ![k] = AllCpus]
        BY <3>1, <3>2 DEF LocalCpuset
      <3>5. Promise!Start(k)
        BY <2>2, <3>3, <3>4 DEF Promise!Start, LocalRunning, LocalCpuset, Settled
      <3> QED
        BY <3>1, <3>5 DEF Promise!Next
    <2>4. CASE p \notin Local
      <3>1. \A j \in LocalContainers :
              up'[j[1]][j[2]] = up[j[1]][j[2]] /\ cpuset'[j[1]][j[2]] = cpuset[j[1]][j[2]]
        BY <1>t, <2>1, <2>4, LocalKey
      <3>2. LocalRunning' = LocalRunning /\ LocalCpuset' = LocalCpuset
        BY <3>1 DEF LocalRunning, LocalCpuset
      <3> QED
        BY <2>2, <3>2 DEF Promise!vars, LocalRunning, LocalCpuset, Settled
    <2> QED
      BY <2>3, <2>4
  <1>3. ASSUME NEW c \in Containers, StopContainer(p, c)
        PROVE  [Promise!Next]_(Promise!vars)
    <2> DEFINE k == <<p, c>>
    <2>1. up[p][c] /\ up' = [up EXCEPT ![p][c] = FALSE] /\ UNCHANGED <<cpuset, alloc, ckpt>>
      BY <1>3 DEF StopContainer, cgroupVars
    <2>2. Settled' = Settled /\ LocalCpuset' = LocalCpuset
      BY <2>1, OwnSetsFrame DEF Settled, LocalCpuset, LocalContainers
    <2>3. CASE p \in Local
      <3>1. k \in LocalContainers /\ k[1] = p /\ k[2] = c
        BY <2>3, LocalKey
      <3>2. \A j \in LocalContainers : up'[j[1]][j[2]] <=> up[j[1]][j[2]] /\ j # k
        <4>1. TAKE j \in LocalContainers
        <4>2. /\ j[1] \in Pods /\ j[2] \in Containers
              /\ j = k <=> j[1] = p /\ j[2] = c
          BY KeyEquality
        <4>3. up'[j[1]][j[2]] <=> up[j[1]][j[2]] /\ ~(j[1] = p /\ j[2] = c)
          BY <1>t, <2>1, <4>2
        <4> QED
          BY <4>2, <4>3
      <3>3. LocalRunning' = LocalRunning \ {k} /\ k \in LocalRunning
        BY <2>1, <3>1, <3>2 DEF LocalRunning
      <3>4. Promise!Stop(k)
        BY <2>2, <3>3 DEF Promise!Stop, LocalRunning, LocalCpuset, Settled
      <3> QED
        BY <3>1, <3>4 DEF Promise!Next
    <2>4. CASE p \notin Local
      <3>1. \A j \in LocalContainers : up'[j[1]][j[2]] = up[j[1]][j[2]]
        BY <1>t, <2>1, <2>4, LocalKey
      <3>2. LocalRunning' = LocalRunning
        BY <3>1 DEF LocalRunning
      <3> QED
        BY <2>2, <3>2 DEF Promise!vars, LocalRunning, LocalCpuset, Settled
    <2> QED
      BY <2>3, <2>4
  <1> QED
    BY <1>0, <1>1, <1>2, <1>3

(* CPUSetter keeps the promise of CpusetSpec: events, stale Pod objects,   *)
(* retries, restarts and the races of its threads show as nothing but      *)
(* writes of sets settled at the Pod's admission, into the cgroups of      *)
(* containers that run (adjustContainerSets, reconcileCpusets).            *)
THEOREM Refinement == Spec => ImplementsCpusetSpec
  <1>1. Init => Promise!Init
    BY InitRefines
  <1>2. IInv /\ IInv' /\ [Next]_vars => [Promise!Next]_(Promise!vars)
    <2> SUFFICES ASSUME IInv, IInv', [Next]_vars
                 PROVE  [Promise!Next]_(Promise!vars)
      OBVIOUS
    <2>1. CASE ~Environment
      BY <2>1, ThreadsRefine
    <2>2. CASE Environment
      <3>1. Next
        BY <2>2 DEF Next
      <3> QED
        BY <2>2, <3>1, KubeletRefines
    <2> QED
      BY <2>1, <2>2
  <1> QED
    BY <1>1, <1>2, Invariance, PTL DEF Spec, ImplementsCpusetSpec, Promise!Spec
=============================================================================
