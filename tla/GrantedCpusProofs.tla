------------------------- MODULE GrantedCpusProofs --------------------------
(***************************************************************************)
(* What a container that was not restarted gets from CPUSetter, for every  *)
(* configuration, number of Pods, workers, crashes and faults:             *)
(*   FirstStartOwnThm         never anything but its own CPUs              *)
(*   OwnCpusOnlyThm           the same as the property the runs check      *)
(*   AllocatedCpusGrantedThm  all the CPUs allocated to it                 *)
(*   SiblingsUnassignedThm    no hyperthread sibling of a CPU of a         *)
(*                            singleThreaded container, restarted or not   *)
(*   SetOnceThm               one change of its cpuset                     *)
(***************************************************************************)
EXTENDS CpusetRefinement

-----------------------------------------------------------------------------
(* Containers that are not restarted.                                      *)

(* A container in its first start.                                         *)
FirstStart(p, c) == inc[p][c] <= 1

(* applyCpusetToInfraContainer can mistake a container for the infra       *)
(* container only after a restart, so the first start of a container has   *)
(* all CPUs or a set computed for it.                                      *)
FirstStartOwn ==
  \A p \in Pods, c \in Containers :
    Provisioned(p, c) /\ FirstStart(p, c) => cpuset[p][c] \in OwnSets(p, c)

StartedOnce == \A p \in Pods, c \in Containers : p \notin Restarting => FirstStart(p, c)

(* No step of kubelet changes the cpuset of a container that runs on.      *)
LEMMA KubeletKeeps ==
  ASSUME TypeOK, Environment, NEW p \in Pods, NEW c \in Containers,
         up'[p][c], cpuset'[p][c] # AllCpus \/ inc'[p][c] = inc[p][c]
  PROVE  up[p][c] /\ cpuset'[p][c] = cpuset[p][c] /\ inc'[p][c] = inc[p][c]
  <1>t. /\ cpuset \in [Pods -> [Containers -> SUBSET CPUs]]
        /\ up \in [Pods -> [Containers -> BOOLEAN]]
        /\ inc \in [Pods -> [Containers -> Nat]]
    BY BoundsAssumption DEF TypeOK, KubeTypeOK, CgroupTypeOK
  <1>0. PICK q \in Pods :
          \/ CreatePod(q) \/ AdmitPod(q) \/ FinishPod(q) \/ DeletePod(q) \/ StatusUpdate(q)
          \/ \E e \in Containers : StartContainer(q, e) \/ StopContainer(q, e)
    BY DEF Environment
  <1>1. CASE CreatePod(q) \/ AdmitPod(q) \/ FinishPod(q) \/ DeletePod(q) \/ StatusUpdate(q)
    BY <1>1 DEF CreatePod, AdmitPod, FinishPod, DeletePod, StatusUpdate, cgroupVars
  <1>2. ASSUME NEW e \in Containers, StopContainer(q, e)
        PROVE  up[p][c] /\ cpuset'[p][c] = cpuset[p][c] /\ inc'[p][c] = inc[p][c]
    BY <1>t, <1>2 DEF StopContainer, cgroupVars
  <1>3. ASSUME NEW e \in Containers, StartContainer(q, e)
        PROVE  up[p][c] /\ cpuset'[p][c] = cpuset[p][c] /\ inc'[p][c] = inc[p][c]
    <2>1. /\ up' = [up EXCEPT ![q][e] = TRUE] /\ cpuset' = [cpuset EXCEPT ![q][e] = AllCpus]
          /\ inc' = [inc EXCEPT ![q][e] = inc[q][e] + 1]
      BY <1>t, <1>3 DEF StartContainer
    <2>2. ~(p = q /\ c = e)
      <3>1. SUFFICES ASSUME p = q, c = e PROVE FALSE
        OBVIOUS
      <3>2. cpuset'[p][c] = AllCpus /\ inc'[p][c] = inc[p][c] + 1
        BY <1>t, <2>1, <3>1
      <3>3. inc[p][c] \in Nat
        BY <1>t
      <3> QED
        BY <3>2, <3>3
    <2> QED
      BY <1>t, <2>1, <2>2
  <1> QED
    BY <1>0, <1>1, <1>2, <1>3

LEMMA StartedOnceStep ==
  ASSUME TypeOK, StartedOnce, [Next]_vars
  PROVE  StartedOnce'
  <1>t. inc \in [Pods -> [Containers -> Nat]]
    BY BoundsAssumption DEF TypeOK, KubeTypeOK
  <1>1. CASE ~Environment
    BY <1>1, KubeFrame DEF kubeVars, StartedOnce, FirstStart
  <1>2. CASE Environment
    <2>0. PICK q \in Pods :
            \/ CreatePod(q) \/ AdmitPod(q) \/ FinishPod(q) \/ DeletePod(q) \/ StatusUpdate(q)
            \/ \E e \in Containers : StartContainer(q, e) \/ StopContainer(q, e)
      BY <1>2 DEF Environment
    <2>1. CASE inc' = inc
      BY <2>1 DEF StartedOnce, FirstStart
    <2>2. ASSUME NEW e \in Containers, StartContainer(q, e) PROVE StartedOnce'
      <3>1. /\ inc' = [inc EXCEPT ![q][e] = inc[q][e] + 1]
            /\ inc[q][e] = 0 \/ q \in Restarting
        BY <1>t, <2>2 DEF StartContainer
      <3> QED
        BY <1>t, <3>1 DEF StartedOnce, FirstStart
    <2> QED
      BY <2>0, <2>1, <2>2 DEF CreatePod, AdmitPod, FinishPod, DeletePod, StatusUpdate,
         StopContainer
  <1> QED
    BY <1>1, <1>2

LEMMA FirstStartOwnStep ==
  ASSUME IInv, IInv', FirstStartOwn, [Next]_vars
  PROVE  FirstStartOwn'
  <1> USE DEF IInv
  <1> SUFFICES ASSUME NEW p \in Pods, NEW c \in Containers, Provisioned(p, c)', FirstStart(p, c)'
               PROVE  cpuset'[p][c] \in OwnSets(p, c)'
    BY DEF FirstStartOwn
  <1>1. p \in Local /\ up'[p][c] /\ cpuset'[p][c] # AllCpus /\ stage'[p] = "admitted"
    BY DEF Provisioned, Running, KubeletCoherent
  <1>2. CASE Environment
    <2>1. up[p][c] /\ cpuset'[p][c] = cpuset[p][c] /\ inc'[p][c] = inc[p][c]
      BY <1>1, <1>2, KubeletKeeps
    <2>2. Provisioned(p, c) /\ FirstStart(p, c) /\ Started(p)
      BY <1>1, <2>1 DEF Provisioned, Running, FirstStart, KubeletCoherent, Started
    <2>3. OwnSets(p, c)' = OwnSets(p, c)
      BY <1>1, <2>2, OwnSetsStep
    <2> QED
      BY <2>1, <2>2, <2>3 DEF FirstStartOwn
  <1>3. CASE ~Environment
    <2>1. UNCHANGED <<up, inc, alloc, ckpt>>
      BY <1>3, KubeFrame DEF kubeVars
    <2>2. OwnSets(p, c)' = OwnSets(p, c) /\ up[p][c] /\ FirstStart(p, c)
      BY <1>1, <2>1, OwnSetsFrame DEF FirstStart
    <2>3. CASE cpuset'[p][c] = cpuset[p][c]
      BY <1>1, <2>2, <2>3 DEF FirstStartOwn, Provisioned, Running
    <2>4. CASE cpuset'[p][c] # cpuset[p][c]
      <3>1. PICK q \in Local, e \in Containers : \E s : Writes(q, e, s)
        BY <1>3, <2>4, OneWrite
      <3>2. PICK s : Writes(q, e, s)
        BY <3>1
      <3>3. cpuset \in [Pods -> [Containers -> SUBSET CPUs]] /\ q \in Pods
        BY PodsAssumption DEF TypeOK, CgroupTypeOK
      <3>4. cpuset' = [cpuset EXCEPT ![q][e] = s]
        BY <3>2 DEF Writes
      <3>5. p = q /\ c = e /\ cpuset'[p][c] = s
        BY <2>4, <3>3, <3>4
      <3>6. inc[p][c] \in Nat /\ ~(inc[p][c] > 1)
        BY <2>2, BoundsAssumption DEF FirstStart, TypeOK, KubeTypeOK
      <3> QED
        BY <2>2, <3>2, <3>5, <3>6 DEF Writes
    <2> QED
      BY <2>3, <2>4
  <1> QED
    BY <1>2, <1>3

(* The inductive invariant, with what holds of first starts.               *)
FirstInv == IInv /\ FirstStartOwn /\ StartedOnce

THEOREM FirstInvariance == Spec => []FirstInv
  <1>1. Init => FirstStartOwn /\ StartedOnce
    BY DEF Init, FirstStartOwn, StartedOnce, Provisioned, Running, FirstStart
  <1>2. FirstInv /\ [Next]_vars => FirstInv'
    BY NextIInv, FirstStartOwnStep, StartedOnceStep DEF FirstInv, IInv
  <1>3. Init => FirstInv
    BY <1>1, InitIInv DEF FirstInv
  <1> QED
    BY <1>2, <1>3, PTL DEF Spec

LEMMA OwnUnlessRestarted ==
  ASSUME NeverRestarted, FirstInv
  PROVE  OwnCpusOnly
  <1> SUFFICES ASSUME NEW p \in Pods, NEW c \in Containers, Provisioned(p, c)
               PROVE  cpuset[p][c] \in OwnSets(p, c)
    BY DEF OwnCpusOnly
  <1>1. inc[p][c] \in 0 .. MaxStarts /\ MaxStarts \in Nat
    BY BoundsAssumption DEF FirstInv, IInv, TypeOK, KubeTypeOK
  <1>2. FirstStart(p, c)
    BY <1>1 DEF NeverRestarted, FirstInv, StartedOnce, FirstStart
  <1> QED
    BY <1>2 DEF FirstInv, FirstStartOwn

(* Until its first restart, a container of the node is on all CPUs or on a *)
(* set determineCorrectCpuset computed for it: no stale object, retry,     *)
(* crash or race of the threads writes another set, and the default pool   *)
(* of applyCpusetToInfraContainer only ever reaches restarted containers.  *)
THEOREM FirstStartOwnThm == Spec => []FirstStartOwn
  <1>1. FirstInv => FirstStartOwn
    BY DEF FirstInv
  <1> QED
    BY <1>1, FirstInvariance, PTL

(* As long as no container is restarted, CPUSetter writes nothing into a   *)
(* cgroup but what it "calculates [as] the appropriate cpuset for the      *)
(* container" (README.md).                                                 *)
THEOREM OwnCpusOnlyThm ==
  ASSUME NeverRestarted
  PROVE  Spec => []OwnCpusOnly
  <1>1. FirstInv => OwnCpusOnly
    BY OwnUnlessRestarted
  <1> QED
    BY <1>1, FirstInvariance, PTL

-----------------------------------------------------------------------------
(* What determineCorrectCpuset computes for a container with plain         *)
(* requests.                                                               *)

(* The set s consists of the CPUs of devices ids of pool r, with the       *)
(* siblings the pool's policy says, and of a shared set.                   *)
ExclusiveAndShared(r, ids, s) ==
  \/ CalculateFinalExclusiveSet(ids) = {}
  \/ \E sh \in SharedPoolSets \cup {{}}, ex \in ExclusiveSetsOf(r, ids) : s = sh \cup ex

LEMMA ExclusiveOutcome ==
  ASSUME PlainRequests, NEW p \in Pods, NEW c \in Containers,
         NEW r \in OfKind(RequestsOf(p, c), ExclusivePoolID),
         NEW s \in OwnSets(p, c)
  PROVE  ExclusiveAndShared(r, GetListOfAllocatedExclusiveCpus(p, c)[r], s)
  <1> DEFINE reqs == RequestsOf(p, c)
             devs == GetListOfAllocatedExclusiveCpus(p, c)
  <1>1. OfKind(reqs, ExclusivePoolID) = {r} /\ OfKind(reqs, CloudphonePoolID) = {}
    BY DEF OfKind, PlainRequests, CheckpointKinds, ExclusivePoolID, CloudphonePoolID
  <1>2. PICK o \in DetermineCorrectCpuset(reqs, devs) : ~o.err /\ s = o.real
    BY DEF OwnSets, CorrectSets
  <1>3. PICK sh \in SharedSets(reqs), ex \in ExclusiveSets(reqs, devs) :
          \E t \in OwnOrDefault(sh, ex) : o = Decided(t, t)
    BY <1>1, <1>2 DEF DetermineCorrectCpuset
  <1>4. sh \in SharedPoolSets \cup {{}}
    BY DEF SharedSets
  <1>5. ex \in ExclusiveSetsOf(r, devs[r])
    BY <1>1 DEF ExclusiveSets
  <1>6. CalculateFinalExclusiveSet(devs[r]) \subseteq ex
    BY <1>5 DEF ExclusiveSetsOf, AddHTSiblingsToCPUSet
  <1>7. PICK t \in OwnOrDefault(sh, ex) : o = Decided(t, t)
    BY <1>3
  <1>8. s = t
    BY <1>2, <1>7, DecidedFields
  <1> QED
    BY <1>4, <1>5, <1>6, <1>8 DEF OwnOrDefault, ExclusiveAndShared

(* With plain requests every CPU kubelet allocated exclusively to a        *)
(* container is in the cpuset CPUSetter wrote: "the allocated CPUs in case *)
(* of exclusive" (README.md).                                              *)
THEOREM AllocatedCpusGrantedThm ==
  ASSUME NeverRestarted, PlainRequests
  PROVE  Spec => []AllocatedCpusGranted
  <1>1. TypeOK /\ OwnCpusOnly => AllocatedCpusGranted
    <2> SUFFICES ASSUME TypeOK, OwnCpusOnly, NEW p \in Pods, NEW c \in Containers, Provisioned(p, c),
                        NEW x \in ExclusiveCpus(p, c)
                 PROVE  x \in cpuset[p][c]
      BY DEF AllocatedCpusGranted
    <2> DEFINE devs == GetListOfAllocatedExclusiveCpus(p, c)
    <2>1. cpuset[p][c] \in OwnSets(p, c)
      BY DEF OwnCpusOnly
    <2>2. PICK r \in OfKind(RequestsOf(p, c), ExclusivePoolID) :
            x \in CalculateFinalExclusiveSet(devs[r])
      BY ExclusiveCpusOf DEF TypeOK
    <2>3. PICK sh \in SharedPoolSets \cup {{}}, ex \in ExclusiveSetsOf(r, devs[r]) :
            cpuset[p][c] = sh \cup ex
      <3>1. CalculateFinalExclusiveSet(devs[r]) # {}
        BY <2>2
      <3>2. ExclusiveAndShared(r, devs[r], cpuset[p][c])
        BY <2>1, ExclusiveOutcome
      <3> QED
        BY <3>1, <3>2 DEF ExclusiveAndShared
    <2>4. CalculateFinalExclusiveSet(devs[r]) \subseteq ex
      BY <2>3 DEF ExclusiveSetsOf, AddHTSiblingsToCPUSet
    <2> QED
      BY <2>2, <2>3, <2>4
  <1> QED
    BY <1>1, TypeCorrect, OwnCpusOnlyThm, PTL

(* The devices of an exclusive pool give CPUs of that pool.                *)
LEMMA FinalSetOfPool ==
  ASSUME NEW r \in ExclusivePools, NEW ids, ids \subseteq DeviceIDs(r)
  PROVE  CalculateFinalExclusiveSet(ids) \subseteq Pools[r].CPUset
  <1>1. r \in PoolNames
    BY DEF ExclusivePools
  <1>2. \A d \in ids : d % NumCPU \in Pools[r].CPUset
    BY <1>1, DeviceCpu
  <1> QED
    BY <1>2 DEF CalculateFinalExclusiveSet

(* What determineCorrectCpuset chooses for any container has no sibling of *)
(* a CPU of a singleThreaded pool, even where it adds siblings itself.     *)
LEMMA OutcomeWithoutSiblings ==
  ASSUME SiblingsApart, NEW x \in SingleThreadedCpus, NEW reqs \in SUBSET PoolNames, NEW devs,
         \A r \in reqs : SelectPool(r) = {Pools[r]},
         \A r \in OfKind(reqs, ExclusivePoolID) : devs[r] \subseteq DeviceIDs(r),
         NEW o \in DetermineCorrectCpuset(reqs, devs), ~o.err
  PROVE  HTSiblings[x] \cap o.real = {}
  <1> DEFINE cloud == OfKind(reqs, CloudphonePoolID)
             excl  == OfKind(reqs, ExclusivePoolID)
  <1>s. \A s \in DefaultSets \cup SharedPoolSets : HTSiblings[x] \cap s = {}
    BY DEF SiblingsApart
  <1>1. CASE cloud # {}
    <2>1. PICK r \in cloud : o \in CloudphoneOutcomes(r, devs[r])
      BY <1>1 DEF DetermineCorrectCpuset
    <2>2. r \in PoolNames /\ RequestKind(r) = CloudphonePoolID
      BY DEF OfKind
    <2> DEFINE cpus == CalculateFinalExclusiveSet(devs[r])
    <2>3. o # Failed
      BY FailedFields
    <2>4. PICK pool \in SelectPool(r), other \in SelectPool(r) :
            o = Decided(cpus, NumaCores(pool, other, cpus))
      BY <2>1, <2>3 DEF CloudphoneOutcomes
    <2>5. o.real \subseteq {CoreOf[k] : k \in other.CPUset}
      BY <2>4, DecidedFields, NumaCoresType
    <2>6. \A k \in other.CPUset : CoreOf[k] \notin HTSiblings[x]
      BY <2>2, SelectPoolType DEF SiblingsApart
    <2> QED
      BY <2>5, <2>6
  <1>2. CASE cloud = {}
    <2>1. PICK sh \in SharedSets(reqs), ex \in ExclusiveSets(reqs, devs) :
            \E s \in OwnOrDefault(sh, ex) : o = Decided(s, s)
      BY <1>2 DEF DetermineCorrectCpuset
    <2>2. HTSiblings[x] \cap sh = {}
      BY <1>s DEF SharedSets
    <2>3. HTSiblings[x] \cap ex = {}
      <3>1. CASE ex = {}
        BY <3>1
      <3>2. CASE \E r \in excl : ex \in ExclusiveSetsOf(r, devs[r])
        <4>1. PICK r \in excl : ex \in ExclusiveSetsOf(r, devs[r])
          BY <3>2
        <4> DEFINE cpus == CalculateFinalExclusiveSet(devs[r])
        <4>2. r \in ExclusivePools /\ r \in reqs
          BY DEF OfKind, ExclusivePools
        <4>3. cpus \subseteq Pools[r].CPUset
          BY <4>2, FinalSetOfPool
        <4>4. HTSiblings[x] \cap cpus = {}
          BY <4>2, <4>3 DEF SiblingsApart, ExclusivePoolCpus
        <4>5. \/ ex = cpus
              \/ Pools[r].HTPolicy = MultiThreadHTPolicy /\ ex = AddHTSiblingsToCPUSet(cpus)
          BY <4>1, <4>2 DEF ExclusiveSetsOf
        <4>6. Pools[r].HTPolicy = MultiThreadHTPolicy
                => \A y \in cpus : HTSiblings[x] \cap HTSiblings[y] = {}
          BY <4>2, <4>3 DEF SiblingsApart
        <4> QED
          BY <4>4, <4>5, <4>6 DEF AddHTSiblingsToCPUSet
      <3> QED
        BY <3>1, <3>2 DEF ExclusiveSets
    <2>4. PICK s \in OwnOrDefault(sh, ex) : o = Decided(s, s)
      BY <2>1
    <2>5. s = sh \cup ex \/ s \in DefaultSets
      BY DEF OwnOrDefault
    <2> QED
      BY <1>s, <2>2, <2>3, <2>4, <2>5, DecidedFields
  <1> QED
    BY <1>1, <1>2

(* When the configuration keeps the siblings of singleThreaded CPUs out of *)
(* the pools, CPUSetter "leaves all possible siblings un-assigned"         *)
(* (README.md): while a container holds such a CPU, no container that      *)
(* CPUSetter has provisioned is on a sibling of it.  Restarted containers, *)
(* and the ones taken for an infra container, are included, as Confined    *)
(* holds for them too.                                                     *)
THEOREM SiblingsUnassignedThm ==
  ASSUME PlainPools, SiblingsApart
  PROVE  Spec => []SiblingsUnassigned
  <1>1. IInv => SiblingsUnassigned
    <2> SUFFICES ASSUME IInv, NEW p \in Pods, NEW q \in Pods,
                        NEW c \in Containers, NEW d \in Containers,
                        Provisioned(p, c), Provisioned(q, d),
                        \A r \in OfKind(RequestsOf(p, c), ExclusivePoolID) :
                          Pools[r].HTPolicy = SingleThreadHTPolicy,
                        NEW x \in ExclusiveCpus(p, c)
                 PROVE  HTSiblings[x] \cap cpuset[q][d] = {}
      BY DEF SiblingsUnassigned
    <2> USE DEF IInv
    <2>1. x \in SingleThreadedCpus
      <3>1. PICK r \in OfKind(RequestsOf(p, c), ExclusivePoolID) :
              x \in CalculateFinalExclusiveSet(GetListOfAllocatedExclusiveCpus(p, c)[r])
        BY ExclusiveCpusOf DEF TypeOK
      <3>2. /\ r \in ExclusivePools /\ alloc[p][c][r] \subseteq DeviceIDs(r)
            /\ GetListOfAllocatedExclusiveCpus(p, c)[r] = alloc[p][c][r]
        BY RunningDevices DEF Provisioned
      <3>3. x \in Pools[r].CPUset
        BY <3>1, <3>2, FinalSetOfPool
      <3> QED
        BY <3>2, <3>3 DEF SingleThreadedCpus
    <2>2. cpuset[q][d] \in OwnSets(q, d) \cup DefaultSets
      BY DEF Confined
    <2>3. CASE cpuset[q][d] \in DefaultSets
      BY <2>1, <2>3 DEF SiblingsApart
    <2>4. CASE cpuset[q][d] \in OwnSets(q, d)
      <3> DEFINE devs == GetListOfAllocatedExclusiveCpus(q, d)
      <3>1. PICK o \in CorrectSets(q, d) : ~o.err /\ cpuset[q][d] = o.real
        BY <2>4 DEF OwnSets
      <3>2. o \in DetermineCorrectCpuset(RequestsOf(q, d), devs)
        BY <3>1 DEF CorrectSets
      <3>3. /\ RequestsOf(q, d) \in SUBSET PoolNames
            /\ \A r \in OfKind(RequestsOf(q, d), ExclusivePoolID) : devs[r] \subseteq DeviceIDs(r)
        BY RunningDevices DEF Provisioned
      <3>4. \A r \in RequestsOf(q, d) : SelectPool(r) = {Pools[r]}
        BY DEF PlainPools
      <3> HIDE DEF devs
      <3> QED
        BY <2>1, <3>1, <3>2, <3>3, <3>4, OutcomeWithoutSiblings
    <2> QED
      BY <2>2, <2>3, <2>4
  <1> QED
    BY <1>1, Invariance, PTL

-----------------------------------------------------------------------------
(* One change of the cpuset.                                               *)

(* With plain pools and requests determineCorrectCpuset has one result.    *)
LEMMA OneResult ==
  ASSUME PlainPools, PlainRequests, NEW p \in Pods, NEW c \in Containers,
         NEW o \in CorrectSets(p, c), NEW u \in CorrectSets(p, c), ~o.err, ~u.err
  PROVE  o = u
  <1> DEFINE reqs == RequestsOf(p, c)
             devs == GetListOfAllocatedExclusiveCpus(p, c)
             cloud == OfKind(reqs, CloudphonePoolID)
             excl == OfKind(reqs, ExclusivePoolID)
  <1>1. o \in DetermineCorrectCpuset(reqs, devs) /\ u \in DetermineCorrectCpuset(reqs, devs)
    BY DEF CorrectSets
  <1>2. CASE cloud # {}
    <2>1. PICK r \in cloud : o \in CloudphoneOutcomes(r, devs[r])
      BY <1>1, <1>2 DEF DetermineCorrectCpuset
    <2>2. PICK v \in cloud : u \in CloudphoneOutcomes(v, devs[v])
      BY <1>1, <1>2 DEF DetermineCorrectCpuset
    <2>3. v = r /\ SelectPool(r) = {Pools[r]}
      BY DEF OfKind, PlainRequests, PlainPools, CheckpointKinds
    <2>4. o # Failed /\ u # Failed
      BY FailedFields
    <2> QED
      BY <2>1, <2>2, <2>3, <2>4 DEF CloudphoneOutcomes
  <1>3. CASE cloud = {}
    <2>1. \A e, f \in SharedSets(reqs) : e = f
      BY DEF SharedSets, PlainPools
    <2>2. \A e, f \in ExclusiveSets(reqs, devs) : e = f
      <3>1. CASE excl = {}
        BY <3>1 DEF ExclusiveSets
      <3>2. ASSUME NEW r \in excl PROVE \A e, f \in ExclusiveSets(reqs, devs) : e = f
        <4>1. excl = {r} /\ SelectPool(r) = {Pools[r]}
          BY <3>2 DEF OfKind, PlainRequests, PlainPools, CheckpointKinds
        <4>2. ExclusiveSets(reqs, devs) = ExclusiveSetsOf(r, devs[r])
          BY <4>1 DEF ExclusiveSets
        <4>3. \A e, f \in ExclusiveSetsOf(r, devs[r]) : e = f
          BY <4>1 DEF ExclusiveSetsOf
        <4> QED
          BY <4>2, <4>3
      <3> QED
        BY <3>1, <3>2
    <2>3. PICK sh \in SharedSets(reqs), ex \in ExclusiveSets(reqs, devs) :
            \E a \in OwnOrDefault(sh, ex) : o = Decided(a, a)
      BY <1>1, <1>3 DEF DetermineCorrectCpuset
    <2>4. PICK sv \in SharedSets(reqs), ev \in ExclusiveSets(reqs, devs) :
            \E a \in OwnOrDefault(sv, ev) : u = Decided(a, a)
      BY <1>1, <1>3 DEF DetermineCorrectCpuset
    <2>5. sv = sh /\ ev = ex
      BY <2>1, <2>2
    <2>6. \A a, b \in OwnOrDefault(sh, ex) : a = b
      BY DEF OwnOrDefault, PlainPools
    <2> QED
      BY <2>3, <2>4, <2>5, <2>6
  <1> QED
    BY <1>2, <1>3

LEMMA OneOutcome ==
  ASSUME PlainPools, PlainRequests, NEW p \in Pods, NEW c \in Containers,
         NEW s \in OwnSets(p, c), NEW t \in OwnSets(p, c)
  PROVE  s = t
  <1>1. PICK o \in CorrectSets(p, c) : ~o.err /\ s = o.real
    BY DEF OwnSets
  <1>2. PICK u \in CorrectSets(p, c) : ~u.err /\ t = u.real
    BY DEF OwnSets
  <1> QED
    BY <1>1, <1>2, OneResult

(* The workers and the reconciliation thread race for the same cgroup, but *)
(* whoever comes second writes what is there already: while a container    *)
(* that was not restarted runs, its cpuset changes at most once, whatever  *)
(* crashes and retries come between.                                       *)
THEOREM SetOnceThm ==
  ASSUME NeverRestarted, PlainRequests, PlainPools
  PROVE  Spec => SetOnce
  <1> DEFINE Kept == \A p \in Pods, c \in Containers :
                       Provisioned(p, c) /\ Running(p, c)' /\ inc'[p][c] = inc[p][c]
                         => cpuset'[p][c] = cpuset[p][c]
  <1>1. FirstInv /\ FirstInv' /\ [Next]_vars => Kept
    <2> SUFFICES ASSUME FirstInv, FirstInv', [Next]_vars, NEW p \in Pods, NEW c \in Containers,
                        Provisioned(p, c), Running(p, c)', inc'[p][c] = inc[p][c]
                 PROVE  cpuset'[p][c] = cpuset[p][c]
      OBVIOUS
    <2>1. p \in Local /\ up[p][c] /\ up'[p][c] /\ TypeOK
      BY DEF Provisioned, Running, FirstInv, IInv
    <2>2. CASE Environment
      BY <2>1, <2>2, KubeletKeeps
    <2>3. CASE ~Environment
      <3>1. SUFFICES ASSUME cpuset'[p][c] # cpuset[p][c] PROVE FALSE
        OBVIOUS
      <3>2. PICK q \in Local, e \in Containers : \E s : Writes(q, e, s)
        BY <2>3, <3>1, OneWrite DEF FirstInv
      <3>3. PICK s : Writes(q, e, s)
        BY <3>2
      <3>4. cpuset \in [Pods -> [Containers -> SUBSET CPUs]] /\ q \in Pods
        BY <2>1, PodsAssumption DEF TypeOK, CgroupTypeOK
      <3>5. cpuset' = [cpuset EXCEPT ![q][e] = s]
        BY <3>3 DEF Writes
      <3>6. p = q /\ c = e /\ cpuset'[p][c] = s
        BY <3>1, <3>4, <3>5
      <3>7. cpuset[p][c] \in OwnSets(p, c)
        BY OwnUnlessRestarted DEF OwnCpusOnly
      <3>8. inc[p][c] \in 0 .. MaxStarts /\ MaxStarts \in Nat /\ FirstStart(p, c)
        <4>1. inc[p][c] \in 0 .. MaxStarts /\ MaxStarts \in Nat
          BY <2>1, BoundsAssumption DEF TypeOK, KubeTypeOK
        <4> QED
          BY <4>1 DEF NeverRestarted, FirstInv, StartedOnce, FirstStart
      <3>9. s \in OwnSets(p, c)
        BY <3>3, <3>6, <3>8 DEF Writes, FirstStart
      <3> QED
        BY <3>1, <3>6, <3>7, <3>9, OneOutcome
    <2> QED
      BY <2>2, <2>3
  <1>2. FirstInv /\ FirstInv' /\ [Next]_vars => [Kept]_vars
    BY <1>1
  <1> QED
    BY <1>2, FirstInvariance, PTL DEF Spec, SetOnce
=============================================================================
