------------------------- MODULE ReportedCpusProofs -------------------------
(***************************************************************************)
(* What CPUSetter tells others about the cpuset of a container:            *)
(*   AnnotationTruthfulThm  the annotation, which says that it is set      *)
(*   EmulationAgreesThm     the emulated cpu directory, which shows to the *)
(*                          container how many CPUs it has                 *)
(* Both are written by several threads, some steps after the cpuset or     *)
(* before it, so what holds of them depends on where the threads are.      *)
(***************************************************************************)
EXTENDS GrantedCpusProofs

-----------------------------------------------------------------------------
(* The steps of a worker, seen from the worker: it does nothing, begins a  *)
(* new attempt or none, or goes on to the next operation.                  *)

Same(v) == pc'[v] = pc[v] /\ wobj'[v] = wobj[v] /\ idx'[v] = idx[v] /\ val'[v] = val[v]
Anew(v) == pc'[v] \notin Adjusting \/ (pc'[v] = "determine" /\ idx'[v] = 1)

Goes(v, from, to) == pc[v] = from /\ pc'[v] = to /\ wobj'[v] = wobj[v] /\ idx'[v] = idx[v]
AtLast(v) == idx[v] = Len(SpecContainers[Uid(v)])

ToApply(v) ==
  /\ Goes(v, "determine", "apply")
  /\ \E o \in CorrectSets(Uid(v), Cont(v)) :
       ~o.err /\ val'[v] = [cfg |-> o.cfg, real |-> o.real]
ToClear(v) ==
  /\ Goes(v, "apply", "clear") /\ val'[v] = val[v]
  /\ val[v].real # {} => cpuset' = [cpuset EXCEPT ![Uid(v)][Cont(v)] = val[v].real]
ToFill(v) ==
  /\ Goes(v, "clear", "fill") /\ val'[v] = val[v] /\ ClearDir(WName(v), Cont(v))
ToNext(v) ==
  /\ pc[v] = "fill" /\ wobj'[v] = wobj[v] /\ FillDir(WName(v), Cont(v), val[v].cfg)
  /\ \/ idx[v] < Len(SpecContainers[Uid(v)]) /\ pc'[v] = "determine" /\ idx'[v] = idx[v] + 1
     \/ AtLast(v) /\ pc'[v] = "infra" /\ idx'[v] = idx[v]
ToAnnotate(v) == Goes(v, "infra", "annotate")

GoesOn(v) == ToApply(v) \/ ToClear(v) \/ ToFill(v) \/ ToNext(v) \/ ToAnnotate(v)

(* No operation fails and the process does not restart in this step.       *)
Calm == faults' = faults /\ crashes' = crashes

LEMMA RetryAnew ==
  ASSUME WorkTypeOK, NEW w \in Workers, Retry(w) \/ GiveUp(w)
  PROVE  Anew(w)
  <1>1. CASE GiveUp(w)
    BY <1>1 DEF WorkTypeOK, GiveUp, Goto, Anew, Adjusting
  <1>2. CASE Retry(w) /\ try[w] + 1 < MaxRetryCount
    BY <1>2 DEF WorkTypeOK, Retry, Goto, Anew
  <1>3. CASE Retry(w) /\ ~(try[w] + 1 < MaxRetryCount)
    BY <1>1, <1>3 DEF Retry
  <1> QED
    BY <1>1, <1>2, <1>3

LEMMA HandleAnew ==
  ASSUME WorkTypeOK, NEW w \in Workers, NEW o, Handle(w, o)
  PROVE  Anew(w)
  <1>1. CASE o.uid \in Local /\ IsPodReadyForProcessing(o)
    BY <1>1 DEF WorkTypeOK, Handle, Goto, Anew
  <1>2. CASE ~(o.uid \in Local /\ IsPodReadyForProcessing(o))
    BY <1>2, RetryAnew DEF Handle
  <1> QED
    BY <1>1, <1>2

LEMMA OwnStep ==
  ASSUME TypeOK, NEW w \in Workers, Worker(w)
  PROVE  /\ Same(w) \/ Anew(w) \/ GoesOn(w)
         /\ pc[w] \in {"clear", "fill"} /\ Calm => ToFill(w) \/ ToNext(w)
  <1>a. WorkTypeOK
    BY DEF TypeOK
  <1>1. CASE ProcessNextWorkItem(w)
    <2>1. pc[w] = "idle"
      BY <1>1 DEF ProcessNextWorkItem
    <2>2. CASE Head(queue).phase = "Succeeded"
      BY <1>1, <2>1, <2>2 DEF ProcessNextWorkItem, Same
    <2>3. CASE Head(queue).phase # "Succeeded"
      BY <1>a, <1>1, <2>1, <2>3 DEF ProcessNextWorkItem, Goto, WorkTypeOK, Anew, Adjusting
    <2> QED
      BY <2>2, <2>3
  <1>2. CASE RefreshPod(w)
    <2>1. \/ GiveUp(w) \/ (\E o : Handle(w, o))
          \/ UNCHANGED <<pc, wobj, idx, val>>
      BY <1>2 DEF RefreshPod
    <2>2. pc[w] = "refresh"
      BY <1>2 DEF RefreshPod
    <2>3. CASE UNCHANGED <<pc, wobj, idx, val>>
      BY <2>2, <2>3 DEF Same
    <2> QED
      BY <1>a, <2>1, <2>2, <2>3, RetryAnew, HandleAnew
  <1>3. CASE Determine(w)
    <2>0. pc[w] = "determine"
      BY <1>3 DEF Determine
    <2>1. PICK o \in CorrectSets(Uid(w), Cont(w)) :
            IF o.err THEN Retry(w)
            ELSE /\ Goto(w, "apply")
                 /\ val' = [val EXCEPT ![w] = [cfg |-> o.cfg, real |-> o.real]]
                 /\ UNCHANGED <<wobj, try, idx, path>>
      BY <1>3 DEF Determine
    <2>2. CASE o.err
      BY <1>a, <2>0, <2>1, <2>2, RetryAnew
    <2>3. CASE ~o.err
      <3>1. /\ pc' = [pc EXCEPT ![w] = "apply"] /\ UNCHANGED <<wobj, idx>>
            /\ val' = [val EXCEPT ![w] = [cfg |-> o.cfg, real |-> o.real]]
        BY <2>1, <2>3 DEF Goto
      <3>2. val'[w] = [cfg |-> o.cfg, real |-> o.real] /\ pc'[w] = "apply"
        BY <1>a, <3>1 DEF WorkTypeOK
      <3>3. ToApply(w)
        BY <2>0, <2>3, <3>1, <3>2 DEF ToApply, Goes
      <3> QED
        BY <2>0, <3>3 DEF GoesOn
    <2> QED
      BY <2>2, <2>3
  <1>4. CASE ApplyCpusetToContainer(w)
    <2>1. pc[w] = "apply"
      BY <1>4 DEF ApplyCpusetToContainer
    <2>2. \/ Retry(w)
          \/ /\ pc' = [pc EXCEPT ![w] = "clear"] /\ UNCHANGED <<wobj, idx, val>>
             /\ val[w].real # {} => cpuset' = [cpuset EXCEPT ![Uid(w)][Cont(w)] = val[w].real]
      BY <1>4 DEF ApplyCpusetToContainer, Goto
    <2>3. CASE Retry(w)
      BY <1>a, <2>1, <2>3, RetryAnew
    <2>4. CASE ~Retry(w)
      BY <1>a, <2>1, <2>2, <2>4 DEF WorkTypeOK, GoesOn, ToClear, Goes
    <2> QED
      BY <2>3, <2>4
  <1>5. CASE ClearCpus(w)
    <2>1. ToFill(w)
      BY <1>a, <1>5 DEF ClearCpus, Goto, WorkTypeOK, ToFill, Goes
    <2> QED
      BY <2>1 DEF GoesOn
  <1>6. CASE FillCpus(w)
    <2>1. /\ pc[w] = "fill" /\ wobj' = wobj /\ FillDir(WName(w), Cont(w), val[w].cfg)
          /\ \/ /\ idx[w] < Len(SpecContainers[Uid(w)])
                /\ pc' = [pc EXCEPT ![w] = "determine"] /\ idx' = [idx EXCEPT ![w] = idx[w] + 1]
             \/ /\ ~(idx[w] < Len(SpecContainers[Uid(w)]))
                /\ pc' = [pc EXCEPT ![w] = "infra"] /\ idx' = idx
      BY <1>a, <1>6 DEF FillCpus, Goto, WorkTypeOK
    <2>2. idx[w] \in 1 .. Len(SpecContainers[Uid(w)]) /\ Uid(w) \in Pods
      BY <2>1 DEF TypeOK, WorkObjectsOK, Uid
    <2>3. Len(SpecContainers[Uid(w)]) \in Nat
      BY <2>2, PodsAssumption
    <2>4. ~(idx[w] < Len(SpecContainers[Uid(w)])) => AtLast(w)
      BY <2>2, <2>3 DEF AtLast
    <2>5. ToNext(w)
      BY <1>a, <2>1, <2>4 DEF WorkTypeOK, ToNext
    <2> QED
      BY <2>5 DEF GoesOn
  <1>7. CASE ApplyCpusetToInfraContainer(w)
    <2>1. pc[w] = "infra"
      BY <1>7 DEF ApplyCpusetToInfraContainer
    <2>2. Retry(w) \/ (pc' = [pc EXCEPT ![w] = "annotate"] /\ UNCHANGED <<wobj, idx, val>>)
      BY <1>7 DEF ApplyCpusetToInfraContainer, Goto
    <2>3. CASE Retry(w)
      BY <1>a, <2>1, <2>3, RetryAnew
    <2>4. CASE ~Retry(w)
      BY <1>a, <2>1, <2>2, <2>4 DEF WorkTypeOK, GoesOn, ToAnnotate, Goes
    <2> QED
      BY <2>3, <2>4
  <1>8. CASE SetPodAnnotation(w)
    BY <1>a, <1>8, RetryAnew DEF SetPodAnnotation
  <1>9. CASE WorkerFault(w)
    <2>1. Retry(w) \/ GiveUp(w)
      BY <1>9 DEF WorkerFault
    <2>2. faults' = faults + 1 /\ faults \in Nat
      BY <1>9 DEF WorkerFault, TypeOK, ProcTypeOK
    <2>3. ~Calm
      BY <2>2 DEF Calm
    <2> QED
      BY <1>a, <2>1, <2>3, RetryAnew
  <1> QED
    BY <1>1, <1>2, <1>3, <1>4, <1>5, <1>6, <1>7, <1>8, <1>9 DEF Worker

(* The same for a worker and any step.  A worker about to rebuild the      *)
(* directory does so unless an operation fails or the process restarts.    *)
LEMMA ThreadStep ==
  ASSUME TypeOK, [Next]_vars, NEW v \in Workers
  PROVE  /\ Same(v) \/ Anew(v) \/ GoesOn(v)
         /\ pc[v] \in {"clear", "fill"} /\ Calm => Same(v) \/ ToFill(v) \/ ToNext(v)
  <1>1. CASE \E w \in Workers : Worker(w)
    <2>1. PICK w \in Workers : Worker(w)
      BY <1>1
    <2>2. CASE v = w
      BY <2>1, <2>2, OwnStep
    <2>3. CASE v # w
      BY <2>1, <2>3, WorkerShape DEF OthersKept, Same
    <2> QED
      BY <2>2, <2>3
  <1>2. CASE (\A w \in Workers : ~Worker(w)) /\ UNCHANGED <<pc, wobj, val, idx>>
    BY <1>2 DEF Same
  <1>3. CASE (\A w \in Workers : ~Worker(w)) /\ ~UNCHANGED <<pc, wobj, val, idx>>
    <2>1. pc'[v] = "idle"
      BY <1>3, WorkFrame
    <2>2. Anew(v)
      BY <2>1 DEF Anew, Adjusting
    <2>3. Exit \/ Crash
      <3>1. CASE Environment
        BY <1>3, <3>1, EnvironmentFrame DEF workVars
      <3>2. CASE Informer
        BY <1>3, <3>2 DEF Informer, InformerQuiet, PodChanged, workVars
      <3>3. CASE Reconciler
        BY <1>3, <3>3 DEF Reconciler, GetPodsFromKubelet, ReconcileContainer, ReconcilerClears,
                ReconcilerFills, ReconcilerWrites, ReconcilerFault, workVars
      <3>4. CASE Stop
        BY <1>3, <3>4 DEF Stop, workVars
      <3> QED
        BY <1>3, <3>1, <3>2, <3>3, <3>4 DEF Next, vars
    <2>4. ~Calm
      BY <2>3 DEF Exit, Crash, Restart, Calm, TypeOK, ProcTypeOK
    <2> QED
      BY <2>2, <2>4
  <1> QED
    BY <1>1, <1>2, <1>3

-----------------------------------------------------------------------------
(* The annotation.                                                         *)

(* The container was started, and in its first start its cpuset is set.    *)
SetUp(p, c) == inc[p][c] >= 1 /\ (Running(p, c) /\ inc[p][c] = 1 => Provisioned(p, c))

(* In this attempt the worker is past applyCpusetToContainer for the i-th  *)
(* container.                                                              *)
Passed(w, i) ==
  i < idx[w] \/ (i = idx[w] /\ pc[w] \in {"clear", "fill", "infra", "annotate"})

LastReached == \A w \in Workers : pc[w] \in {"infra", "annotate"} => AtLast(w)

ProperValues == \A w \in Workers : pc[w] = "apply" => val[w].real \notin {{}, AllCpus}

PassedSetUp ==
  \A w \in Workers : pc[w] \in Adjusting =>
    \A i \in 1 .. Len(SpecContainers[Uid(w)]) :
      Passed(w, i) => SetUp(Uid(w), SpecContainers[Uid(w)][i])

AnnotatedSetUp == \A p \in annotated \cap Local : \A c \in ContainersOf(p) : SetUp(p, c)

AInv == IInv /\ LastReached /\ ProperValues /\ PassedSetUp /\ AnnotatedSetUp

(* What determineCorrectCpuset computes now is one of the sets the         *)
(* hypothesis speaks of.                                                   *)
LEMMA ComputedProper ==
  ASSUME ProperSets, IInv, NEW p \in Local, NEW c \in ContainersOf(p),
         NEW o \in CorrectSets(p, c), ~o.err
  PROVE  o.real \notin {{}, AllCpus}
  <1> DEFINE devs == GetListOfAllocatedExclusiveCpus(p, c)
             reqs == CheckpointRequests(p, c)
  <1>1. p \in Pods /\ c \in Containers
    BY PodsAssumption, SpecContainerType
  <1>2. \A r \in reqs : r \in PoolNames
    BY <1>1, PodsAssumption DEF CheckpointRequests
  <1>3. \A r \in reqs : devs[r] \subseteq DeviceIDs(r)
    BY <1>1, <1>2 DEF IInv, DevicesDisjoint, GetListOfAllocatedExclusiveCpus
  <1>4. devs \in [reqs -> SUBSET UNION {DeviceIDs(r) : r \in reqs}]
    <2>1. devs = [r \in reqs |-> devs[r]]
      BY DEF GetListOfAllocatedExclusiveCpus
    <2>2. \A r \in reqs : devs[r] \in SUBSET UNION {DeviceIDs(x) : x \in reqs}
      BY <1>3
    <2> HIDE DEF devs, reqs
    <2> QED
      BY <2>1, <2>2
  <1>5. o \in DetermineCorrectCpuset(RequestsOf(p, c), devs)
    BY DEF CorrectSets
  <1> HIDE DEF devs, reqs
  <1> QED
    BY <1>4, <1>5 DEF ProperSets, reqs

(* Once a container was started and set it stays so: a restart gives it    *)
(* another id, and no thread writes the whole node into a cgroup.          *)
LEMMA SetUpStep ==
  ASSUME ProperSets, IInv, IInv', [Next]_vars, NEW p \in Local, NEW c \in ContainersOf(p),
         SetUp(p, c)
  PROVE  SetUp(p, c)'
  <1>1. p \in Pods /\ c \in Containers
    BY PodsAssumption, SpecContainerType
  <1>2. inc[p][c] \in Nat /\ inc'[p][c] \in Nat
    BY <1>1, BoundsAssumption DEF IInv, TypeOK, KubeTypeOK
  <1>3. inc'[p][c] >= inc[p][c] /\ inc[p][c] >= 1
    BY <1>1, KubeMonotone DEF IInv, SetUp
  <1>4. SUFFICES ASSUME up'[p][c], inc'[p][c] = 1, inc[p][c] = 1
                 PROVE  cpuset'[p][c] # AllCpus
    BY <1>2, <1>3 DEF SetUp, Running, Provisioned
  <1>5. CASE Environment
    <2>1. up[p][c] /\ cpuset'[p][c] = cpuset[p][c]
      BY <1>1, <1>4, <1>5, KubeletKeeps DEF IInv
    <2> QED
      BY <1>4, <2>1 DEF SetUp, Running, Provisioned
  <1>6. CASE ~Environment
    <2>1. up' = up
      BY <1>6, KubeFrame DEF kubeVars
    <2>2. cpuset[p][c] # AllCpus
      BY <1>4, <2>1 DEF SetUp, Running, Provisioned
    <2>3. CASE cpuset'[p][c] = cpuset[p][c]
      BY <2>2, <2>3
    <2>4. CASE cpuset'[p][c] # cpuset[p][c]
      <3>1. PICK q \in Local, e \in Containers : \E s : Writes(q, e, s)
        BY <1>6, <2>4, OneWrite
      <3>2. PICK s : Writes(q, e, s)
        BY <3>1
      <3>3. cpuset \in [Pods -> [Containers -> SUBSET CPUs]] /\ q \in Pods
        BY PodsAssumption DEF IInv, TypeOK, CgroupTypeOK
      <3>4. cpuset' = [cpuset EXCEPT ![q][e] = s]
        BY <3>2 DEF Writes
      <3>5. p = q /\ c = e /\ cpuset'[p][c] = s
        BY <1>1, <2>4, <3>3, <3>4
      <3>6. s \in OwnSets(p, c)
        BY <1>4, <3>2, <3>5 DEF Writes
      <3>7. PICK o \in CorrectSets(p, c) : ~o.err /\ s = o.real
        BY <3>6 DEF OwnSets
      <3> QED
        BY <3>5, <3>7, ComputedProper
    <2> QED
      BY <2>3, <2>4
  <1> QED
    BY <1>5, <1>6

LEMMA LastReachedStep ==
  ASSUME TypeOK, LastReached, [Next]_vars
  PROVE  LastReached'
  <1> SUFFICES ASSUME NEW v \in Workers, pc'[v] \in {"infra", "annotate"}
               PROVE  AtLast(v)'
    BY DEF LastReached
  <1>1. Same(v) \/ GoesOn(v)
    BY ThreadStep DEF Anew, Adjusting
  <1>2. wobj'[v] = wobj[v] /\ idx'[v] = idx[v] /\ AtLast(v)
    BY <1>1 DEF Same, GoesOn, ToApply, ToClear, ToFill, ToNext, ToAnnotate, Goes, LastReached
  <1> QED
    BY <1>2 DEF AtLast, Uid

LEMMA ProperValuesStep ==
  ASSUME ProperSets, IInv, ProperValues, [Next]_vars
  PROVE  ProperValues'
  <1> SUFFICES ASSUME NEW v \in Workers, pc'[v] = "apply"
               PROVE  val'[v].real \notin {{}, AllCpus}
    BY DEF ProperValues
  <1>1. Same(v) \/ ToApply(v)
    BY ThreadStep DEF IInv, Anew, Adjusting, GoesOn, ToClear, ToFill, ToNext, ToAnnotate, Goes
  <1>2. CASE Same(v)
    BY <1>2 DEF Same, ProperValues
  <1>3. CASE ToApply(v)
    <2>1. PICK o \in CorrectSets(Uid(v), Cont(v)) :
            ~o.err /\ val'[v] = [cfg |-> o.cfg, real |-> o.real]
      BY <1>3 DEF ToApply
    <2>2. Uid(v) \in Local /\ Cont(v) \in ContainersOf(Uid(v))
      BY <1>3, WorkerContainerType DEF ToApply, Goes, IInv, HandlesStartedPods, Adjusting
    <2>3. o.real \notin {{}, AllCpus}
      BY <2>1, <2>2, ComputedProper
    <2> QED
      BY <2>1, <2>3
  <1> QED
    BY <1>1, <1>2, <1>3

LEMMA PassedSetUpStep ==
  ASSUME ProperSets, AInv, IInv', [Next]_vars
  PROVE  PassedSetUp'
  <1> USE DEF AInv
  <1> SUFFICES ASSUME NEW v \in Workers, pc'[v] \in Adjusting, NEW p, p = wobj'[v].uid,
                      NEW i \in 1 .. Len(SpecContainers[p]), Passed(v, i)'
               PROVE  SetUp(p, SpecContainers[p][i])'
    BY DEF PassedSetUp, Uid, SetUp, Running, Provisioned
  <1>0. TypeOK /\ TypeOK' /\ i \in Nat \ {0}
    BY DEF IInv
  <1>1. ~Anew(v)
    <2>1. CASE pc'[v] = "determine" /\ idx'[v] = 1
      BY <1>0, <2>1 DEF Passed
    <2> QED
      BY <2>1 DEF Anew
  <1>2. wobj'[v] = wobj[v] /\ pc[v] \in Adjusting
    BY <1>0, <1>1, ThreadStep DEF Same, GoesOn, ToApply, ToClear, ToFill, ToNext, ToAnnotate,
       Goes, Adjusting
  <1> DEFINE c == SpecContainers[p][i]
  <1>3. p = Uid(v) /\ p \in Local /\ p \in Pods /\ c \in ContainersOf(p) /\ c \in Containers
    <2>1. p = Uid(v) /\ p \in Local /\ p \in Pods
      BY <1>2, PodsAssumption DEF Uid, IInv, HandlesStartedPods
    <2> QED
      BY <2>1, SpecContainerType
  <1>4. CASE Passed(v, i)
    <2>1. SetUp(p, c)
      BY <1>2, <1>3, <1>4 DEF PassedSetUp
    <2> QED
      BY <1>3, <2>1, SetUpStep
  <1>5. CASE ~Passed(v, i)
    <2>0. idx[v] \in Nat
      BY <1>0 DEF TypeOK, WorkTypeOK
    <2>1. ToClear(v) /\ i = idx[v]
      BY <1>0, <1>1, <1>5, <2>0, ThreadStep DEF Same, GoesOn, ToApply, ToClear, ToFill, ToNext,
         ToAnnotate, Goes, Passed
    <2>2. c = Cont(v) /\ pc[v] = "apply"
      BY <1>3, <2>1 DEF Cont, ToClear, Goes
    <2>3. val[v].real \notin {{}, AllCpus}
      BY <2>2 DEF ProperValues
    <2>4. cpuset' = [cpuset EXCEPT ![p][c] = val[v].real]
      BY <1>3, <2>1, <2>2, <2>3 DEF ToClear
    <2>5. cpuset \in [Pods -> [Containers -> SUBSET CPUs]]
      BY <1>0 DEF TypeOK, CgroupTypeOK
    <2>6. cpuset'[p][c] # AllCpus
      BY <1>3, <2>3, <2>4, <2>5
    <2>7. wobj[v].ids[c] \in 1 .. inc[p][c]
      BY <1>2, <1>3 DEF IInv, HandlesStartedPods
    <2>8. inc[p][c] <= inc'[p][c] /\ inc[p][c] \in Nat /\ inc'[p][c] \in Nat
      BY <1>3, KubeMonotone, BoundsAssumption DEF IInv, TypeOK, KubeTypeOK
    <2>9. inc'[p][c] >= 1
      BY <2>7, <2>8
    <2> QED
      BY <1>3, <2>6, <2>9 DEF SetUp, Provisioned
  <1> QED
    BY <1>4, <1>5

LEMMA AnnotatedSetUpStep ==
  ASSUME ProperSets, LocalNamesDistinct, AInv, IInv', [Next]_vars
  PROVE  AnnotatedSetUp'
  <1> USE DEF AInv
  <1> SUFFICES ASSUME NEW p \in Local, p \in annotated', NEW c \in ContainersOf(p)
               PROVE  SetUp(p, c)'
    BY DEF AnnotatedSetUp
  <1>1. CASE p \in annotated
    BY <1>1, SetUpStep DEF AnnotatedSetUp
  <1>2. CASE p \notin annotated
    <2>1. annotated' # annotated
      BY <1>2
    <2>2. PICK w \in Workers : SetPodAnnotation(w)
      <3>1. CASE Environment
        BY <2>1, <3>1 DEF Environment, CreatePod, AdmitPod, FinishPod, DeletePod, StatusUpdate,
           StartContainer, StopContainer
      <3>2. CASE Informer
        BY <2>1, <3>2 DEF Informer, InformerQuiet, PodChanged
      <3>3. ASSUME NEW w \in Workers, Worker(w) PROVE SetPodAnnotation(w)
        BY <2>1, <3>3 DEF Worker, ProcessNextWorkItem, RefreshPod, Determine,
           ApplyCpusetToContainer, ClearCpus, FillCpus, ApplyCpusetToInfraContainer, WorkerFault
      <3>4. CASE Reconciler
        BY <2>1, <3>4 DEF Reconciler, GetPodsFromKubelet, ReconcileContainer, ReconcilerClears,
           ReconcilerFills, ReconcilerWrites, ReconcilerFault
      <3>5. CASE Stop \/ Exit \/ Crash \/ UNCHANGED vars
        BY <2>1, <3>5 DEF Stop, Exit, Crash, Restart, vars
      <3> QED
        BY <3>1, <3>2, <3>3, <3>4, <3>5 DEF Next
    <2>3. pc[w] = "annotate" /\ annotated' = annotated \cup WithName(WName(w))
      BY <2>1, <2>2 DEF SetPodAnnotation
    <2>4. Uid(w) \in Local /\ Name[p] = Name[Uid(w)]
      BY <1>2, <2>3 DEF IInv, HandlesStartedPods, Adjusting, WithName, WName
    <2>5. p = Uid(w)
      BY <2>4 DEF LocalNamesDistinct
    <2>6. PICK i \in 1 .. Len(SpecContainers[p]) : c = SpecContainers[p][i]
      BY DEF ContainersOf
    <2>7. Passed(w, i)
      <3>1. idx[w] = Len(SpecContainers[p])
        BY <2>3, <2>5 DEF LastReached, AtLast
      <3>2. Len(SpecContainers[p]) \in Nat
        BY PodsAssumption
      <3> QED
        BY <2>3, <2>6, <3>1, <3>2 DEF Passed
    <2>8. SetUp(p, c)
      BY <2>3, <2>5, <2>6, <2>7 DEF PassedSetUp, Adjusting
    <2> QED
      BY <2>8, SetUpStep
  <1> QED
    BY <1>1, <1>2

(* When no name is used twice on the node and every computed set is        *)
(* proper, a Pod carries the cpusets-configured annotation only if every   *)
(* container it was started with is confined (setPodAnnotation at the end  *)
(* of adjustContainerSets): no retry, failing operation, crash or race     *)
(* with the reconciliation thread leaves a container out.                  *)
THEOREM AnnotationTruthfulThm ==
  ASSUME ProperSets, LocalNamesDistinct
  PROVE  Spec => []AnnotationTruthful
  <1>1. Init => AInv
    <2> SUFFICES ASSUME Init PROVE AInv
      OBVIOUS
    <2>1. \A w \in Workers : pc[w] = "idle"
      BY DEF Init
    <2>2. annotated = {}
      BY DEF Init
    <2> QED
      BY <2>1, <2>2, InitIInv DEF AInv, LastReached, ProperValues, PassedSetUp, AnnotatedSetUp,
         Adjusting
  <1>2. AInv /\ [Next]_vars => AInv'
    <2> SUFFICES ASSUME AInv, [Next]_vars PROVE AInv'
      OBVIOUS
    <2>1. IInv /\ TypeOK /\ IInv'
      BY NextIInv DEF AInv, IInv
    <2> QED
      BY <2>1, LastReachedStep, ProperValuesStep, PassedSetUpStep, AnnotatedSetUpStep DEF AInv
  <1>3. AInv => AnnotationTruthful
    <2> SUFFICES ASSUME AInv, NEW p \in annotated, NEW c \in Containers, Running(p, c),
                        inc[p][c] = 1
                 PROVE  Provisioned(p, c)
      BY DEF AnnotationTruthful
    <2>1. p \in Local /\ c \in ContainersOf(p)
      BY PodsAssumption DEF Running, AInv, IInv, KubeletCoherent
    <2> QED
      BY <2>1 DEF AInv, AnnotatedSetUp, SetUp
  <1> QED
    BY <1>1, <1>2, <1>3, PTL DEF Spec

-----------------------------------------------------------------------------
(* The emulated cpu directory.                                             *)

(* No operation has failed and the process has not been restarted: a       *)
(* failed rebuild leaves the directory as it is, and a new process knows   *)
(* nothing of a rebuild under way.                                         *)
Undisturbed == faults = 0 /\ crashes = 0

Admitted(p) == stage[p] = "admitted"

(* The sets the directory of the container may be built from, and what     *)
(* the directory then is.                                                  *)
ConfiguredSets(p, c) == {o.cfg : o \in {x \in CorrectSets(p, c) : ~x.err}}
DirOf(cfg) == [dirs |-> {0} \cup 1 .. Cardinality(cfg) - 1, kernelMax |-> Cardinality(cfg) - 1]

Filled(p, c) == \E s \in ConfiguredSets(p, c) : cpuDir[Name[p]][c] = DirOf(s)
Emulated(p, c) == Rebuilding(p, c) \/ Filled(p, c)

(* What a thread is about to build is computed for this container.         *)
PendingDirsOwn ==
  /\ \A w \in Workers : pc[w] \in {"apply", "clear", "fill"} /\ Admitted(Uid(w))
       => val[w].cfg \in ConfiguredSets(Uid(w), Cont(w))
  /\ rpc \in Writing /\ Admitted(ritem.uid) => rval.cfg \in ConfiguredSets(ritem.uid, ritem.c)

(* Nothing is left in a directory of what does not belong there.           *)
DirsClean ==
  \A p \in Local, c \in Containers :
    /\ ~Started(p) => cpuDir[Name[p]][c] = EmptyDir
    /\ Admitted(p) => \A s \in ConfiguredSets(p, c) : cpuDir[Name[p]][c].dirs \subseteq DirOf(s).dirs

(* The directory of a container is built, or being rebuilt, if the cpuset  *)
(* is written, if the reconciliation thread is about to write it, and if   *)
(* a worker is past the container in this attempt.                         *)
AboutToWrite(p, c) == rpc = "write" /\ ritem.uid = p /\ ritem.c = c
Behind(w, p, c) ==
  /\ pc[w] \in Adjusting /\ Uid(w) = p
  /\ \E i \in 1 .. Len(SpecContainers[p]) :
       c = SpecContainers[p][i] /\ (i < idx[w] \/ pc[w] \in {"infra", "annotate"})

BuiltBeforeWritten ==
  \A p \in Local, c \in Containers :
    /\ Admitted(p)
    /\ Provisioned(p, c) \/ AboutToWrite(p, c) \/ (\E w \in Workers : Behind(w, p, c))
    => Emulated(p, c)

NonemptyCpusets == \A p \in Pods, c \in Containers : cpuset[p][c] # {}

DirInv == PendingDirsOwn /\ DirsClean /\ BuiltBeforeWritten
EInv == IInv /\ NonemptyCpusets /\ (Undisturbed => DirInv)

(* The steps of the reconciliation thread, if none fails.                  *)
RecTakes(i) ==
  /\ rpc = "visit" /\ rpc' = "clear" /\ ritem' = i /\ i.uid \in Local
  /\ \E o \in CorrectSets(i.uid, i.c) : ~o.err /\ rval' = [cfg |-> o.cfg, real |-> o.real]
RecKeeps == ritem' = ritem /\ rval' = rval
RecClears == rpc = "clear" /\ rpc' = "fill" /\ RecKeeps /\ ClearDir(Name[ritem.uid], ritem.c)
RecFills ==
  rpc = "fill" /\ rpc' = "write" /\ RecKeeps /\ FillDir(Name[ritem.uid], ritem.c, rval.cfg)

LEMMA RecStep ==
  ASSUME TypeOK, [Next]_vars, Calm
  PROVE  \/ rpc' = rpc /\ RecKeeps
         \/ rpc \notin {"clear", "fill"} /\ rpc' \notin Writing
         \/ \E i \in rtodo : RecTakes(i)
         \/ RecClears \/ RecFills
  <1>1. CASE ~Reconciler
    <2>1. CASE Environment
      BY <2>1, EnvironmentFrame DEF recVars, RecKeeps
    <2>2. CASE Informer
      BY <2>2 DEF Informer, InformerQuiet, PodChanged, recVars, RecKeeps
    <2>3. CASE \E w \in Workers : Worker(w)
      BY <2>3 DEF Worker, ProcessNextWorkItem, RefreshPod, Determine, ApplyCpusetToContainer,
         ClearCpus, FillCpus, ApplyCpusetToInfraContainer, SetPodAnnotation, WorkerFault,
         recVars, RecKeeps
    <2>4. CASE Stop
      BY <2>4 DEF Stop, RecKeeps, Writing
    <2>5. CASE Exit \/ Crash
      BY <2>5 DEF Exit, Crash, Restart, Calm, TypeOK, ProcTypeOK
    <2>6. CASE UNCHANGED vars
      BY <2>6 DEF vars, RecKeeps
    <2> QED
      BY <1>1, <2>1, <2>2, <2>3, <2>4, <2>5, <2>6 DEF Next
  <1>2. CASE GetPodsFromKubelet
    BY <1>2 DEF GetPodsFromKubelet, Writing, RecKeeps
  <1>3. ASSUME NEW i \in rtodo, ReconcileContainer(i)
        PROVE  RecTakes(i) \/ (rpc \notin {"clear", "fill"} /\ rpc' \notin Writing)
    BY <1>3 DEF ReconcileContainer, AfterItem, Writing, Live, RecTakes
  <1>4. CASE ReconcilerClears \/ ReconcilerFills
    BY <1>4 DEF ReconcilerClears, ReconcilerFills, RecKeeps, RecClears, RecFills
  <1>5. CASE ReconcilerWrites
    BY <1>5 DEF ReconcilerWrites, AfterItem, Writing
  <1>6. CASE ReconcilerFault
    BY <1>6 DEF ReconcilerFault, Calm, TypeOK, ProcTypeOK
  <1> QED
    BY <1>1, <1>2, <1>3, <1>4, <1>5, <1>6 DEF Reconciler

(* What is computed for a container of an admitted Pod does not change.    *)
LEMMA ConfiguredStep ==
  ASSUME IInv, [Next]_vars, NEW p \in Local, NEW c \in Containers, Started(p), Admitted(p)'
  PROVE  /\ Admitted(p)
         /\ CorrectSets(p, c)' = CorrectSets(p, c)
         /\ ConfiguredSets(p, c)' = ConfiguredSets(p, c)
  <1>1. p \in Pods
    BY PodsAssumption
  <1>2. Admitted(p) /\ alloc'[p] = alloc[p] /\ p \in ckpt /\ p \in ckpt'
    BY <1>1, KubeMonotone DEF IInv, Admitted
  <1>3. GetListOfAllocatedExclusiveCpus(p, c)' = GetListOfAllocatedExclusiveCpus(p, c)
    BY <1>1, <1>2, OwnSetsStable
  <1>4. CorrectSets(p, c)' = CorrectSets(p, c)
    BY <1>3 DEF CorrectSets
  <1> QED
    BY <1>2, <1>4 DEF ConfiguredSets

LEMMA OneConfigured ==
  ASSUME PlainPools, PlainRequests, NEW p \in Pods, NEW c \in Containers,
         NEW s \in ConfiguredSets(p, c), NEW t \in ConfiguredSets(p, c)
  PROVE  s = t
  <1>1. PICK o \in CorrectSets(p, c) : ~o.err /\ s = o.cfg
    BY DEF ConfiguredSets
  <1>2. PICK u \in CorrectSets(p, c) : ~u.err /\ t = u.cfg
    BY DEF ConfiguredSets
  <1> QED
    BY <1>1, <1>2, OneResult

(* The two operations on a directory.                                      *)
LEMMA DirAfter ==
  ASSUME TypeOK, NEW n \in Names, NEW c \in Containers, NEW cfg,
         ClearDir(n, c) \/ FillDir(n, c, cfg)
  PROVE  /\ \A m \in Names, d \in Containers : ~(m = n /\ d = c) => cpuDir'[m][d] = cpuDir[m][d]
         /\ ClearDir(n, c) => cpuDir'[n][c] = EmptyDir
         /\ FillDir(n, c, cfg) =>
              cpuDir'[n][c] = [dirs |-> cpuDir[n][c].dirs \cup DirOf(cfg).dirs,
                               kernelMax |-> DirOf(cfg).kernelMax]
  <1>1. cpuDir \in [Names -> [Containers -> CpuDirs]]
    BY DEF TypeOK, FileTypeOK
  <1>2. ASSUME ClearDir(n, c)
        PROVE  /\ \A m \in Names, d \in Containers : ~(m = n /\ d = c) => cpuDir'[m][d] = cpuDir[m][d]
               /\ cpuDir'[n][c] = EmptyDir
    <2>1. cpuDir' = [cpuDir EXCEPT ![n][c] = EmptyDir]
      BY <1>2 DEF ClearDir
    <2> QED
      BY <1>1, <2>1
  <1>3. ASSUME FillDir(n, c, cfg)
        PROVE  /\ \A m \in Names, d \in Containers : ~(m = n /\ d = c) => cpuDir'[m][d] = cpuDir[m][d]
               /\ cpuDir'[n][c] = [dirs |-> cpuDir[n][c].dirs \cup DirOf(cfg).dirs,
                                   kernelMax |-> DirOf(cfg).kernelMax]
    <2> DEFINE new == [dirs |-> cpuDir[n][c].dirs \cup {0} \cup 1 .. Cardinality(cfg) - 1,
                       kernelMax |-> Cardinality(cfg) - 1]
    <2>1. cpuDir' = [cpuDir EXCEPT ![n][c] = new]
      BY <1>3 DEF FillDir
    <2>2. new = [dirs |-> cpuDir[n][c].dirs \cup DirOf(cfg).dirs,
                 kernelMax |-> DirOf(cfg).kernelMax]
      BY DEF DirOf
    <2> HIDE DEF new
    <2> QED
      BY <1>1, <2>1, <2>2
  <1> QED
    BY <1>2, <1>3

(* Whoever touches a directory: it is that of a started container of the   *)
(* node, it is cleared by a thread that will build it, or built from a set *)
(* computed for the container.                                             *)
Clears(p, c) == ClearDir(Name[p], c) /\ Rebuilding(p, c)'
Builds(p, c) ==
  \E s : FillDir(Name[p], c, s) /\ (Admitted(p) => s \in ConfiguredSets(p, c))

LEMMA WorkerTarget ==
  ASSUME IInv, NEW v \in Workers, pc[v] \in Adjusting
  PROVE  /\ Uid(v) \in Local /\ Uid(v) \in Pods /\ Started(Uid(v)) /\ Cont(v) \in Containers
         /\ Name[Uid(v)] \in Names /\ WName(v) = Name[Uid(v)]
  BY WorkerContainerType, PodsAssumption DEF IInv, HandlesStartedPods, WName

LEMMA RecTarget ==
  ASSUME IInv, rpc \in Writing
  PROVE  /\ ritem.uid \in Local /\ ritem.uid \in Pods /\ Started(ritem.uid)
         /\ ritem.c \in Containers /\ Name[ritem.uid] \in Names
  BY PodsAssumption DEF IInv, TypeOK, RecTypeOK, PendingWritesOwn, Writing, Items

LEMMA WorkerTouches ==
  ASSUME IInv, PendingDirsOwn, NEW v \in Workers, NEW p, NEW c, p = Uid(v), c = Cont(v)
  PROVE  /\ ToFill(v) => Clears(p, c)
         /\ ToNext(v) => Builds(p, c)
  <1>1. ASSUME ToFill(v) PROVE Clears(p, c)
    <2>1. Goes(v, "clear", "fill") /\ ClearDir(Name[p], c)
      BY <1>1 DEF ToFill, WName
    <2>2. WName(v)' = Name[p] /\ Cont(v)' = c /\ pc'[v] = "fill"
      BY <2>1 DEF Goes, WName, Uid, Cont
    <2> QED
      BY <2>1, <2>2 DEF Clears, Rebuilding
  <1>2. ASSUME ToNext(v) PROVE Builds(p, c)
    BY <1>2 DEF ToNext, Builds, PendingDirsOwn, WName
  <1> QED
    BY <1>1, <1>2

LEMMA RecTouches ==
  ASSUME IInv, PendingDirsOwn, NEW p, NEW c, p = ritem.uid, c = ritem.c
  PROVE  /\ RecClears => Clears(p, c)
         /\ RecFills => Builds(p, c)
  <1>1. ASSUME RecClears PROVE Clears(p, c)
    BY <1>1 DEF RecClears, RecKeeps, Clears, Rebuilding
  <1>2. ASSUME RecFills PROVE Builds(p, c)
    BY <1>2 DEF RecFills, Builds, PendingDirsOwn, Writing
  <1> QED
    BY <1>1, <1>2

LEMMA DirChange ==
  ASSUME IInv, PendingDirsOwn, [Next]_vars, Calm, cpuDir' # cpuDir
  PROVE  \E p \in Local, c \in Containers : Started(p) /\ (Clears(p, c) \/ Builds(p, c))
  <1> USE DEF IInv
  <1>1. (\E v \in Workers : ClearCpus(v) \/ FillCpus(v)) \/ ReconcilerClears \/ ReconcilerFills
    <2>1. CASE Environment
      BY <2>1 DEF Environment, CreatePod, AdmitPod, FinishPod, DeletePod, StatusUpdate,
         StartContainer, StopContainer
    <2>2. CASE Informer
      BY <2>2 DEF Informer, InformerQuiet, PodChanged
    <2>3. ASSUME NEW v \in Workers, Worker(v) PROVE ClearCpus(v) \/ FillCpus(v)
      BY <2>3 DEF Worker, ProcessNextWorkItem, RefreshPod, Determine, ApplyCpusetToContainer,
         ApplyCpusetToInfraContainer, SetPodAnnotation, WorkerFault
    <2>4. CASE Reconciler
      BY <2>4 DEF Reconciler, GetPodsFromKubelet, ReconcileContainer, ReconcilerWrites,
         ReconcilerFault
    <2>5. CASE Stop \/ Exit \/ Crash \/ UNCHANGED vars
      BY <2>5 DEF Stop, Exit, Crash, Restart, vars
    <2> QED
      BY <2>1, <2>2, <2>3, <2>4, <2>5 DEF Next
  <1>2. ASSUME NEW v \in Workers, ClearCpus(v) \/ FillCpus(v)
        PROVE  \E p \in Local, c \in Containers : Started(p) /\ (Clears(p, c) \/ Builds(p, c))
    <2>1. pc[v] \in {"clear", "fill"} /\ Worker(v)
      BY <1>2 DEF ClearCpus, FillCpus, Worker
    <2>2. ToFill(v) \/ ToNext(v)
      BY <2>1, OwnStep
    <2>3. Uid(v) \in Local /\ Started(Uid(v)) /\ Cont(v) \in Containers
      BY <2>1, WorkerTarget DEF Adjusting
    <2> QED
      BY <2>2, <2>3, WorkerTouches
  <1>3. CASE ReconcilerClears \/ ReconcilerFills
    <2>1. rpc \in Writing /\ (RecClears \/ RecFills)
      BY <1>3 DEF ReconcilerClears, ReconcilerFills, Writing, RecClears, RecFills, RecKeeps
    <2>2. ritem.uid \in Local /\ Started(ritem.uid) /\ ritem.c \in Containers
      BY <2>1, RecTarget
    <2> QED
      BY <2>1, <2>2, RecTouches
  <1> QED
    BY <1>1, <1>2, <1>3

(* A step leaves the directory of a container alone, or clears or builds   *)
(* it, when names are distinct.                                            *)
LEMMA OwnDirChange ==
  ASSUME LocalNamesDistinct, IInv, PendingDirsOwn, [Next]_vars, Calm,
         NEW p \in Local, NEW c \in Containers
  PROVE  \/ cpuDir'[Name[p]][c] = cpuDir[Name[p]][c]
         \/ Started(p) /\ (Clears(p, c) \/ Builds(p, c))
  <1>1. SUFFICES ASSUME cpuDir' # cpuDir
                 PROVE  \/ cpuDir'[Name[p]][c] = cpuDir[Name[p]][c]
                        \/ Started(p) /\ (Clears(p, c) \/ Builds(p, c))
    OBVIOUS
  <1>2. PICK q \in Local, d \in Containers : Started(q) /\ (Clears(q, d) \/ Builds(q, d))
    BY <1>1, DirChange
  <1>3. Name[p] \in Names /\ Name[q] \in Names
    BY PodsAssumption
  <1>4. CASE q = p /\ d = c
    BY <1>2, <1>4
  <1>5. CASE ~(q = p /\ d = c)
    <2>1. ~(Name[p] = Name[q] /\ c = d)
      BY <1>5 DEF LocalNamesDistinct
    <2>2. PICK s : ClearDir(Name[q], d) \/ FillDir(Name[q], d, s)
      BY <1>2 DEF Clears, Builds
    <2>3. TypeOK
      BY DEF IInv
    <2>4. \A m \in Names, x \in Containers :
            ~(m = Name[q] /\ x = d) => cpuDir'[m][x] = cpuDir[m][x]
      BY <1>3, <2>2, <2>3, DirAfter
    <2> QED
      BY <1>3, <2>1, <2>4
  <1> QED
    BY <1>4, <1>5

-----------------------------------------------------------------------------
(* The parts of the invariant.                                             *)

(* Building a clean directory fills it.                                    *)
LEMMA BuildsFills ==
  ASSUME IInv, DirsClean, [Next]_vars, NEW p \in Local, NEW c \in Containers, Started(p),
         Admitted(p)', Builds(p, c)
  PROVE  Filled(p, c)'
  <1>1. PICK s : FillDir(Name[p], c, s) /\ (Admitted(p) => s \in ConfiguredSets(p, c))
    BY DEF Builds
  <1>2. Admitted(p) /\ ConfiguredSets(p, c)' = ConfiguredSets(p, c)
    BY ConfiguredStep
  <1>3. s \in ConfiguredSets(p, c) /\ cpuDir[Name[p]][c].dirs \subseteq DirOf(s).dirs
    BY <1>1, <1>2 DEF DirsClean
  <1>4. Name[p] \in Names
    BY PodsAssumption
  <1>5. cpuDir'[Name[p]][c] = [dirs |-> cpuDir[Name[p]][c].dirs \cup DirOf(s).dirs,
                               kernelMax |-> DirOf(s).kernelMax]
    BY <1>1, <1>4, DirAfter DEF IInv
  <1>6. cpuDir[Name[p]][c].dirs \cup DirOf(s).dirs = DirOf(s).dirs
    BY <1>3
  <1>7. cpuDir'[Name[p]][c] = DirOf(s)
    BY <1>5, <1>6 DEF DirOf
  <1> QED
    BY <1>2, <1>3, <1>7 DEF Filled

LEMMA DirsCleanStep ==
  ASSUME LocalNamesDistinct, PlainPools, PlainRequests, IInv, [Next]_vars, Calm,
         PendingDirsOwn, DirsClean
  PROVE  DirsClean'
  <1> SUFFICES ASSUME NEW p \in Local, NEW c \in Containers
               PROVE  /\ ~Started(p)' => cpuDir'[Name[p]][c] = EmptyDir
                      /\ Admitted(p)' => \A s \in ConfiguredSets(p, c)' :
                           cpuDir'[Name[p]][c].dirs \subseteq DirOf(s).dirs
    BY DEF DirsClean, DirOf
  <1>0. p \in Pods /\ Name[p] \in Names
    BY PodsAssumption
  <1>1. CASE ~Started(p)
    <2>1. cpuDir'[Name[p]][c] = EmptyDir
      BY <1>1, OwnDirChange DEF DirsClean
    <2> QED
      BY <2>1 DEF EmptyDir
  <1>2. CASE Started(p)
    <2>1. Started(p)'
      BY <1>0, <1>2, KubeMonotone DEF IInv
    <2>2. SUFFICES ASSUME Admitted(p)', NEW s \in ConfiguredSets(p, c)'
                   PROVE  cpuDir'[Name[p]][c].dirs \subseteq DirOf(s).dirs
      BY <2>1
    <2>3. Admitted(p) /\ s \in ConfiguredSets(p, c)
      BY <1>2, <2>2, ConfiguredStep
    <2>4. CASE cpuDir'[Name[p]][c] = cpuDir[Name[p]][c]
      BY <2>3, <2>4 DEF DirsClean
    <2>5. CASE Clears(p, c)
      <3>1. cpuDir'[Name[p]][c] = EmptyDir
        BY <1>0, <2>5, DirAfter DEF Clears, IInv
      <3> QED
        BY <3>1 DEF EmptyDir
    <2>6. CASE Builds(p, c)
      <3>1. Filled(p, c)'
        BY <1>2, <2>2, <2>6, BuildsFills
      <3>2. PICK t \in ConfiguredSets(p, c)' : cpuDir'[Name[p]][c] = DirOf(t)
        BY <3>1 DEF Filled, DirOf
      <3>3. t \in ConfiguredSets(p, c)
        BY <1>2, <2>2, <3>2, ConfiguredStep
      <3>4. t = s
        BY <1>0, <2>3, <3>3, OneConfigured
      <3> QED
        BY <3>2, <3>4
    <2> QED
      BY <2>4, <2>5, <2>6, OwnDirChange
  <1> QED
    BY <1>1, <1>2

LEMMA PendingDirsOwnStep ==
  ASSUME IInv, [Next]_vars, Calm, PendingDirsOwn
  PROVE  PendingDirsOwn'
  <1>1. ASSUME NEW v \in Workers, pc'[v] \in {"apply", "clear", "fill"},
               NEW p, NEW c, p = wobj'[v].uid, c = SpecContainers[p][idx'[v]], Admitted(p)'
        PROVE  val'[v].cfg \in ConfiguredSets(p, c)'
    <2>1. Same(v) \/ GoesOn(v)
      BY <1>1, ThreadStep DEF IInv, Anew, Adjusting
    <2>2. \/ pc[v] \in {"apply", "clear", "fill"} /\ val'[v] = val[v]
          \/ ToApply(v)
      BY <1>1, <2>1 DEF Same, GoesOn, ToClear, ToFill, ToNext, ToAnnotate, Goes
    <2>3. wobj'[v] = wobj[v] /\ idx'[v] = idx[v] /\ pc[v] \in Adjusting
      BY <1>1, <2>1 DEF Same, GoesOn, ToApply, ToClear, ToFill, ToNext, ToAnnotate, Goes, Adjusting
    <2>4. p = Uid(v) /\ c = Cont(v)
      BY <1>1, <2>3 DEF Uid, Cont
    <2>5. p \in Local /\ Started(p) /\ c \in Containers
      BY <2>3, <2>4, WorkerTarget
    <2>6. Admitted(p) /\ ConfiguredSets(p, c)' = ConfiguredSets(p, c)
      BY <1>1, <2>5, ConfiguredStep
    <2>7. CASE ToApply(v)
      <3>1. PICK o \in CorrectSets(p, c) : ~o.err /\ val'[v] = [cfg |-> o.cfg, real |-> o.real]
        BY <2>4, <2>7 DEF ToApply
      <3> QED
        BY <2>6, <3>1 DEF ConfiguredSets
    <2>8. CASE pc[v] \in {"apply", "clear", "fill"} /\ val'[v] = val[v]
      BY <2>4, <2>6, <2>8 DEF PendingDirsOwn
    <2> QED
      BY <2>2, <2>7, <2>8
  <1>2. ASSUME rpc' \in Writing, NEW p, NEW c, p = ritem'.uid, c = ritem'.c, Admitted(p)'
        PROVE  rval'.cfg \in ConfiguredSets(p, c)'
    <2>1. CASE \E i \in rtodo : RecTakes(i)
      <3>1. PICK i \in rtodo : RecTakes(i)
        BY <2>1
      <3>2. i \in Items /\ p = i.uid /\ c = i.c /\ p \in Local /\ Started(p) /\ c \in Containers
        BY <1>2, <3>1 DEF RecTakes, IInv, TypeOK, RecTypeOK, PendingWritesOwn, Items
      <3>3. PICK o \in CorrectSets(p, c) : ~o.err /\ rval' = [cfg |-> o.cfg, real |-> o.real]
        BY <3>1, <3>2 DEF RecTakes
      <3>4. ConfiguredSets(p, c)' = ConfiguredSets(p, c)
        BY <1>2, <3>2, ConfiguredStep
      <3> QED
        BY <3>3, <3>4 DEF ConfiguredSets
    <2>2. CASE rpc \in Writing /\ RecKeeps
      <3>1. p = ritem.uid /\ c = ritem.c /\ rval' = rval
        BY <1>2, <2>2 DEF RecKeeps
      <3>2. p \in Local /\ Started(p) /\ c \in Containers
        BY <2>2, <3>1, RecTarget
      <3>3. Admitted(p) /\ ConfiguredSets(p, c)' = ConfiguredSets(p, c)
        BY <1>2, <3>2, ConfiguredStep
      <3> QED
        BY <2>2, <3>1, <3>3 DEF PendingDirsOwn
    <2> QED
      BY <1>2, <2>1, <2>2, RecStep DEF IInv, RecClears, RecFills, Writing
  <1> QED
    BY <1>1, <1>2 DEF PendingDirsOwn, Uid, Cont, Admitted, ConfiguredSets, CorrectSets,
       GetListOfAllocatedExclusiveCpus, Writing

(* While its Pod is admitted, a container whose directory is built or      *)
(* being rebuilt stays so.                                                 *)
LEMMA EmulatedStep ==
  ASSUME LocalNamesDistinct, IInv, PendingDirsOwn, DirsClean, [Next]_vars, Calm,
         NEW p \in Local, NEW c \in Containers, Started(p), Admitted(p)', Emulated(p, c)
  PROVE  Emulated(p, c)'
  <1>0. p \in Pods /\ Name[p] \in Names
    BY PodsAssumption
  <1>1. ASSUME Builds(p, c) PROVE Emulated(p, c)'
    BY <1>1, BuildsFills DEF Emulated
  <1>2. ASSUME NEW v \in Workers, pc[v] \in {"clear", "fill"}, WName(v) = Name[p], Cont(v) = c
        PROVE  Emulated(p, c)'
    <2>1. p = Uid(v)
      BY <1>2, WorkerTarget DEF LocalNamesDistinct, Adjusting
    <2>2. CASE Same(v)
      <3>1. pc'[v] \in {"clear", "fill"} /\ WName(v)' = Name[p] /\ Cont(v)' = c
        BY <1>2, <2>2 DEF Same, WName, Cont, Uid
      <3> QED
        BY <3>1 DEF Emulated, Rebuilding
    <2>3. CASE ToFill(v)
      BY <1>2, <2>1, <2>3, WorkerTouches DEF Clears, Emulated
    <2>4. CASE ToNext(v)
      BY <1>1, <1>2, <2>1, <2>4, WorkerTouches
    <2> QED
      BY <1>2, <2>2, <2>3, <2>4, ThreadStep DEF IInv
  <1>3. ASSUME rpc = "fill", Name[ritem.uid] = Name[p], ritem.c = c
        PROVE  Emulated(p, c)'
    <2>1. p = ritem.uid
      BY <1>3, RecTarget DEF LocalNamesDistinct, Writing
    <2>2. CASE rpc' = rpc /\ RecKeeps
      BY <1>3, <2>2 DEF RecKeeps, Emulated, Rebuilding
    <2>3. CASE RecFills
      BY <1>1, <1>3, <2>1, <2>3, RecTouches
    <2> QED
      BY <1>3, <2>2, <2>3, RecStep DEF IInv, RecTakes, RecClears
  <1>4. CASE Filled(p, c)
    <2>1. CASE cpuDir'[Name[p]][c] = cpuDir[Name[p]][c]
      <3>1. ConfiguredSets(p, c)' = ConfiguredSets(p, c)
        BY ConfiguredStep
      <3>2. PICK s \in ConfiguredSets(p, c) : cpuDir[Name[p]][c] = DirOf(s)
        BY <1>4 DEF Filled
      <3> QED
        BY <2>1, <3>1, <3>2 DEF Filled, Emulated, DirOf
    <2>2. CASE Clears(p, c)
      BY <2>2 DEF Clears, Emulated
    <2> QED
      BY <1>1, <2>1, <2>2, OwnDirChange
  <1> QED
    BY <1>2, <1>3, <1>4 DEF Emulated, Rebuilding

(* Whoever writes the cpuset of a container: its directory is built, or    *)
(* the writer is about to rebuild it.                                      *)
LEMMA WriterBuilds ==
  ASSUME IInv, BuiltBeforeWritten, [Next]_vars, ~Environment,
         NEW p \in Local, NEW c \in Containers, cpuset'[p][c] # cpuset[p][c]
  PROVE  Emulated(p, c) \/ Rebuilding(p, c)'
  <1>0. p \in Pods /\ cpuset \in [Pods -> [Containers -> SUBSET CPUs]]
    BY PodsAssumption DEF IInv, TypeOK, CgroupTypeOK
  <1>1. \/ \E v \in Workers : ApplyCpusetToContainer(v) \/ ApplyCpusetToInfraContainer(v)
        \/ ReconcilerWrites
    <2>1. CASE Informer
      BY <2>1 DEF Informer, InformerQuiet, PodChanged, cgroupVars
    <2>2. ASSUME NEW v \in Workers, Worker(v)
          PROVE  ApplyCpusetToContainer(v) \/ ApplyCpusetToInfraContainer(v)
      BY <2>2 DEF Worker, ProcessNextWorkItem, RefreshPod, Determine, ClearCpus, FillCpus,
         SetPodAnnotation, WorkerFault, cgroupVars
    <2>3. CASE Reconciler
      BY <2>3 DEF Reconciler, GetPodsFromKubelet, ReconcileContainer, ReconcilerClears,
         ReconcilerFills, ReconcilerFault, cgroupVars
    <2>4. CASE Stop \/ Exit \/ Crash \/ UNCHANGED vars
      BY <2>4 DEF Stop, Exit, Crash, Restart, vars, cgroupVars
    <2> QED
      BY <2>1, <2>2, <2>3, <2>4 DEF Next
  <1>2. ASSUME NEW v \in Workers, ApplyCpusetToContainer(v)
        PROVE  Rebuilding(p, c)'
    <2>1. /\ pc[v] = "apply" /\ pc' = [pc EXCEPT ![v] = "clear"] /\ UNCHANGED <<wobj, idx>>
          /\ cpuset' = [cpuset EXCEPT ![Uid(v)][Cont(v)] = val[v].real]
      BY <1>2 DEF ApplyCpusetToContainer, Goto
    <2>2. Uid(v) = p /\ Cont(v) = c
      BY <1>0, <2>1
    <2>3. pc'[v] = "clear"
      BY <2>1 DEF IInv, TypeOK, WorkTypeOK
    <2>4. WName(v)' = Name[p] /\ Cont(v)' = c
      BY <2>1, <2>2 DEF WName, Uid, Cont
    <2> QED
      BY <2>3, <2>4 DEF Rebuilding
  <1>3. ASSUME NEW v \in Workers, ApplyCpusetToInfraContainer(v)
        PROVE  Emulated(p, c)
    <2>1. PICK d \in DefaultSets, e \in UnknownContainers(v) :
            /\ pc[v] = "infra" /\ PodCgroupExists(Uid(v))
            /\ cpuset' = [cpuset EXCEPT ![Uid(v)][e] = d]
      BY <1>3 DEF ApplyCpusetToInfraContainer, cgroupVars
    <2>2. Uid(v) = p /\ e = c
      BY <1>0, <2>1
    <2>3. c \in ContainersOf(p)
      BY <2>2 DEF UnknownContainers
    <2>4. PICK i \in 1 .. Len(SpecContainers[p]) : c = SpecContainers[p][i]
      BY <2>3 DEF ContainersOf
    <2>5. Behind(v, p, c) /\ Admitted(p)
      BY <2>1, <2>2, <2>4 DEF Behind, Adjusting, PodCgroupExists, Admitted
    <2> QED
      BY <2>5 DEF BuiltBeforeWritten
  <1>4. CASE ReconcilerWrites
    <2>1. /\ rpc = "write" /\ Live(ritem.uid, ritem.c, ritem.id)
          /\ cpuset' = [cpuset EXCEPT ![ritem.uid][ritem.c] = rval.real]
      BY <1>4 DEF ReconcilerWrites
    <2>2. ritem.uid = p /\ ritem.c = c
      BY <1>0, <2>1
    <2>3. Admitted(p)
      BY <1>0, <2>1, <2>2 DEF Live, IInv, KubeletCoherent, Admitted
    <2> QED
      BY <2>1, <2>2, <2>3 DEF BuiltBeforeWritten, AboutToWrite
  <1> QED
    BY <1>1, <1>2, <1>3, <1>4

LEMMA BuiltBeforeWrittenStep ==
  ASSUME LocalNamesDistinct, IInv, IInv', DirInv, [Next]_vars, Calm
  PROVE  BuiltBeforeWritten'
  <1> USE DEF DirInv
  <1>1. ASSUME NEW p \in Local, NEW c \in Containers, Provisioned(p, c)'
        PROVE  Emulated(p, c)'
    <2>0. p \in Pods
      BY PodsAssumption
    <2>1. up'[p][c] /\ cpuset'[p][c] # AllCpus
      BY <1>1 DEF Provisioned, Running
    <2>2. Admitted(p)'
      BY <2>0, <2>1 DEF IInv, KubeletCoherent, Admitted
    <2>3. up[p][c]
      <3>1. CASE Environment
        BY <2>0, <2>1, <3>1, KubeletKeeps DEF IInv
      <3>2. CASE ~Environment
        BY <2>1, <3>2, KubeFrame DEF kubeVars
      <3> QED
        BY <3>1, <3>2
    <2>4. Started(p)
      BY <2>0, <2>3 DEF IInv, KubeletCoherent, Started
    <2>5. CASE cpuset'[p][c] = cpuset[p][c]
      <3>1. Provisioned(p, c)
        BY <2>1, <2>3, <2>5 DEF Provisioned, Running
      <3>2. Emulated(p, c)
        BY <2>2, <2>4, <3>1, ConfiguredStep DEF BuiltBeforeWritten
      <3> QED
        BY <2>2, <2>4, <3>2, EmulatedStep
    <2>6. CASE cpuset'[p][c] # cpuset[p][c]
      <3>1. ~Environment
        BY <2>0, <2>1, <2>6, KubeletKeeps DEF IInv
      <3>2. CASE Emulated(p, c)
        BY <2>2, <2>4, <3>2, EmulatedStep
      <3>3. CASE Rebuilding(p, c)'
        BY <3>3 DEF Emulated
      <3> QED
        BY <2>6, <3>1, <3>2, <3>3, WriterBuilds
    <2> QED
      BY <2>5, <2>6
  <1>2. ASSUME NEW p \in Local, NEW c \in Containers, Admitted(p)', AboutToWrite(p, c)'
        PROVE  Emulated(p, c)'
    <2>0. rpc' = "write" /\ p = ritem'.uid /\ c = ritem'.c
      BY <1>2 DEF AboutToWrite
    <2>1. rpc \in Writing /\ RecKeeps /\ (rpc = "write" \/ RecFills)
      BY <2>0, RecStep DEF IInv, RecTakes, RecClears, RecFills, Writing
    <2>2. p = ritem.uid /\ c = ritem.c
      BY <2>0, <2>1 DEF RecKeeps
    <2>3. Started(p)
      BY <2>1, <2>2, RecTarget
    <2>4. Admitted(p)
      BY <1>2, <2>3, ConfiguredStep
    <2>5. CASE rpc = "write"
      <3>1. Emulated(p, c)
        BY <2>2, <2>4, <2>5 DEF BuiltBeforeWritten, AboutToWrite
      <3> QED
        BY <1>2, <2>3, <3>1, EmulatedStep
    <2>6. CASE RecFills
      <3>1. Builds(p, c)
        BY <2>2, <2>6, RecTouches
      <3> QED
        BY <1>2, <2>3, <3>1, BuildsFills DEF Emulated
    <2> QED
      BY <2>1, <2>5, <2>6
  <1>3. ASSUME NEW p \in Local, NEW c \in Containers, Admitted(p)',
               NEW v \in Workers, Behind(v, p, c)'
        PROVE  Emulated(p, c)'
    <2>0. PICK i \in 1 .. Len(SpecContainers[p]) :
            /\ pc'[v] \in Adjusting /\ p = wobj'[v].uid /\ c = SpecContainers[p][i]
            /\ i < idx'[v] \/ pc'[v] \in {"infra", "annotate"}
      BY <1>3 DEF Behind, Uid
    <2>1. Same(v) \/ GoesOn(v)
      <3>1. ~(pc'[v] = "determine" /\ idx'[v] = 1)
        BY <2>0
      <3> QED
        BY <2>0, <3>1, ThreadStep DEF IInv, Anew
    <2>2. wobj'[v] = wobj[v] /\ pc[v] \in Adjusting
      BY <2>0, <2>1 DEF Same, GoesOn, ToApply, ToClear, ToFill, ToNext, ToAnnotate, Goes, Adjusting
    <2>3. p = Uid(v) /\ Started(p)
      BY <2>0, <2>2, WorkerTarget DEF Uid
    <2>4. Admitted(p)
      BY <1>3, <2>3, ConfiguredStep
    <2>5. CASE i < idx[v] \/ pc[v] \in {"infra", "annotate"}
      <3>1. Behind(v, p, c)
        BY <2>0, <2>2, <2>3, <2>5 DEF Behind
      <3>2. Emulated(p, c)
        BY <2>4, <3>1 DEF BuiltBeforeWritten
      <3> QED
        BY <1>3, <2>3, <3>2, EmulatedStep
    <2>6. CASE ~(i < idx[v] \/ pc[v] \in {"infra", "annotate"})
      <3>1. idx[v] \in Nat /\ i \in Nat
        BY DEF IInv, TypeOK, WorkTypeOK
      <3>2. ToNext(v)
        BY <2>0, <2>1, <2>6 DEF Same, GoesOn, ToApply, ToClear, ToFill, ToAnnotate, Goes
      <3>3. i = idx[v]
        BY <2>0, <2>3, <2>6, <3>1, <3>2 DEF ToNext, AtLast
      <3>4. c = Cont(v)
        BY <2>0, <2>3, <3>3 DEF Cont
      <3>5. Builds(p, c)
        BY <2>3, <3>2, <3>4, WorkerTouches
      <3> QED
        BY <1>3, <2>3, <3>5, BuildsFills DEF Emulated
    <2> QED
      BY <2>5, <2>6
  <1> QED
    BY <1>1, <1>2, <1>3 DEF BuiltBeforeWritten

LEMMA NonemptyCpusetsStep ==
  ASSUME IInv, NonemptyCpusets, [Next]_vars
  PROVE  NonemptyCpusets'
  <1> SUFFICES ASSUME NEW p \in Pods, NEW c \in Containers PROVE cpuset'[p][c] # {}
    BY DEF NonemptyCpusets
  <1>0. cpuset \in [Pods -> [Containers -> SUBSET CPUs]] /\ cpuset[p][c] # {} /\ AllCpus # {}
    BY NumCPUAssumption DEF IInv, TypeOK, CgroupTypeOK, NonemptyCpusets, AllCpus, CPUs
  <1>1. CASE Environment
    <2>1. \/ cpuset' = cpuset
          \/ \E q \in Pods, e \in Containers : cpuset' = [cpuset EXCEPT ![q][e] = AllCpus]
      BY <1>1 DEF Environment, CreatePod, AdmitPod, FinishPod, DeletePod, StatusUpdate,
         StartContainer, StopContainer, cgroupVars
    <2> QED
      BY <1>0, <2>1
  <1>2. CASE ~Environment /\ cpuset' # cpuset
    <2>1. PICK q \in Local, e \in Containers : \E s : Writes(q, e, s)
      BY <1>2, OneWrite
    <2>2. PICK s : s # {} /\ cpuset' = [cpuset EXCEPT ![q][e] = s]
      BY <2>1 DEF Writes
    <2>3. q \in Pods
      BY PodsAssumption
    <2> QED
      BY <1>0, <2>2, <2>3
  <1>3. CASE cpuset' = cpuset
    BY <1>0, <1>3
  <1> QED
    BY <1>1, <1>2, <1>3

(* Failing operations and restarts are only counted up.                    *)
LEMMA UndisturbedStep ==
  ASSUME TypeOK, [Next]_vars, Undisturbed'
  PROVE  Undisturbed /\ Calm
  <1>0. faults \in Nat /\ crashes \in Nat
    BY DEF TypeOK, ProcTypeOK
  <1>1. faults' \in {faults, faults + 1} /\ crashes' \in {crashes, crashes + 1}
    <2>1. CASE Environment
      BY <2>1, EnvironmentFrame DEF procVars
    <2>2. CASE Informer
      BY <2>2 DEF Informer, InformerQuiet, PodChanged, procVars
    <2>3. CASE \E w \in Workers : Worker(w)
      BY <2>3 DEF Worker, ProcessNextWorkItem, RefreshPod, Determine, ApplyCpusetToContainer,
         ClearCpus, FillCpus, ApplyCpusetToInfraContainer, SetPodAnnotation, WorkerFault, procVars
    <2>4. CASE Reconciler
      BY <2>4 DEF Reconciler, GetPodsFromKubelet, ReconcileContainer, ReconcilerClears,
         ReconcilerFills, ReconcilerWrites, ReconcilerFault, procVars
    <2>5. CASE Stop \/ Exit \/ Crash \/ UNCHANGED vars
      BY <2>5 DEF Stop, Exit, Crash, Restart, vars
    <2> QED
      BY <2>1, <2>2, <2>3, <2>4, <2>5 DEF Next
  <1> QED
    BY <1>0, <1>1 DEF Undisturbed, Calm

LEMMA InitEInv == Init => EInv
  <1> SUFFICES ASSUME Init PROVE EInv
    OBVIOUS
  <1>1. \A w \in Workers : pc[w] = "idle"
    BY DEF Init
  <1>2. rpc = "idle"
    BY DEF Init
  <1>3. \A p \in Pods, c \in Containers : cpuset[p][c] = AllCpus /\ ~up[p][c]
    BY DEF Init
  <1>4. \A p \in Pods : ~Admitted(p)
    BY DEF Init, Admitted
  <1>5. \A p \in Local, c \in Containers : cpuDir[Name[p]][c] = EmptyDir
    BY PodsAssumption DEF Init
  <1>6. Local \subseteq Pods
    BY PodsAssumption
  <1>7. PendingDirsOwn
    BY <1>1, <1>2 DEF PendingDirsOwn, Writing
  <1>8. DirsClean
    BY <1>4, <1>5, <1>6 DEF DirsClean
  <1>9. BuiltBeforeWritten
    BY <1>4, <1>6 DEF BuiltBeforeWritten
  <1>10. NonemptyCpusets
    <2>1. 0 \in AllCpus
      BY NumCPUAssumption DEF AllCpus, CPUs
    <2> QED
      BY <1>3, <2>1 DEF NonemptyCpusets
  <1> QED
    BY <1>7, <1>8, <1>9, <1>10, InitIInv DEF EInv, DirInv

LEMMA NextEInv ==
  ASSUME LocalNamesDistinct, PlainPools, PlainRequests
  PROVE  EInv /\ [Next]_vars => EInv'
  <1> SUFFICES ASSUME EInv, [Next]_vars PROVE EInv'
    OBVIOUS
  <1>1. IInv /\ IInv' /\ TypeOK /\ NonemptyCpusets'
    BY NextIInv, NonemptyCpusetsStep DEF EInv, IInv
  <1>2. ASSUME Undisturbed' PROVE DirInv'
    <2>1. DirInv /\ Calm
      BY <1>1, <1>2, UndisturbedStep DEF EInv
    <2> QED
      BY <1>1, <2>1, PendingDirsOwnStep, DirsCleanStep, BuiltBeforeWrittenStep DEF DirInv
  <1> QED
    BY <1>1, <1>2 DEF EInv

(* A container whose cpuset is written has CPUs to show: only an empty     *)
(* default pool makes determineCorrectCpuset return an empty set, and then *)
(* nothing is written.                                                     *)
LEMMA ConfiguredNonempty ==
  ASSUME PlainPools, PlainRequests, IInv, NonemptyCpusets, NEW p \in Local, NEW c \in Containers,
         Provisioned(p, c), NEW o \in CorrectSets(p, c), ~o.err
  PROVE  o.cfg # {}
  <1> DEFINE reqs == RequestsOf(p, c)
             devs == GetListOfAllocatedExclusiveCpus(p, c)
             cloud == OfKind(reqs, CloudphonePoolID)
  <1>0. p \in Pods
    BY PodsAssumption
  <1>1. o \in DetermineCorrectCpuset(reqs, devs)
    BY DEF CorrectSets
  <1>2. CASE cloud # {}
    <2>1. PICK r \in cloud : o \in CloudphoneOutcomes(r, devs[r])
      BY <1>1, <1>2 DEF DetermineCorrectCpuset
    <2>2. o # Failed
      BY DEF Failed
    <2> QED
      BY <2>1, <2>2 DEF CloudphoneOutcomes, Decided
  <1>3. CASE cloud = {}
    <2>1. SUFFICES ASSUME o.cfg = {} PROVE FALSE
      OBVIOUS
    <2>2. PICK sh \in SharedSets(reqs), ex \in ExclusiveSets(reqs, devs) :
            \E s \in OwnOrDefault(sh, ex) : o = Decided(s, s)
      BY <1>1, <1>3 DEF DetermineCorrectCpuset
    <2>3. {} \in OwnOrDefault(sh, ex) /\ o.real = {}
      BY <2>1, <2>2 DEF Decided
    <2>4. {} \in DefaultSets
      BY <2>3 DEF OwnOrDefault
    <2>5. cpuset[p][c] # {} /\ cpuset[p][c] \in OwnSets(p, c) \cup DefaultSets
      BY <1>0 DEF NonemptyCpusets, IInv, Confined
    <2>6. cpuset[p][c] \in OwnSets(p, c)
      BY <2>4, <2>5 DEF PlainPools
    <2>7. PICK u \in CorrectSets(p, c) : ~u.err /\ cpuset[p][c] = u.real
      BY <2>6 DEF OwnSets
    <2>8. u = o
      BY <1>0, <2>7, OneResult
    <2> QED
      BY <2>3, <2>5, <2>7, <2>8
  <1> QED
    BY <1>2, <1>3

LEMMA EInvAgrees ==
  ASSUME PlainPools, PlainRequests, EInv, Undisturbed
  PROVE  EmulationAgrees
  <1> USE DEF EInv, DirInv
  <1> SUFFICES ASSUME NEW p \in Local, NEW c \in ContainersOf(p),
                      Provisioned(p, c), ~Rebuilding(p, c)
               PROVE  /\ cpuDir[Name[p]][c].dirs = 0 .. cpuDir[Name[p]][c].kernelMax
                      /\ \E o \in CorrectSets(p, c) :
                           cpuDir[Name[p]][c].kernelMax = Cardinality(o.cfg) - 1
    BY DEF EmulationAgrees
  <1>1. p \in Pods /\ c \in Containers
    BY PodsAssumption, SpecContainerType
  <1>2. Admitted(p)
    BY <1>1 DEF Provisioned, Running, IInv, KubeletCoherent, Admitted
  <1>3. Filled(p, c)
    BY <1>1, <1>2 DEF BuiltBeforeWritten, Emulated
  <1>4. PICK s \in ConfiguredSets(p, c) : cpuDir[Name[p]][c] = DirOf(s)
    BY <1>3 DEF Filled
  <1>5. PICK o \in CorrectSets(p, c) : ~o.err /\ s = o.cfg
    BY DEF ConfiguredSets
  <1>6. s \subseteq CPUs /\ s # {}
    BY <1>1, <1>5, CorrectSetsType, ConfiguredNonempty DEF IInv, TypeOK
  <1>7. IsFiniteSet(s)
    <2>1. IsFiniteSet(CPUs)
      BY FS_Interval, NumCPUAssumption DEF CPUs
    <2> QED
      BY <1>6, <2>1, FS_Subset
  <1>8. Cardinality(s) \in Nat /\ Cardinality(s) # 0
    BY <1>6, <1>7, FS_CardinalityType, FS_EmptySet
  <1>9. {0} \cup 1 .. Cardinality(s) - 1 = 0 .. Cardinality(s) - 1
    BY <1>8
  <1> QED
    BY <1>4, <1>5, <1>9 DEF DirOf

(* As long as no operation failed and the process was not restarted: the   *)
(* directory of a container whose cpuset is written, and that no thread is *)
(* rebuilding (applyCpusToContainer), shows as many CPUs as are configured *)
(* for the container, however the workers, their retries and the           *)
(* reconciliation thread cleared and filled it in turn.                    *)
THEOREM EmulationUndisturbedThm ==
  ASSUME LocalNamesDistinct, PlainPools, PlainRequests
  PROVE  Spec => [](Undisturbed => EmulationAgrees)
  <1>1. EInv => (Undisturbed => EmulationAgrees)
    BY EInvAgrees
  <1> QED
    BY <1>1, InitEInv, NextEInv, PTL DEF Spec

(* The same of every state, on a node where file operations do not fail    *)
(* and the process keeps running (applyCpusToContainer).                   *)
THEOREM EmulationAgreesThm ==
  ASSUME LocalNamesDistinct, PlainPools, PlainRequests, MaxFaults = 0, MaxCrashes = 0
  PROVE  Spec => []EmulationAgrees
  <1> DEFINE Quiet == Undisturbed /\ ~shut
  <1>1. Init => Quiet
    BY DEF Init, Undisturbed
  <1>2. Quiet /\ [Next]_vars => Quiet'
    <2> SUFFICES ASSUME Quiet, [Next]_vars PROVE Quiet'
      OBVIOUS
    <2> USE DEF Undisturbed
    <2>1. CASE Environment
      BY <2>1, EnvironmentFrame DEF procVars
    <2>2. CASE Informer
      BY <2>2 DEF Informer, InformerQuiet, PodChanged, procVars
    <2>3. CASE \E w \in Workers : Worker(w)
      BY <2>3 DEF Worker, ProcessNextWorkItem, RefreshPod, Determine, ApplyCpusetToContainer,
         ClearCpus, FillCpus, ApplyCpusetToInfraContainer, SetPodAnnotation, WorkerFault, procVars
    <2>4. CASE Reconciler
      BY <2>4 DEF Reconciler, GetPodsFromKubelet, ReconcileContainer, ReconcilerClears,
         ReconcilerFills, ReconcilerWrites, ReconcilerFault, procVars
    <2>5. CASE Stop \/ Exit \/ Crash \/ UNCHANGED vars
      BY <2>5 DEF Stop, Exit, Crash, vars
    <2> QED
      BY <2>1, <2>2, <2>3, <2>4, <2>5 DEF Next
  <1>3. Spec => [](Undisturbed => EmulationAgrees)
    BY EmulationUndisturbedThm
  <1>4. Quiet => Undisturbed
    OBVIOUS
  <1> HIDE DEF Quiet
  <1> QED
    BY <1>1, <1>2, <1>3, <1>4, PTL DEF Spec
=============================================================================
