------------------------ MODULE ProcessStarterProofs ------------------------
(***************************************************************************)
(* Proofs about the start of a container: from the environment Allocate    *)
(* returns to the processes the process-starter starts, for every          *)
(* configuration of pools, every annotation the webhook accepts and every  *)
(* number of threads and polls.  The second half is about the devices      *)
(* GetPreferredAllocation proposes.                                        *)
(***************************************************************************)
EXTENDS ProcessStarter, PoolConfigProofs, WellFoundedInduction

-----------------------------------------------------------------------------
(* The inductive invariant.                                                *)

StartedProcesses == [PoolName : PoolNames \cup {<<>>}, mask : SUBSET CPUs, cpus : SUBSET CPUs]

(* What TypeOK leaves open.                                                *)
TypesInside ==
  /\ devs \in [Requested -> SUBSET Nat]
  /\ started \in Seq(StartedProcesses)
  /\ case.processes # <<>> => index \in 1 .. Len(case.processes)

OfferedCpus == UNION {CpusOfPool(n) : n \in OfferedPools}
ExclusiveCpus == UNION {CpusOfPool(n) : n \in ExclusivePools}

(* A variable of the environment names CPUs of the pools of its type.      *)
EnvOfPools ==
  /\ env.exclusive \subseteq ExclusiveCpus
  /\ env.shared \subseteq SharedCPUs
  /\ env.cloudphone \subseteq OfferedCpus
  /\ env.numa \subseteq OfferedCpus

(* Every thread may run somewhere, and only inside the cpuset.             *)
AffinityInside == \A t \in Threads : affinity[t] # {} /\ affinity[t] \subseteq cpuset

(* The cpuset is the node's or CPUSetter has written it.                   *)
WrittenSet ==
  cpuset # AllCpus => /\ pc \notin {"admit", "refused"}
                      /\ cpuset \in WrittenSets

(* The lists of main are read from the environment once, after the polls.  *)
ListsOfEnv ==
  /\ excl \subseteq env.exclusive /\ shared \subseteq env.shared
  /\ pc \in {"admit", "refused", "poll"} =>
       excl = {} /\ shared = {} /\ mask = {} /\ started = <<>>
  /\ case.processes = <<>> => pc \notin {"pin", "start"}

IInv ==
  /\ TypeOK /\ TypesInside /\ EnvOfPools /\ AffinityInside /\ WrittenSet /\ ListsOfEnv

(* From the last poll on the starter has seen a set of the container's     *)
(* own, and the container is in one that CPUSetter wrote, so it never gets *)
(* back to the whole node.                                                 *)
Provisioned ==
  /\ pc \in {"pin", "start", "exec", "running"} \/ started # <<>> =>
       ExpectedCpus \in OwnSets /\ cpuset \in WrittenSets
  /\ \A i \in 1 .. Len(started) : started[i].cpus # {} /\ started[i].cpus \subseteq cpuset

(* The CPUs still in the list of main belong to no process, and those      *)
(* taken for the next one to no earlier process.                           *)
HandedOutOnce ==
  /\ \A j \in 1 .. Len(started) : started[j].mask \cap excl = {}
  /\ pc \in {"start", "exec"} => mask \cap excl = {}
  /\ pc = "start" /\ IsExclusive(Process) =>
       /\ mask \subseteq env.exclusive
       /\ \A j \in 1 .. Len(started) : started[j].mask \cap mask = {}
  /\ MasksDisjoint

-----------------------------------------------------------------------------
(* Lemmas about the operators.                                             *)

LEMMA NodeNonempty == AllCpus # {} /\ AllCpus \subseteq CPUs /\ 0 \in AllCpus
  BY NumCPUAssumption DEF AllCpus, CPUs

LEMMA CpusOfPoolType ==
  ASSUME NEW n \in PoolNames
  PROVE  CpusOfPool(n) \subseteq CPUs /\ Pools[n].CPUset \subseteq CpusOfPool(n)
  <1>1. Pools[n].CPUset \in SUBSET CPUs
    BY PoolsAssumption
  <1>2. AddHTSiblingsToCPUSet(Pools[n].CPUset) \subseteq CPUs
    BY <1>1, SiblingsType
  <1>3. Pools[n].CPUset \subseteq AddHTSiblingsToCPUSet(Pools[n].CPUset)
    BY DEF AddHTSiblingsToCPUSet
  <1> QED
    BY <1>1, <1>2, <1>3 DEF CpusOfPool

LEMMA OfferedCpusType ==
  OfferedCpus \subseteq CPUs /\ ExclusiveCpus \subseteq OfferedCpus
  <1>1. ExclusivePools \subseteq OfferedPools
    BY DEF ExclusivePools, OfferedPools, ExclusivePoolID, DefaultPoolID
  <1>2. OfferedPools \subseteq PoolNames
    BY DEF OfferedPools
  <1> QED
    BY <1>1, <1>2, CpusOfPoolType DEF OfferedCpus, ExclusiveCpus

LEMMA SharedCPUsType == SharedCPUs \subseteq OfferedCpus
  <1>1. \A m \in PoolNames : DeterminePoolType(m) = SharedPoolID => m \in OfferedPools
    BY DEF OfferedPools, SharedPoolID, DefaultPoolID
  <1> QED
    BY <1>1, CpusOfPoolType DEF SharedCPUs, OfferedCpus, OfferedPools

(* Allocate never hands out a CPU that is neither of the pool nor, where   *)
(* the policy adds them, a sibling of one.                                 *)
LEMMA CpusAllocatedType ==
  ASSUME NEW n \in PoolNames, NEW ids \in SUBSET DeviceIDs(n)
  PROVE  CpusAllocated(n, ids) \subseteq CpusOfPool(n)
  <1>1. \A d \in ids : d % NumCPU \in Pools[n].CPUset
    BY DeviceCpu
  <1>2. {d % NumCPU : d \in ids} \subseteq Pools[n].CPUset
    BY <1>1
  <1> DEFINE cpus == {d % NumCPU : d \in ids}
  <1>3. AddHTSiblingsToCPUSet(cpus) \subseteq AddHTSiblingsToCPUSet(Pools[n].CPUset)
    BY <1>2 DEF AddHTSiblingsToCPUSet
  <1> QED
    BY <1>2, <1>3 DEF CpusAllocated, CpusOfPool

(* What the answer of a plugin says, variable by variable.                 *)
AnswerOfPools(a) ==
  /\ a.exclusive \subseteq ExclusiveCpus
  /\ a.shared \subseteq SharedCPUs
  /\ a.cloudphone \subseteq OfferedCpus
  /\ a.numa \subseteq OfferedCpus

LEMMA PoolTypeCases ==
  \A n : DeterminePoolType(n) \in {SharedPoolID, ExclusivePoolID, CloudphonePoolID, DefaultPoolID}
  BY DEF DeterminePoolType

LEMMA AllocateType ==
  ASSUME NEW n \in OfferedPools, NEW ids,
         DeterminePoolType(n) # SharedPoolID => ids \in SUBSET DeviceIDs(n)
  PROVE  AnswerOfPools(Allocate(n, ids))
  <1> DEFINE cpus == CpusAllocated(n, ids)
             node == {k \in Pools[n].CPUset : NodeOf[k] = NodeOf[First(cpus)]}
  <1>1. n \in PoolNames /\ DeterminePoolType(n) # DefaultPoolID
    BY DEF OfferedPools
  <1>2. CpusOfPool(n) \subseteq OfferedCpus
    BY DEF OfferedCpus
  <1>3. Pools[n].CPUset \subseteq OfferedCpus
    BY <1>1, <1>2, CpusOfPoolType
  <1>4. node \subseteq OfferedCpus
    BY <1>3
  <1>5. CASE DeterminePoolType(n) = SharedPoolID
    <2>1. Allocate(n, ids) = [NoEnv EXCEPT !.shared = SharedCPUs]
      BY <1>5 DEF Allocate, SharedPoolID, CloudphonePoolID
    <2> QED
      BY <2>1 DEF NoEnv, AnswerOfPools
  <1>6. CASE DeterminePoolType(n) = CloudphonePoolID
    <2>1. Allocate(n, ids) = [NoEnv EXCEPT !.cloudphone = cpus, !.numa = node]
      BY <1>6 DEF Allocate, SharedPoolID, CloudphonePoolID
    <2>2. cpus \subseteq OfferedCpus
      BY <1>1, <1>2, <1>6, CpusAllocatedType DEF SharedPoolID, CloudphonePoolID
    <2> HIDE DEF cpus, node
    <2> QED
      BY <1>4, <2>1, <2>2 DEF NoEnv, AnswerOfPools
  <1>7. CASE DeterminePoolType(n) = ExclusivePoolID
    <2>1. Allocate(n, ids) = [NoEnv EXCEPT !.exclusive = cpus]
      BY <1>7 DEF Allocate, SharedPoolID, CloudphonePoolID, ExclusivePoolID
    <2>2. cpus \subseteq CpusOfPool(n)
      BY <1>1, <1>7, CpusAllocatedType DEF SharedPoolID, ExclusivePoolID
    <2>3. cpus \subseteq ExclusiveCpus
      BY <1>1, <1>7, <2>2 DEF ExclusiveCpus, ExclusivePools
    <2> HIDE DEF cpus, node
    <2> QED
      BY <2>1, <2>3 DEF NoEnv, AnswerOfPools
  <1> QED
    BY <1>1, <1>5, <1>6, <1>7, PoolTypeCases

(* Kubelet's merge invents no value.                                       *)
LEMMA MergedType ==
  ASSUME NEW a, NEW e \in MergedEnvs(a), AnswerOfPools(a), EnvOfPools
  PROVE  DOMAIN e = DOMAIN NoEnv /\ AnswerOfPools(e)
  <1> DEFINE values(v) == IF a[v] = {} THEN {env[v]} ELSE {a[v], env[v]} \ {{}}
  <1>1. /\ e \in [DOMAIN NoEnv -> UNION {values(v) : v \in DOMAIN NoEnv}]
        /\ \A v \in DOMAIN NoEnv : e[v] \in values(v)
    BY DEF MergedEnvs
  <1>2. \A v \in DOMAIN NoEnv : e[v] = a[v] \/ e[v] = env[v]
    BY <1>1
  <1>3. DOMAIN NoEnv = {"exclusive", "shared", "cloudphone", "numa"}
    BY DEF NoEnv
  <1>4. DOMAIN e = DOMAIN NoEnv
    BY <1>1
  <1>5. /\ e["exclusive"] = a["exclusive"] \/ e["exclusive"] = env["exclusive"]
        /\ e["shared"] = a["shared"] \/ e["shared"] = env["shared"]
        /\ e["cloudphone"] = a["cloudphone"] \/ e["cloudphone"] = env["cloudphone"]
        /\ e["numa"] = a["numa"] \/ e["numa"] = env["numa"]
    BY <1>2, <1>3
  <1> QED
    BY <1>4, <1>5 DEF AnswerOfPools, EnvOfPools

(* The CPUs of an environment, whatever the variable.                      *)
LEMMA EnvCpus ==
  ASSUME NEW e, DOMAIN e = DOMAIN NoEnv, AnswerOfPools(e)
  PROVE  \A v \in DOMAIN e : e[v] \subseteq OfferedCpus
  <1>1. DOMAIN NoEnv = {"exclusive", "shared", "cloudphone", "numa"}
    BY DEF NoEnv
  <1>2. /\ e["exclusive"] \subseteq OfferedCpus /\ e["shared"] \subseteq OfferedCpus
        /\ e["cloudphone"] \subseteq OfferedCpus /\ e["numa"] \subseteq OfferedCpus
    BY OfferedCpusType, SharedCPUsType DEF AnswerOfPools
  <1> QED
    BY <1>1, <1>2

LEMMA OwnSetsType ==
  ASSUME devs \in [Requested -> SUBSET Nat]
  PROVE  \A s \in OwnSets : s \subseteq CPUs
  BY OutcomesType DEF OwnSets


LEMMA StartedAppend ==
  ASSUME NEW q \in Seq(StartedProcesses), NEW p \in StartedProcesses
  PROVE  /\ Append(q, p) \in Seq(StartedProcesses)
         /\ Len(Append(q, p)) = Len(q) + 1
         /\ \A i \in 1 .. Len(q) : Append(q, p)[i] = q[i]
         /\ Append(q, p)[Len(q) + 1] = p
  OBVIOUS

LEMMA StartedType ==
  ASSUME NEW q \in Seq(StartedProcesses)
  PROVE  \A i \in 1 .. Len(q) : q[i].cpus \subseteq CPUs /\ q[i].mask \subseteq CPUs
  <1>1. \A i \in 1 .. Len(q) : q[i] \in StartedProcesses
    OBVIOUS
  <1> QED
    BY <1>1 DEF StartedProcesses

-----------------------------------------------------------------------------
(* The inductive invariant holds.                                          *)

LEMMA InitIInv == Init => IInv
  <1> SUFFICES ASSUME Init PROVE IInv
    OBVIOUS
  <1> USE DEF Init
  <1>1. TypesInside
    <2>1. devs \in [Requested -> SUBSET Nat]
      BY DEF Requested
    <2>2. started \in Seq(StartedProcesses)
      OBVIOUS
    <2>3. case.processes \in Seq([PoolName : PoolNames, CPUs : Int])
      BY CasesAssumption
    <2>4. case.processes # <<>> => 1 \in 1 .. Len(case.processes)
      BY <2>3
    <2> QED
      BY <2>1, <2>2, <2>4 DEF TypesInside
  <1>2. EnvOfPools
    BY DEF EnvOfPools, NoEnv
  <1>3. TypeOK
    <2>1. 0 \in 0 .. MaxPolls
      BY CasesAssumption
    <2>2. \A v \in DOMAIN env : env[v] \subseteq CPUs
      <3>1. DOMAIN env = DOMAIN NoEnv /\ AnswerOfPools(env)
        BY <1>2 DEF EnvOfPools, AnswerOfPools
      <3> QED
        BY <3>1, EnvCpus, OfferedCpusType
    <2>3. affinity \in [Threads -> SUBSET CPUs] /\ cpuset \subseteq CPUs
      BY NodeNonempty
    <2>4. \A r \in Requested : devs[r] \subseteq DeviceIDs(r) \cup {0}
      BY DEF Requested
    <2>5. \A i \in 1 .. Len(started) : started[i].cpus \subseteq CPUs /\ started[i].mask \subseteq CPUs
      BY <1>1, StartedType DEF TypesInside
    <2> QED
      BY <2>1, <2>2, <2>3, <2>4, <2>5 DEF TypeOK, Requested
  <1>4. AffinityInside
    BY NodeNonempty DEF AffinityInside
  <1>5. WrittenSet /\ ListsOfEnv
    BY DEF WrittenSet, ListsOfEnv
  <1> QED
    BY <1>1, <1>2, <1>3, <1>4, <1>5 DEF IInv

(* The part of the state that the allocation of devices does not touch.    *)
starterVars == <<case, cpuset, polls, excl, shared, index, thread, affinity, mask, started>>

(* Granting devices: the plugin's answer reaches the environment.          *)
LEMMA GrantedIInv ==
  ASSUME IInv, pc = "admit", NEW r \in todo, NEW ids \in SUBSET Nat, NEW said,
         ids \subseteq DeviceIDs(r) \cup {0},
         DeterminePoolType(r) # SharedPoolID => ids \in SUBSET DeviceIDs(r),
         Granted(r, ids, said), UNCHANGED starterVars
  PROVE  IInv'
  <1> USE DEF starterVars
  <1>1. r \in Requested /\ case \in Cases /\ Requested' = Requested
    BY DEF IInv, TypeOK, Requested
  <1>2. r \in OfferedPools
    BY <1>1, CasesAssumption DEF Requested, OfferedPools
  <1>3. AnswerOfPools(Allocate(r, ids))
    BY <1>2, AllocateType
  <1>4. env' \in MergedEnvs(Allocate(r, ids)) /\ EnvOfPools
    BY DEF Granted, IInv
  <1>5. DOMAIN env' = DOMAIN NoEnv /\ AnswerOfPools(env')
    BY <1>3, <1>4, MergedType
  <1>6. \A v \in DOMAIN env' : env'[v] \subseteq CPUs
    BY <1>5, EnvCpus, OfferedCpusType
  <1>7. devs' = [devs EXCEPT ![r] = ids] /\ devs \in [Requested -> SUBSET Nat]
    BY DEF Granted, IInv, TypesInside
  <1>8. TypesInside'
    BY <1>1, <1>7 DEF IInv, TypesInside
  <1>9. \A q \in Requested : devs'[q] \subseteq DeviceIDs(q) \cup {0}
    BY <1>1, <1>7 DEF IInv, TypeOK
  <1>10. pc' \in {"poll", "admit"} /\ todo' \subseteq todo
    BY DEF Granted
  <1>11. TypeOK'
    BY <1>1, <1>5, <1>6, <1>9, <1>10 DEF IInv, TypeOK
  <1>12. EnvOfPools'
    BY <1>5 DEF EnvOfPools, AnswerOfPools
  <1>13. AffinityInside'
    BY DEF IInv, AffinityInside
  <1>14. cpuset = AllCpus
    BY DEF IInv, WrittenSet
  <1>15. WrittenSet'
    BY <1>14 DEF WrittenSet, AllCpus
  <1>16. ListsOfEnv'
    BY <1>10 DEF IInv, ListsOfEnv
  <1> QED
    BY <1>8, <1>11, <1>12, <1>13, <1>15, <1>16 DEF IInv

LEMMA KubeletIInv == IInv /\ Kubelet => IInv'
  <1> SUFFICES ASSUME IInv, NEW r \in Requested,
                      AllocatePool(r) \/ AskAndAllocatePool(r) \/ AskForSharedPool(r)
               PROVE  IInv'
    BY DEF Kubelet
  <1>1. r \in PoolNames
    BY CasesAssumption DEF IInv, TypeOK, Requested
  <1>2. DeviceIDs(r) \subseteq Nat
    BY <1>1, DeviceIDsType
  <1>3. CASE AllocatePool(r)
    <2>1. pc = "admit" /\ r \in todo /\ UNCHANGED starterVars
      BY <1>3 DEF AllocatePool, starterVars
    <2>2. CASE DeterminePoolType(r) = SharedPoolID
      <3>1. Granted(r, {0}, {})
        BY <1>3, <2>2 DEF AllocatePool
      <3>2. {0} \in SUBSET Nat
        OBVIOUS
      <3> QED
        BY <2>1, <2>2, <3>1, <3>2, GrantedIInv
    <2>3. CASE DeterminePoolType(r) # SharedPoolID
      <3>1. PICK available \in SUBSET DeviceIDs(r) :
              \E ids \in Grants(r, {}, available) : Granted(r, ids, {})
        BY <1>3, <2>3 DEF AllocatePool
      <3>2. PICK ids \in Grants(r, {}, available) : Granted(r, ids, {})
        BY <3>1
      <3>3. ids \in SUBSET DeviceIDs(r) /\ ids \in SUBSET Nat
        BY <1>2 DEF Grants
      <3> QED
        BY <2>1, <2>3, <3>2, <3>3, GrantedIInv
    <2> QED
      BY <2>2, <2>3
  <1>4. CASE AskAndAllocatePool(r)
    <2>1. pc = "admit" /\ r \in todo /\ UNCHANGED starterVars /\ DeterminePoolType(r) # SharedPoolID
      BY <1>4 DEF AskAndAllocatePool, starterVars
    <2>2. PICK available \in SUBSET DeviceIDs(r) :
            \E preferred \in GetPreferredAllocation(available, case.requests[r]) :
              \E ids \in Grants(r, Range(preferred), available) :
                Granted(r, ids, {[pool |-> r, available |-> available, ids |-> preferred]})
      BY <1>4 DEF AskAndAllocatePool
    <2>3. PICK preferred \in GetPreferredAllocation(available, case.requests[r]) :
            \E ids \in Grants(r, Range(preferred), available) :
              Granted(r, ids, {[pool |-> r, available |-> available, ids |-> preferred]})
      BY <2>2
    <2>4. PICK ids \in Grants(r, Range(preferred), available) :
            Granted(r, ids, {[pool |-> r, available |-> available, ids |-> preferred]})
      BY <2>3
    <2>5. ids \in SUBSET DeviceIDs(r) /\ ids \in SUBSET Nat
      BY <1>2 DEF Grants
    <2> QED
      BY <2>1, <2>4, <2>5, GrantedIInv
  <1>5. CASE AskForSharedPool(r)
    <2> USE <1>5 DEF AskForSharedPool, allocVars
    <2>1. cpuset = AllCpus
      BY DEF IInv, WrittenSet
    <2>2. Requested' = Requested
      BY DEF Requested
    <2>3. TypeOK' /\ TypesInside'
      BY <2>2 DEF IInv, TypeOK, TypesInside
    <2>4. EnvOfPools' /\ AffinityInside' /\ ListsOfEnv'
      BY DEF IInv, EnvOfPools, AffinityInside, ListsOfEnv
    <2>5. WrittenSet'
      BY <2>1 DEF WrittenSet, AllCpus
    <2> QED
      BY <2>3, <2>4, <2>5 DEF IInv
  <1> QED
    BY <1>3, <1>4, <1>5


(* A write changes the CPUs of the started processes and nothing else.     *)
LEMMA WrittenStarted ==
  ASSUME TypesInside, CpuSetterWrites, cpuset' \subseteq CPUs
  PROVE  /\ started' \in Seq(StartedProcesses) /\ Len(started') = Len(started)
         /\ Len(started) \in Nat
         /\ \A i \in 1 .. Len(started) :
              /\ started'[i].PoolName = started[i].PoolName
              /\ started'[i].mask = started[i].mask
              /\ started'[i].cpus = cpuset'
  <1> DEFINE n == Len(started)
             new(i) == [started[i] EXCEPT !.cpus = cpuset']
  <1>1. started \in Seq(StartedProcesses) /\ n \in Nat
    BY DEF TypesInside
  <1>2. \A i \in 1 .. n : started[i] \in StartedProcesses
    BY <1>1
  <1>3. ASSUME NEW i \in 1 .. n
        PROVE  /\ new(i) \in StartedProcesses
               /\ new(i).PoolName = started[i].PoolName
               /\ new(i).mask = started[i].mask
               /\ new(i).cpus = cpuset'
    BY <1>2, <1>3 DEF StartedProcesses
  <1>4. started' = [i \in 1 .. n |-> new(i)]
    BY DEF CpuSetterWrites
  <1> HIDE DEF n, new
  <1>5. \A i \in 1 .. n : started'[i] = new(i)
    BY <1>4
  <1>6. started' \in [1 .. n -> StartedProcesses]
    BY <1>3, <1>4
  <1>7. started' \in Seq(StartedProcesses) /\ Len(started') = n
    BY <1>1, <1>6
  <1> QED
    BY <1>1, <1>3, <1>5, <1>7 DEF n

LEMMA CpuSetterIInv == IInv /\ CpuSetterWrites => IInv'
  <1> SUFFICES ASSUME IInv, CpuSetterWrites PROVE IInv'
    OBVIOUS
  <1>0. /\ UNCHANGED <<case, todo, devs, answers, env, pc, polls, excl, shared, index, thread, mask>>
        /\ pc \notin {"admit", "refused"}
        /\ affinity' = [t \in Threads |-> cpuset'] /\ cpuset' \in WrittenSets
    BY DEF CpuSetterWrites, allocVars
  <1>1. Requested' = Requested /\ OwnSets' = OwnSets /\ WrittenSets' = WrittenSets
    BY <1>0 DEF Requested, OwnSets, WrittenSets, DefaultSets
  <1>2. cpuset' \subseteq CPUs /\ cpuset' # {}
    BY <1>0, OwnSetsType, DefaultSetsType DEF IInv, TypesInside, WrittenSets
  <1>3. affinity' \in [Threads -> SUBSET CPUs]
    BY <1>0, <1>2
  <1>4. started' \in Seq(StartedProcesses) /\ Len(started') = Len(started)
    BY <1>2, WrittenStarted DEF IInv
  <1>5. \A i \in 1 .. Len(started') :
          started'[i].cpus \subseteq CPUs /\ started'[i].mask \subseteq CPUs
    BY <1>4, StartedType
  <1>6. TypeOK'
    BY <1>0, <1>1, <1>2, <1>3, <1>5 DEF IInv, TypeOK
  <1>7. TypesInside'
    BY <1>0, <1>1, <1>4 DEF IInv, TypesInside
  <1>8. AffinityInside'
    BY <1>0, <1>2 DEF AffinityInside
  <1>9. EnvOfPools'
    BY <1>0 DEF IInv, EnvOfPools
  <1>10. ListsOfEnv'
    <2>1. started = <<>> => started' = <<>>
      BY DEF CpuSetterWrites
    <2> QED
      BY <1>0, <2>1 DEF IInv, ListsOfEnv
  <1>11. WrittenSet'
    BY <1>0, <1>1 DEF WrittenSet
  <1> QED
    BY <1>6, <1>7, <1>8, <1>9, <1>10, <1>11 DEF IInv

LEMMA MigrateIInv == IInv /\ Migrate => IInv'
  <1> SUFFICES ASSUME IInv, Migrate PROVE IInv'
    OBVIOUS
  <1> USE DEF Migrate, allocVars
  <1>1. Requested' = Requested /\ OwnSets' = OwnSets /\ WrittenSets' = WrittenSets
    BY DEF Requested, OwnSets, WrittenSets, DefaultSets
  <1>2. TypeOK' /\ TypesInside'
    BY <1>1 DEF IInv, TypeOK, TypesInside
  <1>3. AffinityInside' /\ EnvOfPools' /\ ListsOfEnv' /\ WrittenSet'
    BY <1>1 DEF IInv, AffinityInside, EnvOfPools, ListsOfEnv, WrittenSet
  <1> QED
    BY <1>2, <1>3 DEF IInv

LEMMA PollIInv == IInv /\ (PollCPUSetCompletion \/ GiveUp) => IInv'
  <1> SUFFICES ASSUME IInv, PollCPUSetCompletion \/ GiveUp PROVE IInv'
    OBVIOUS
  <1>1. UNCHANGED <<case, todo, devs, answers, env, cpuset, index, thread, affinity, mask, started>>
    BY DEF PollCPUSetCompletion, GiveUp, allocVars
  <1>2. Requested' = Requested /\ OwnSets' = OwnSets /\ WrittenSets' = WrittenSets
    BY <1>1 DEF Requested, OwnSets, WrittenSets, DefaultSets
  <1>3. /\ pc = "poll" /\ pc' \in {"poll", "pin", "exec", "noCgroup", "exited"}
        /\ pc' = "pin" => case.processes # <<>>
    BY DEF PollCPUSetCompletion, GiveUp, AfterPolls
  <1>4. polls' \in 0 .. MaxPolls
    BY CasesAssumption DEF PollCPUSetCompletion, GiveUp, IInv, TypeOK
  <1>5. /\ excl' \subseteq env.exclusive /\ shared' \subseteq env.shared
        /\ pc' = "poll" => excl' = excl /\ shared' = shared
    BY DEF PollCPUSetCompletion, GiveUp, IInv, ListsOfEnv, ListOf, AfterPolls
  <1>6. env.exclusive \subseteq CPUs /\ env.shared \subseteq CPUs
    BY OfferedCpusType, SharedCPUsType DEF IInv, EnvOfPools
  <1>7. TypeOK'
    BY <1>1, <1>2, <1>3, <1>4, <1>5, <1>6 DEF IInv, TypeOK
  <1>8. TypesInside' /\ AffinityInside' /\ EnvOfPools'
    BY <1>1, <1>2 DEF IInv, TypesInside, AffinityInside, EnvOfPools
  <1>9. ListsOfEnv' /\ WrittenSet'
    BY <1>1, <1>2, <1>3, <1>5 DEF IInv, ListsOfEnv, WrittenSet
  <1> QED
    BY <1>7, <1>8, <1>9 DEF IInv

(* sched_setaffinity leaves every thread some CPU of the cpuset.           *)
LEMMA SchedIInv ==
  ASSUME IInv, NEW m \in SUBSET CPUs, SchedSetaffinity(m), UNCHANGED cpuset
  PROVE  mask' = m /\ affinity' \in [Threads -> SUBSET CPUs] /\ AffinityInside'
  <1>1. thread \in Threads /\ affinity \in [Threads -> SUBSET CPUs] /\ cpuset \subseteq CPUs
    BY DEF IInv, TypeOK
  <1>2. CASE m \cap cpuset = {}
    BY <1>1, <1>2 DEF SchedSetaffinity, IInv, AffinityInside
  <1>3. CASE m \cap cpuset # {}
    <2>1. affinity' = [affinity EXCEPT ![thread] = m \cap cpuset]
      BY <1>3 DEF SchedSetaffinity
    <2>2. \A t \in Threads : affinity'[t] = IF t = thread THEN m \cap cpuset ELSE affinity[t]
      BY <1>1, <2>1
    <2>3. affinity' \in [Threads -> SUBSET CPUs]
      BY <1>1, <2>1
    <2>4. AffinityInside'
      BY <1>3, <2>2 DEF IInv, AffinityInside
    <2> QED
      BY <2>3, <2>4 DEF SchedSetaffinity
  <1> QED
    BY <1>2, <1>3

(* The three ways through setAffinity.                                     *)
LEMMA SetAffinityCases ==
  ASSUME IInv, SetAffinity
  PROVE  \/ /\ ~IsExclusive(Process) /\ SchedSetaffinity(shared) /\ pc' = "start" /\ excl' = excl
         \/ /\ IsExclusive(Process) /\ SchedSetaffinity(FirstCpus(excl, Process.CPUs))
            /\ pc' = "start" /\ excl' = excl \ mask'
         \/ pc' = "exited" /\ UNCHANGED <<excl, mask, affinity>>
  BY DEF SetAffinity, IsExclusive

LEMMA FirstCpusType == \A S, n : FirstCpus(S, n) \subseteq S
  BY DEF FirstCpus

LEMMA SetAffinityIInv == IInv /\ SetAffinity => IInv'
  <1> SUFFICES ASSUME IInv, SetAffinity PROVE IInv'
    OBVIOUS
  <1>1. UNCHANGED <<case, todo, devs, answers, env, cpuset, polls, shared, index, thread, started>>
    BY DEF SetAffinity, allocVars
  <1>2. Requested' = Requested /\ OwnSets' = OwnSets /\ WrittenSets' = WrittenSets
    BY <1>1 DEF Requested, OwnSets, WrittenSets, DefaultSets
  <1>3. pc = "pin" /\ pc' \in {"start", "exited"} /\ excl' \subseteq excl
    <2>1. pc = "pin"
      BY DEF SetAffinity
    <2> QED
      BY <2>1, SetAffinityCases
  <1>4. excl \subseteq CPUs /\ shared \subseteq CPUs
    BY DEF IInv, TypeOK
  <1>5. mask' \subseteq CPUs /\ affinity' \in [Threads -> SUBSET CPUs] /\ AffinityInside'
    <2>1. CASE SchedSetaffinity(shared)
      BY <1>1, <1>4, <2>1, SchedIInv
    <2>2. CASE SchedSetaffinity(FirstCpus(excl, Process.CPUs))
      BY <1>1, <1>4, <2>2, SchedIInv, FirstCpusType
    <2>3. CASE UNCHANGED <<mask, affinity>>
      BY <1>1, <2>3 DEF IInv, TypeOK, AffinityInside
    <2> QED
      BY <2>1, <2>2, <2>3, SetAffinityCases
  <1>6. case.processes # <<>>
    BY <1>3 DEF IInv, ListsOfEnv
  <1>7. TypeOK'
    BY <1>1, <1>2, <1>3, <1>4, <1>5 DEF IInv, TypeOK
  <1>8. TypesInside' /\ EnvOfPools'
    BY <1>1, <1>2 DEF IInv, TypesInside, EnvOfPools
  <1>9. ListsOfEnv' /\ WrittenSet'
    BY <1>1, <1>2, <1>3, <1>6 DEF IInv, ListsOfEnv, WrittenSet
  <1> QED
    BY <1>5, <1>7, <1>8, <1>9 DEF IInv


(* A started process gets the mask and the CPUs of the thread.             *)
LEMMA StartsType ==
  ASSUME IInv, NEW name \in PoolNames \cup {<<>>}, Starts(name)
  PROVE  /\ started' \in Seq(StartedProcesses)
         /\ Len(started) \in Nat /\ Len(started') = Len(started) + 1
         /\ \A i \in 1 .. Len(started) : started'[i] = started[i]
         /\ started'[Len(started) + 1] =
              [PoolName |-> name, mask |-> mask, cpus |-> affinity[thread]]
  <1> DEFINE p == [PoolName |-> name, mask |-> mask, cpus |-> affinity[thread]]
  <1>1. p \in StartedProcesses
    BY DEF StartedProcesses, IInv, TypeOK
  <1>2. started \in Seq(StartedProcesses) /\ started' = Append(started, p)
    BY DEF IInv, TypesInside, Starts
  <1> HIDE DEF p
  <1>3. /\ started' \in Seq(StartedProcesses)
        /\ Len(started') = Len(started) + 1
        /\ \A i \in 1 .. Len(started) : started'[i] = started[i]
        /\ started'[Len(started) + 1] = p
    BY <1>1, <1>2, StartedAppend
  <1>4. Len(started) \in Nat
    BY <1>2
  <1> QED
    BY <1>3, <1>4 DEF p

LEMMA ProcessType ==
  ASSUME IInv, case.processes # <<>>
  PROVE  Process.PoolName \in PoolNames /\ Len(case.processes) \in Nat
  <1>1. case.processes \in Seq([PoolName : PoolNames, CPUs : Int])
    BY CasesAssumption DEF IInv, TypeOK
  <1>2. index \in 1 .. Len(case.processes)
    BY DEF IInv, TypesInside
  <1>3. \A S : \A q \in Seq(S) : \A i \in 1 .. Len(q) : q[i] \in S
    OBVIOUS
  <1>4. case.processes[index] \in [PoolName : PoolNames, CPUs : Int]
    BY <1>1, <1>2, <1>3, Zenon
  <1> QED
    BY <1>1, <1>4 DEF Process

(* Starting a process or not, the starter leaves the rest alone.           *)
LEMMA StartIInv == IInv /\ (StartProcess \/ ExecCommand) => IInv'
  <1> SUFFICES ASSUME IInv, StartProcess \/ ExecCommand PROVE IInv'
    OBVIOUS
  <1>1. /\ UNCHANGED <<case, todo, devs, answers, env, cpuset, polls, excl, shared>>
        /\ UNCHANGED <<thread, affinity, mask>>
    BY DEF StartProcess, ExecCommand, allocVars
  <1>2. Requested' = Requested /\ OwnSets' = OwnSets /\ WrittenSets' = WrittenSets
    BY <1>1 DEF Requested, OwnSets, WrittenSets, DefaultSets
  <1>3. /\ pc \in {"start", "exec"} /\ pc' \in {"running", "exited", "exec", "pin"}
        /\ pc = "start" => case.processes # <<>>
        /\ pc' = "pin" => pc = "start"
    BY DEF StartProcess, ExecCommand, IInv, ListsOfEnv
  <1>4. started' \in Seq(StartedProcesses)
    <2>1. CASE UNCHANGED started
      BY <2>1 DEF IInv, TypesInside
    <2>2. CASE StartProcess /\ Starts(Process.PoolName)
      <3>1. Process.PoolName \in PoolNames \cup {<<>>}
        BY <1>3, <2>2, ProcessType DEF StartProcess
      <3> QED
        BY <2>2, <3>1, StartsType
    <2>3. CASE Starts(<<>>)
      BY <2>3, StartsType
    <2> QED
      BY <2>1, <2>2, <2>3 DEF StartProcess, ExecCommand
  <1>5. case.processes # <<>> => index' \in 1 .. Len(case.processes)
    BY <1>3, ProcessType DEF StartProcess, ExecCommand, IInv, TypesInside
  <1>6. index' \in Nat \ {0}
    BY DEF StartProcess, ExecCommand, IInv, TypeOK
  <1>7. \A i \in 1 .. Len(started') :
          started'[i].cpus \subseteq CPUs /\ started'[i].mask \subseteq CPUs
    BY <1>4, StartedType
  <1>8. TypeOK'
    BY <1>1, <1>2, <1>3, <1>6, <1>7 DEF IInv, TypeOK
  <1>9. TypesInside' /\ EnvOfPools' /\ AffinityInside'
    BY <1>1, <1>2, <1>4, <1>5 DEF IInv, TypesInside, EnvOfPools, AffinityInside
  <1>10. ListsOfEnv' /\ WrittenSet'
    BY <1>1, <1>2, <1>3 DEF IInv, ListsOfEnv, WrittenSet
  <1> QED
    BY <1>8, <1>9, <1>10 DEF IInv

LEMMA StutterIInv == IInv /\ UNCHANGED vars => IInv'
  <1> SUFFICES ASSUME IInv, UNCHANGED vars PROVE IInv'
    OBVIOUS
  <1> USE DEF vars, allocVars
  <1>1. Requested' = Requested /\ OwnSets' = OwnSets /\ WrittenSets' = WrittenSets
    BY DEF Requested, OwnSets, WrittenSets, DefaultSets
  <1>2. TypeOK' /\ TypesInside'
    BY <1>1 DEF IInv, TypeOK, TypesInside
  <1>3. AffinityInside' /\ EnvOfPools' /\ ListsOfEnv' /\ WrittenSet'
    BY <1>1 DEF IInv, AffinityInside, EnvOfPools, ListsOfEnv, WrittenSet
  <1> QED
    BY <1>2, <1>3 DEF IInv

LEMMA NextIInv == IInv /\ [Next]_vars => IInv'
  BY KubeletIInv, CpuSetterIInv, MigrateIInv, PollIInv, SetAffinityIInv, StartIInv, StutterIInv
     DEF Next, Starter

THEOREM Invariance == Spec => []IInv
  BY InitIInv, NextIInv, PTL DEF Spec

(* The type invariant: device ids stay in the plugin's range, and every    *)
(* list, mask and cpuset consists of CPUs of the node (Allocate, main).    *)
THEOREM TypeCorrect == Spec => []TypeOK
  <1>1. IInv => TypeOK
    BY DEF IInv
  <1> QED
    BY <1>1, Invariance, PTL


-----------------------------------------------------------------------------
(* The container is confined before its entrypoint runs.                   *)

(* What the starter waits for consists of CPUs the plugin hands out.       *)
LEMMA ExpectedType ==
  ASSUME IInv
  PROVE  ExpectedCpus \subseteq OfferedCpus
  <1>1. /\ env.exclusive \subseteq OfferedCpus /\ env.shared \subseteq OfferedCpus
        /\ env.numa \subseteq OfferedCpus
    BY OfferedCpusType, SharedCPUsType DEF IInv, EnvOfPools
  <1>2. ExpectedCpus \in {{}, env.numa, env.exclusive \cup env.shared, env.exclusive, env.shared}
    BY DEF ExpectedCpus
  <1> QED
    BY <1>1, <1>2

(* So it is neither the whole node nor a default pool, and a container in  *)
(* it was put there by CPUSetter.                                          *)
LEMMA ExpectedIsOwn ==
  ASSUME DefaultApart, IInv, ExpectedCpus # {}, ExpectedCpus = cpuset
  PROVE  cpuset \in OwnSets /\ cpuset \in WrittenSets
  <1>1. cpuset \subseteq OfferedCpus /\ cpuset # {}
    BY ExpectedType
  <1>2. cpuset \notin DefaultSets \cup {AllCpus}
    BY <1>1 DEF DefaultApart, OfferedCpus
  <1> QED
    BY <1>2 DEF IInv, WrittenSet, WrittenSets

(* After the allocation neither side's computation changes any more.       *)
LEMMA ExpectedFrame ==
  ASSUME UNCHANGED <<case, devs, env>>
  PROVE  ExpectedCpus' = ExpectedCpus /\ OwnSets' = OwnSets /\ WrittenSets' = WrittenSets
  <1>1. Requested' = Requested /\ OwnSets' = OwnSets
    BY DEF Requested, OwnSets
  <1>2. WrittenSets' = WrittenSets
    BY <1>1 DEF WrittenSets, DefaultSets
  <1>3. ExpectedCpus' = ExpectedCpus
    BY DEF ExpectedCpus
  <1> QED
    BY <1>1, <1>2, <1>3

LEMMA NextProvisioned ==
  ASSUME DefaultApart, IInv, Provisioned, [Next]_vars
  PROVE  Provisioned'
  <1> DEFINE inside(q) == \A i \in 1 .. Len(q) : q[i].cpus # {} /\ q[i].cpus \subseteq cpuset
  <1>1. CASE Kubelet
    <2>1. pc = "admit" /\ pc' \in {"admit", "refused", "poll"} /\ UNCHANGED <<started, cpuset>>
      BY <1>1 DEF Kubelet, AllocatePool, AskAndAllocatePool, AskForSharedPool, Granted
    <2>2. started = <<>>
      BY <2>1 DEF IInv, ListsOfEnv
    <2> QED
      BY <2>1, <2>2 DEF Provisioned
  <1>2. CASE CpuSetterWrites
    <2>1. UNCHANGED <<case, devs, env, pc>> /\ cpuset' \in WrittenSets
      BY <1>2 DEF CpuSetterWrites, allocVars
    <2>2. ExpectedCpus' = ExpectedCpus /\ OwnSets' = OwnSets /\ WrittenSets' = WrittenSets
      BY <2>1, ExpectedFrame
    <2>3. cpuset' \subseteq CPUs /\ cpuset' # {}
      BY <2>1, OwnSetsType, DefaultSetsType DEF IInv, TypesInside, WrittenSets
    <2>4. /\ Len(started') = Len(started) /\ Len(started) \in Nat
          /\ \A i \in 1 .. Len(started) : started'[i].cpus = cpuset'
      BY <1>2, <2>3, WrittenStarted DEF IInv
    <2>5. started' # <<>> => started # <<>>
      BY <1>2 DEF CpuSetterWrites
    <2> QED
      BY <2>1, <2>2, <2>3, <2>4, <2>5 DEF Provisioned
  <1>3. CASE UNCHANGED <<case, devs, env, cpuset, started>> /\ pc' = pc
    BY <1>3, ExpectedFrame DEF Provisioned
  <1>4. CASE PollCPUSetCompletion
    <2>1. UNCHANGED <<case, devs, env, cpuset, started>> /\ pc = "poll"
      BY <1>4 DEF PollCPUSetCompletion, allocVars
    <2>2. ExpectedCpus' = ExpectedCpus /\ OwnSets' = OwnSets /\ WrittenSets' = WrittenSets
      BY <2>1, ExpectedFrame
    <2>3. started = <<>>
      BY <2>1 DEF IInv, ListsOfEnv
    <2>4. pc' \in {"poll", "noCgroup"} \/ (ExpectedCpus # {} /\ ExpectedCpus = cpuset)
      BY <1>4 DEF PollCPUSetCompletion, Completed
    <2>5. pc' \in {"poll", "noCgroup"} \/ (ExpectedCpus \in OwnSets /\ cpuset \in WrittenSets)
      BY <2>4, ExpectedIsOwn
    <2> QED
      BY <2>1, <2>2, <2>3, <2>5 DEF Provisioned
  <1>5. CASE GiveUp \/ SetAffinity
    <2>1. UNCHANGED <<case, devs, env, cpuset, started>>
      BY <1>5 DEF GiveUp, SetAffinity, allocVars
    <2>2. ExpectedCpus' = ExpectedCpus /\ OwnSets' = OwnSets /\ WrittenSets' = WrittenSets
      BY <2>1, ExpectedFrame
    <2>3. pc' = "exited" \/ pc = "pin"
      BY <1>5 DEF GiveUp, SetAffinity
    <2> QED
      BY <2>1, <2>2, <2>3 DEF Provisioned
  <1>6. CASE StartProcess \/ ExecCommand
    <2>1. UNCHANGED <<case, devs, env, cpuset>> /\ pc \in {"start", "exec"}
      BY <1>6 DEF StartProcess, ExecCommand, allocVars
    <2>2. ExpectedCpus' = ExpectedCpus /\ OwnSets' = OwnSets /\ WrittenSets' = WrittenSets
      BY <2>1, ExpectedFrame
    <2>3. ExpectedCpus \in OwnSets /\ cpuset \in WrittenSets /\ inside(started)
      BY <2>1 DEF Provisioned
    <2>4. ASSUME NEW name \in PoolNames \cup {<<>>}, Starts(name)
          PROVE  inside(started')
      <3>1. affinity[thread] # {} /\ affinity[thread] \subseteq cpuset
        BY DEF IInv, TypeOK, AffinityInside
      <3>2. /\ Len(started) \in Nat /\ Len(started') = Len(started) + 1
            /\ \A i \in 1 .. Len(started) : started'[i] = started[i]
            /\ started'[Len(started) + 1] =
                 [PoolName |-> name, mask |-> mask, cpus |-> affinity[thread]]
        BY <2>4, StartsType, Zenon
      <3>3. \A i \in 1 .. Len(started') : i \in 1 .. Len(started) \/ i = Len(started) + 1
        BY <3>2
      <3> QED
        BY <2>3, <3>1, <3>2, <3>3
    <2>5. inside(started')
      <3>1. CASE UNCHANGED started
        BY <2>3, <3>1
      <3>2. CASE StartProcess /\ Starts(Process.PoolName)
        <4>1. Process.PoolName \in PoolNames
          BY <3>2, ProcessType DEF StartProcess, IInv, ListsOfEnv
        <4> QED
          BY <2>4, <3>2, <4>1
      <3>3. CASE Starts(<<>>)
        BY <2>4, <3>3
      <3> QED
        BY <1>6, <3>1, <3>2, <3>3 DEF StartProcess, ExecCommand
    <2> QED
      BY <2>1, <2>2, <2>3, <2>5 DEF Provisioned
  <1>7. Migrate \/ UNCHANGED vars => UNCHANGED <<case, devs, env, cpuset, started>> /\ pc' = pc
    BY DEF Migrate, vars, allocVars
  <1> QED
    BY <1>1, <1>2, <1>3, <1>4, <1>5, <1>6, <1>7 DEF Next, Starter

(* "The container's entrypoint is only executed once the proper CPU        *)
(* configuration has been provisioned" (README.md), for every              *)
(* configuration whose default pools and whose node are not made up of     *)
(* CPUs of the other pools and however often CPUSetter writes the cpuset:  *)
(* pollCPUSetCompletion cannot mistake what kubelet, or CPUSetter after a  *)
(* restart, put there for the container's own set, and no process is ever  *)
(* outside a set that CPUSetter wrote.                                     *)
THEOREM EntrypointProvisionedThm ==
  ASSUME DefaultApart
  PROVE  Spec => []EntrypointProvisioned
  <1>1. Init => Provisioned
    BY DEF Init, Provisioned
  <1>2. IInv /\ Provisioned /\ [Next]_vars => Provisioned'
    BY NextProvisioned
  <1>3. Provisioned => EntrypointProvisioned
    BY DEF Provisioned, EntrypointProvisioned, WrittenSets
  <1> QED
    BY <1>1, <1>2, <1>3, Invariance, PTL DEF Spec


-----------------------------------------------------------------------------
(* No exclusive CPU is handed out twice.                                   *)

LEMMA EnvApart ==
  ASSUME SharedApart, IInv
  PROVE  excl \cap shared = {} /\ env.exclusive \cap env.shared = {}
  <1>1. ExclusiveCpus \cap SharedCPUs = {}
    BY DEF SharedApart, ExclusiveCpus
  <1> QED
    BY <1>1 DEF IInv, EnvOfPools, ListsOfEnv

(* Nothing is started and no list changes; a write of CPUSetter leaves the *)
(* masks alone.                                                            *)
LEMMA FrameHandedOutOnce ==
  ASSUME HandedOutOnce, UNCHANGED <<case, env, excl, index, mask>>,
         Len(started') = Len(started),
         \A i \in 1 .. Len(started) : /\ started'[i].PoolName = started[i].PoolName
                                      /\ started'[i].mask = started[i].mask,
         Len(started) \in Nat,
         pc' = "start" => pc = "start", pc' = "exec" => pc = "exec"
  PROVE  HandedOutOnce'
  <1>1. Process' = Process
    BY DEF Process
  <1>2. \A i \in 1 .. Len(started) : \A j \in 1 .. i - 1 : j \in 1 .. Len(started)
    OBVIOUS
  <1>3. MasksDisjoint'
    BY <1>2 DEF HandedOutOnce, MasksDisjoint, IsExclusive
  <1>4. \A j \in 1 .. Len(started') : started'[j].mask \cap excl' = {}
    BY DEF HandedOutOnce
  <1>5. pc' \in {"start", "exec"} => mask' \cap excl' = {}
    BY DEF HandedOutOnce
  <1>6. pc' = "start" /\ IsExclusive(Process') =>
          /\ mask' \subseteq env'.exclusive
          /\ \A j \in 1 .. Len(started') : started'[j].mask \cap mask' = {}
    BY <1>1 DEF HandedOutOnce
  <1> QED
    BY <1>3, <1>4, <1>5, <1>6 DEF HandedOutOnce, IsExclusive

(* While nothing runs there is nothing to overlap with.                    *)
LEMMA NoneHandedOut ==
  ASSUME started' = <<>>, mask' = {}
  PROVE  HandedOutOnce'
  <1>1. 1 .. Len(started') = {}
    OBVIOUS
  <1> QED
    BY <1>1 DEF HandedOutOnce, MasksDisjoint

LEMMA SetAffinityHandedOut ==
  ASSUME SharedApart, IInv, HandedOutOnce, SetAffinity
  PROVE  HandedOutOnce'
  <1>1. UNCHANGED <<case, env, shared, index, started, cpuset>>
    BY DEF SetAffinity, allocVars
  <1>2. Process' = Process
    BY <1>1 DEF Process
  <1>3. excl \subseteq env.exclusive
    BY DEF IInv, ListsOfEnv
  <1>4. \A j \in 1 .. Len(started) : started[j].mask \cap excl = {}
    BY DEF HandedOutOnce
  <1>5. MasksDisjoint'
    BY <1>1 DEF HandedOutOnce, MasksDisjoint, IsExclusive
  <1>6. CASE ~IsExclusive(Process) /\ SchedSetaffinity(shared) /\ excl' = excl
    <2>1. mask' \cap excl = {}
      BY <1>6, EnvApart DEF SchedSetaffinity
    <2> QED
      BY <1>1, <1>2, <1>4, <1>5, <1>6, <2>1 DEF HandedOutOnce, IsExclusive
  <1>7. CASE SchedSetaffinity(FirstCpus(excl, Process.CPUs)) /\ excl' = excl \ mask'
    <2>1. mask' \subseteq excl
      BY <1>7, FirstCpusType DEF SchedSetaffinity
    <2>2. mask' \cap excl' = {} /\ mask' \subseteq env.exclusive
      BY <1>3, <1>7, <2>1
    <2>3. \A j \in 1 .. Len(started) : started[j].mask \cap mask' = {}
      BY <1>4, <2>1
    <2>4. \A j \in 1 .. Len(started) : started[j].mask \cap excl' = {}
      BY <1>4, <1>7
    <2> QED
      BY <1>1, <1>5, <2>2, <2>3, <2>4 DEF HandedOutOnce
  <1>8. CASE pc' = "exited" /\ UNCHANGED <<excl, mask>>
    <2>1. Len(started) \in Nat
      BY DEF IInv, TypesInside
    <2> QED
      BY <1>1, <1>8, <2>1, FrameHandedOutOnce
  <1> QED
    BY <1>6, <1>7, <1>8, SetAffinityCases

LEMMA StartProcessHandedOut ==
  ASSUME IInv, HandedOutOnce, StartProcess
  PROVE  HandedOutOnce'
  <1>1. UNCHANGED <<case, env, excl, mask>> /\ pc = "start" /\ pc' # "start"
    BY DEF StartProcess, allocVars
  <1>2. CASE UNCHANGED started
    BY <1>1, <1>2 DEF HandedOutOnce, MasksDisjoint, IsExclusive
  <1>3. CASE Starts(Process.PoolName)
    <2> DEFINE n == Len(started)
               p == [PoolName |-> Process.PoolName, mask |-> mask, cpus |-> affinity[thread]]
    <2>1. Process.PoolName \in PoolNames \cup {<<>>}
      BY ProcessType DEF StartProcess, IInv, ListsOfEnv
    <2>2. /\ n \in Nat /\ Len(started') = n + 1
          /\ \A i \in 1 .. n : started'[i] = started[i]
          /\ started'[n + 1] = p
      BY <1>3, <2>1, StartsType, Zenon
    <2>3. mask \cap excl = {}
      BY <1>1 DEF HandedOutOnce
    <2>4. IsExclusive(p) => /\ mask \subseteq env.exclusive
                            /\ \A j \in 1 .. n : started[j].mask \cap mask = {}
      BY <1>1, <2>1 DEF HandedOutOnce, IsExclusive
    <2>5. \A i \in 1 .. Len(started') : i \in 1 .. n \/ i = n + 1
      BY <2>2
    <2>6. p.mask = mask
      OBVIOUS
    <2> HIDE DEF n, p
    <2>7. \A j \in 1 .. Len(started') : started'[j].mask \cap excl = {}
      BY <2>2, <2>3, <2>5, <2>6 DEF HandedOutOnce, n
    <2>8. ASSUME NEW i \in 1 .. Len(started'), IsExclusive(started'[i])
          PROVE  /\ started'[i].mask \subseteq env.exclusive
                 /\ \A j \in 1 .. i - 1 : started'[j].mask \cap started'[i].mask = {}
      <3>1. CASE i = n + 1
        <4>1. \A j \in 1 .. i - 1 : j \in 1 .. n
          BY <2>2, <3>1
        <4> QED
          BY <2>2, <2>4, <2>6, <2>8, <3>1, <4>1
      <3>2. CASE i \in 1 .. n
        <4>1. \A j \in 1 .. i - 1 : j \in 1 .. n
          BY <2>2, <3>2
        <4>2. MasksDisjoint
          BY DEF HandedOutOnce
        <4>3. /\ started[i].mask \subseteq env.exclusive
              /\ \A j \in 1 .. i - 1 : started[j].mask \cap started[i].mask = {}
          BY <2>2, <2>8, <3>2, <4>2 DEF MasksDisjoint, n
        <4> QED
          BY <2>2, <3>2, <4>1, <4>3
      <3> QED
        BY <2>5, <3>1, <3>2
    <2>9. MasksDisjoint'
      BY <1>1, <2>8 DEF MasksDisjoint, IsExclusive
    <2> QED
      BY <1>1, <2>7, <2>9 DEF HandedOutOnce
  <1> QED
    BY <1>2, <1>3 DEF StartProcess

(* The command has what main last bound the thread to.                     *)
LEMMA ExecCommandHandedOut ==
  ASSUME IInv, HandedOutOnce, ExecCommand
  PROVE  HandedOutOnce'
  <1>1. UNCHANGED <<case, env, excl, mask, index>> /\ pc = "exec" /\ pc' \in {"running", "exited"}
    BY DEF ExecCommand, allocVars
  <1>2. CASE UNCHANGED started
    <2>1. Len(started) \in Nat
      BY DEF IInv, TypesInside
    <2> QED
      BY <1>1, <1>2, <2>1, FrameHandedOutOnce
  <1>3. CASE Starts(<<>>)
    <2> DEFINE n == Len(started)
               p == [PoolName |-> <<>>, mask |-> mask, cpus |-> affinity[thread]]
    <2>1. /\ n \in Nat /\ Len(started') = n + 1
          /\ \A i \in 1 .. n : started'[i] = started[i]
          /\ started'[n + 1] = p
      BY <1>3, StartsType
    <2>2. mask \cap excl = {}
      BY <1>1 DEF HandedOutOnce
    <2>3. ~IsExclusive(p) /\ p.mask = mask
      <3>1. Len(<<ExclusivePoolID>>) = 1 /\ Len(<<>>) = 0
        OBVIOUS
      <3>2. ~IsPrefix(<<ExclusivePoolID>>, <<>>)
        BY <3>1 DEF IsPrefix
      <3> QED
        BY <3>2 DEF IsExclusive, HasPrefix
    <2>4. \A i \in 1 .. Len(started') : i \in 1 .. n \/ i = n + 1
      BY <2>1
    <2> HIDE DEF n, p
    <2>5. \A j \in 1 .. Len(started') : started'[j].mask \cap excl = {}
      BY <2>1, <2>2, <2>3, <2>4 DEF HandedOutOnce, n
    <2>6. ASSUME NEW i \in 1 .. Len(started'), IsExclusive(started'[i])
          PROVE  /\ started'[i].mask \subseteq env.exclusive
                 /\ \A j \in 1 .. i - 1 : started'[j].mask \cap started'[i].mask = {}
      <3>1. i \in 1 .. n
        BY <2>1, <2>3, <2>4, <2>6
      <3>2. \A j \in 1 .. i - 1 : j \in 1 .. n
        BY <2>1, <3>1
      <3>3. MasksDisjoint
        BY DEF HandedOutOnce
      <3>4. /\ started[i].mask \subseteq env.exclusive
            /\ \A j \in 1 .. i - 1 : started[j].mask \cap started[i].mask = {}
        BY <2>1, <2>6, <3>1, <3>3 DEF MasksDisjoint, n
      <3> QED
        BY <2>1, <3>1, <3>2, <3>4
    <2>7. MasksDisjoint'
      BY <1>1, <2>6 DEF MasksDisjoint, IsExclusive
    <2> QED
      BY <1>1, <2>5, <2>7 DEF HandedOutOnce
  <1> QED
    BY <1>2, <1>3 DEF ExecCommand

LEMMA NextHandedOutOnce ==
  ASSUME SharedApart, IInv, HandedOutOnce, [Next]_vars
  PROVE  HandedOutOnce'
  <1>1. CASE Kubelet
    <2>1. pc = "admit" /\ UNCHANGED <<started, mask>>
      BY <1>1 DEF Kubelet, AllocatePool, AskAndAllocatePool, AskForSharedPool
    <2> QED
      BY <2>1, NoneHandedOut DEF IInv, ListsOfEnv
  <1>2. CASE PollCPUSetCompletion
    <2>1. pc = "poll" /\ UNCHANGED <<started, mask>>
      BY <1>2 DEF PollCPUSetCompletion
    <2> QED
      BY <2>1, NoneHandedOut DEF IInv, ListsOfEnv
  <1>3. CASE Migrate \/ GiveUp \/ UNCHANGED vars
    <2>1. /\ UNCHANGED <<case, env, excl, index, mask, started>>
          /\ pc' = "start" => pc = "start"
          /\ pc' = "exec" => pc = "exec"
      BY <1>3 DEF Migrate, GiveUp, vars, allocVars
    <2>2. Len(started) \in Nat
      BY DEF IInv, TypesInside
    <2> QED
      BY <2>1, <2>2, FrameHandedOutOnce
  <1>4. CASE CpuSetterWrites
    <2>1. UNCHANGED <<case, env, excl, index, mask, pc>> /\ cpuset' \in WrittenSets
      BY <1>4 DEF CpuSetterWrites, allocVars
    <2>2. cpuset' \subseteq CPUs
      BY <2>1, OwnSetsType, DefaultSetsType DEF IInv, TypesInside, WrittenSets
    <2>3. /\ Len(started') = Len(started) /\ Len(started) \in Nat
          /\ \A i \in 1 .. Len(started) : /\ started'[i].PoolName = started[i].PoolName
                                          /\ started'[i].mask = started[i].mask
      BY <1>4, <2>2, WrittenStarted DEF IInv
    <2> QED
      BY <2>1, <2>3, FrameHandedOutOnce
  <1> QED
    BY <1>1, <1>2, <1>3, <1>4, SetAffinityHandedOut, StartProcessHandedOut, ExecCommandHandedOut
       DEF Next, Starter

(* main hands out the exclusive CPUs of the container without giving one   *)
(* to two processes, for every annotation, whatever processes fail to      *)
(* start, if no shared pool has a CPU or an added sibling of an exclusive  *)
(* one (setAffinity in main).                                              *)
THEOREM MasksDisjointThm ==
  ASSUME SharedApart
  PROVE  Spec => []MasksDisjoint
  <1>1. Init => HandedOutOnce
    <2> SUFFICES ASSUME Init PROVE HandedOutOnce
      OBVIOUS
    <2>1. 1 .. Len(started) = {} /\ pc = "admit"
      BY DEF Init
    <2> QED
      BY <2>1 DEF HandedOutOnce, MasksDisjoint
  <1>2. IInv /\ HandedOutOnce /\ [Next]_vars => HandedOutOnce'
    BY NextHandedOutOnce
  <1>3. HandedOutOnce => MasksDisjoint
    BY DEF HandedOutOnce
  <1> QED
    BY <1>1, <1>2, <1>3, Invariance, PTL DEF Spec

-----------------------------------------------------------------------------
(* The loop of GetPreferredAllocation.                                     *)

(* A nonempty set of numbers has a least one: well-founded induction       *)
(* without an operator as parameter.                                       *)
LEMMA NatMinimum ==
  ASSUME NEW T \in SUBSET Nat, T # {}
  PROVE  \E n \in T : \A m \in T : n <= m
  <1>1. PICK n \in T : \A m \in T : ~(<<m, n>> \in OpToRel(<, Nat))
    BY WFMin, NatLessThanWellFounded
  <1>2. \A m \in T : ~(m < n)
    BY <1>1 DEF OpToRel
  <1> QED
    BY <1>2

LEMMA FirstIsLowest ==
  ASSUME NEW s \in SUBSET Nat, s # {}
  PROVE  First(s) \in s /\ \A y \in s : First(s) <= y
  BY NatMinimum DEF First

(* The list after the devices s, from the lists after fewer devices.       *)
Round(f, s, size) ==
  IF s = {} THEN <<>> ELSE PreferNext(f[s \ {First(s)}], First(s), size)

(* There is a function with the equation of Visited, by induction on the   *)
(* size of the sets it is defined on.                                      *)
LEMMA VisitedExists ==
  ASSUME NEW devices \in SUBSET Nat, IsFiniteSet(devices), NEW size
  PROVE  \E f : f = [s \in SUBSET devices |-> Round(f, s, size)]
  <1> DEFINE Upto(k) == {s \in SUBSET devices : Cardinality(s) <= k}
             Bad == {k \in Nat : ~\E f : f = [s \in Upto(k) |-> Round(f, s, size)]}
  <1>1. \A s \in SUBSET devices : Cardinality(s) \in Nat /\ IsFiniteSet(s)
    BY FS_Subset, FS_CardinalityType
  <1>2. ASSUME Bad # {} PROVE FALSE
    <2>1. PICK k \in Bad : \A m \in Bad : k <= m
      BY <1>2, NatMinimum
    <2>2. k # 0
      <3>1. \A s \in Upto(0) : s = {}
        BY <1>1, FS_EmptySet
      <3> DEFINE f == [s \in Upto(0) |-> <<>>]
      <3>2. f = [s \in Upto(0) |-> Round(f, s, size)]
        BY <3>1 DEF Round
      <3> QED
        BY <3>2
    <2>3. PICK f : f = [s \in Upto(k - 1) |-> Round(f, s, size)]
      <3>1. k \in Nat /\ k - 1 \in Nat /\ k - 1 < k
        BY <2>1, <2>2
      <3>2. k - 1 \notin Bad
        <4> HIDE DEF Bad
        <4> QED
          BY <2>1, <3>1
      <3> QED
        BY <3>1, <3>2
    <2> DEFINE g == [s \in Upto(k) |-> Round(f, s, size)]
    <2>4. ASSUME NEW s \in Upto(k) PROVE Round(f, s, size) = Round(g, s, size)
      <3>1. CASE s = {}
        BY <3>1 DEF Round
      <3>2. CASE s # {}
        <4> DEFINE r == s \ {First(s)}
        <4>1. First(s) \in s /\ s \in SUBSET devices /\ IsFiniteSet(s)
          BY <1>1, <3>2, FirstIsLowest
        <4>2. Cardinality(r) = Cardinality(s) - 1 /\ Cardinality(s) \in Nat
          BY <1>1, <4>1, FS_RemoveElement
        <4>3. r \in Upto(k - 1) /\ r \in Upto(k)
          <5>1. k \in Nat /\ Cardinality(s) <= k /\ r \in SUBSET devices
            BY <2>1, <4>1
          <5>2. Cardinality(r) <= k - 1 /\ Cardinality(r) <= k
            <6> HIDE DEF r
            <6> QED
              BY <4>2, <5>1
          <5> QED
            BY <5>1, <5>2
        <4>4. f[r] = Round(f, r, size)
          BY <2>3, <4>3
        <4>5. g[r] = Round(f, r, size)
          BY <4>3
        <4> HIDE DEF r, g
        <4>6. f[r] = g[r]
          BY <4>4, <4>5
        <4> QED
          BY <4>6 DEF Round, r
      <3> QED
        BY <3>1, <3>2
    <2>5. g = [s \in Upto(k) |-> Round(g, s, size)]
      BY <2>4
    <2> QED
      BY <2>1, <2>5
  <1>3. Cardinality(devices) \in Nat /\ Upto(Cardinality(devices)) = SUBSET devices
    BY FS_Subset, FS_CardinalityType
  <1>4. Cardinality(devices) \notin Bad
    BY <1>2
  <1> QED
    BY <1>3, <1>4

LEMMA VisitedRound ==
  ASSUME NEW devices \in SUBSET Nat, IsFiniteSet(devices), NEW size
  PROVE  Visited(devices, size)
           = [s \in SUBSET devices |-> Round(Visited(devices, size), s, size)]
  BY VisitedExists DEF Visited, Round

(* Induction along the loop, for a set G of sets of devices: {} is in G,   *)
(* and a set is when it is without its lowest device.                      *)
LEMMA LoopInduction ==
  ASSUME NEW devices \in SUBSET Nat, IsFiniteSet(devices), NEW G, {} \in G,
         \A s \in SUBSET devices : s # {} /\ s \ {First(s)} \in G => s \in G
  PROVE  devices \in G
  <1> DEFINE Bad == {s \in SUBSET devices : s \notin G}
             Sizes == {Cardinality(s) : s \in Bad}
  <1>1. \A s \in SUBSET devices : Cardinality(s) \in Nat /\ IsFiniteSet(s)
    BY FS_Subset, FS_CardinalityType
  <1>2. ASSUME Bad # {} PROVE FALSE
    <2>1. Sizes \in SUBSET Nat /\ Sizes # {}
      BY <1>1, <1>2
    <2>2. PICK k \in Sizes : \A m \in Sizes : k <= m
      BY <2>1, NatMinimum
    <2>3. PICK s \in Bad : k = Cardinality(s)
      BY <2>2
    <2>4. s \in SUBSET devices /\ s # {} /\ s \notin G
      BY <2>3
    <2>5. First(s) \in s
      BY <2>4, FirstIsLowest
    <2>6. Cardinality(s \ {First(s)}) = Cardinality(s) - 1 /\ Cardinality(s) \in Nat
      BY <1>1, <2>4, <2>5, FS_RemoveElement
    <2>7. s \ {First(s)} \in Bad
      BY <2>4
    <2>8. Cardinality(s \ {First(s)}) \in Sizes
      BY <2>7
    <2> HIDE DEF Sizes, Bad
    <2> QED
      BY <2>2, <2>3, <2>6, <2>8
  <1> QED
    BY <1>2

(* The list is a run of visited devices, and of CPUs.                      *)
ListIsRun(ids, s, size) ==
  /\ ids \in Seq(Nat) /\ Len(ids) <= size
  /\ s # {} /\ size # 0 => ids # <<>>
  /\ \A i \in 1 .. Len(ids) : /\ ids[i] \in s /\ ids[i] = ids[1] - (i - 1)
                              /\ ids[i] % NumCPU = (ids[1] % NumCPU) - (i - 1)

(* Next to each other are the devices of CPUs next to each other.          *)
StepsOfOne(s) == \A d \in s : d + 1 \in s => (d + 1) % NumCPU = (d % NumCPU) + 1

(* One round keeps the list a run: the device of the round is the lowest,  *)
(* so it is one below the last of the list, or the list starts anew.       *)
LEMMA RoundKeepsRun ==
  ASSUME NEW s \in SUBSET Nat, s # {}, NEW size \in Nat, StepsOfOne(s), NEW ids,
         NEW id, id = First(s), ListIsRun(ids, s \ {id}, size)
  PROVE  ListIsRun(PreferNext(ids, id, size), s, size)
  <1>1. id \in s /\ id \in Nat /\ \A y \in s \ {id} : id < y
    <2>1. id \in s /\ \A y \in s : id <= y
      BY FirstIsLowest
    <2> QED
      BY <2>1
  <1>2. ids \in Seq(Nat) /\ Len(ids) \in Nat /\ Len(ids) <= size
    BY DEF ListIsRun
  <1>3. \A i \in 1 .. Len(ids) : ids[i] \in s \ {id}
    BY DEF ListIsRun
  <1>4. CASE Len(ids) = size \/ \E i \in 1 .. Len(ids) : ids[i] % NumCPU = id % NumCPU
    <2>1. PreferNext(ids, id, size) = ids
      BY <1>4 DEF PreferNext
    <2>2. size # 0 => ids # <<>>
      BY <1>2, <1>4
    <2> QED
      BY <1>2, <1>3, <2>1, <2>2 DEF ListIsRun
  <1>5. CASE /\ ~(Len(ids) = size \/ \E i \in 1 .. Len(ids) : ids[i] % NumCPU = id % NumCPU)
             /\ ids = <<>> \/ Distance(Last(ids), id) # 1
    <2>1. PreferNext(ids, id, size) = <<id>>
      <3>1. CASE ids = <<>>
        <4>1. Append(<<>>, id) = <<id>>
          BY <1>1
        <4> QED
          BY <1>5, <3>1, <4>1 DEF PreferNext
      <3>2. CASE ids # <<>>
        BY <1>5, <3>2 DEF PreferNext
      <3> QED
        BY <3>1, <3>2
    <2>2. Len(<<id>>) = 1 /\ <<id>>[1] = id /\ <<id>> \in Seq(Nat) /\ <<id>> # <<>>
      BY <1>1
    <2>3. 1 <= size
      BY <1>2, <1>5
    <2>4. id % NumCPU \in Int
      BY <1>1, NumCPUAssumption
    <2> QED
      BY <1>1, <2>1, <2>2, <2>3, <2>4 DEF ListIsRun
  <1>6. CASE /\ ~(Len(ids) = size \/ \E i \in 1 .. Len(ids) : ids[i] % NumCPU = id % NumCPU)
             /\ ids # <<>> /\ Distance(Last(ids), id) = 1
    <2> DEFINE new == Append(ids, id)
    <2>1. PreferNext(ids, id, size) = new
      BY <1>6 DEF PreferNext
    <2>2. Len(ids) \in 1 .. Len(ids)
      BY <1>2, <1>6
    <2>3. Last(ids) \in s \ {id} /\ Last(ids) = ids[Len(ids)] /\ Last(ids) \in Nat
      BY <1>3, <2>2 DEF Last
    <2>4. id < Last(ids)
      BY <1>1, <2>3
    <2>5. Last(ids) = id + 1
      BY <1>1, <1>6, <2>3, <2>4 DEF Distance
    <2>6. Last(ids) % NumCPU = (id % NumCPU) + 1
      BY <1>1, <2>3, <2>5 DEF StepsOfOne
    <2>7. new \in Seq(Nat) /\ Len(new) = Len(ids) + 1 /\ new[Len(ids) + 1] = id /\ new # <<>>
          /\ \A i \in 1 .. Len(ids) : new[i] = ids[i]
      BY <1>1, <1>2
    <2>8. id % NumCPU \in Int /\ ids[1] % NumCPU \in Int /\ ids[1] \in Nat
          /\ Last(ids) % NumCPU \in Int /\ new[1] = ids[1]
      BY <1>1, <1>2, <1>3, <2>2, <2>3, <2>7, NumCPUAssumption
    <2>9. Last(ids) = ids[1] - (Len(ids) - 1)
          /\ Last(ids) % NumCPU = (ids[1] % NumCPU) - (Len(ids) - 1)
      BY <2>2, <2>3 DEF ListIsRun
    <2>10. id = new[1] - Len(ids) /\ id % NumCPU = (new[1] % NumCPU) - Len(ids)
      <3> DEFINE a == id % NumCPU
                 b == ids[1] % NumCPU
                 c == Last(ids) % NumCPU
      <3>1. a \in Int /\ b \in Int /\ c = a + 1 /\ c = b - (Len(ids) - 1)
        BY <2>6, <2>8, <2>9
      <3> HIDE DEF a, b, c
      <3>2. a = b - Len(ids)
        BY <1>2, <3>1
      <3>3. id = ids[1] - Len(ids)
        BY <1>1, <1>2, <2>5, <2>8, <2>9
      <3> QED
        BY <2>8, <3>2, <3>3 DEF a, b
    <2>11. ASSUME NEW i \in 1 .. Len(new)
           PROVE  /\ new[i] \in s /\ new[i] = new[1] - (i - 1)
                  /\ new[i] % NumCPU = (new[1] % NumCPU) - (i - 1)
      <3>1. CASE i \in 1 .. Len(ids)
        BY <1>3, <2>7, <2>8, <3>1 DEF ListIsRun
      <3>2. CASE i = Len(ids) + 1
        BY <1>1, <1>2, <2>7, <2>10, <3>2
      <3> QED
        BY <1>2, <2>7, <3>1, <3>2
    <2>12. Len(ids) + 1 <= size
      BY <1>2, <1>6
    <2> HIDE DEF new
    <2> QED
      BY <2>1, <2>7, <2>11, <2>12 DEF ListIsRun
  <1> QED
    BY <1>4, <1>5, <1>6

LEMMA VisitedIsRun ==
  ASSUME NEW devices \in SUBSET Nat, IsFiniteSet(devices), NEW size \in Nat, StepsOfOne(devices)
  PROVE  ListIsRun(Visited(devices, size)[devices], devices, size)
  <1> DEFINE list == Visited(devices, size)
             G == {s \in SUBSET devices : ListIsRun(list[s], s, size)}
  <1>1. \A s \in SUBSET devices : list[s] = Round(list, s, size)
    BY VisitedRound
  <1>2. {} \in G
    <2>1. list[{}] = <<>>
      BY <1>1 DEF Round
    <2>2. ListIsRun(<<>>, {}, size)
      BY DEF ListIsRun
    <2> HIDE DEF list
    <2> QED
      BY <2>1, <2>2
  <1>3. ASSUME NEW s \in SUBSET devices, s # {}, s \ {First(s)} \in G
        PROVE  s \in G
    <2>1. list[s] = PreferNext(list[s \ {First(s)}], First(s), size)
      BY <1>1, <1>3 DEF Round
    <2>2. StepsOfOne(s) /\ s \in SUBSET Nat
      BY DEF StepsOfOne
    <2>3. ListIsRun(list[s \ {First(s)}], s \ {First(s)}, size)
      BY <1>3
    <2> HIDE DEF list
    <2>4. ListIsRun(list[s], s, size)
      BY <1>3, <2>1, <2>2, <2>3, RoundKeepsRun
    <2> QED
      BY <2>4
  <1>4. devices \in G
    <2> HIDE DEF G
    <2> QED
      BY <1>2, <1>3, LoopInduction
  <1> QED
    BY <1>4

(* As long as the list is short, no run is left behind, and the list is    *)
(* the whole run the loop is in.                                           *)
NoRunLeft(ids, s, size) ==
  Len(ids) < size =>
    /\ \A x \in Nat : ~(x .. x + size - 1 \subseteq s)
    /\ s # {} => (\A y \in s : Last(ids) <= y) /\ ids[1] + 1 \notin s

(* The first device of a CPU has the id of the CPU.                        *)
LEMMA OwnId == \A x \in CPUs : x % NumCPU = x
  BY NumCPUAssumption DEF CPUs

(* A run the round could complete starts with its device and goes on with  *)
(* the whole list, which would then be long enough.                        *)
LEMMA RoundLeavesNoRun ==
  ASSUME NEW s \in SUBSET CPUs, s # {}, NEW size \in Nat, NEW ids, NEW id, id = First(s),
         ListIsRun(ids, s \ {id}, size), NoRunLeft(ids, s \ {id}, size)
  PROVE  NoRunLeft(PreferNext(ids, id, size), s, size)
  <1>1. id \in s /\ id \in Nat /\ s \in SUBSET Nat /\ \A y \in s \ {id} : id < y
    <2>1. s \in SUBSET Nat
      BY NumCPUAssumption DEF CPUs
    <2>2. id \in s /\ \A y \in s : id <= y
      BY <2>1, FirstIsLowest
    <2> QED
      BY <2>1, <2>2
  <1>2. ids \in Seq(Nat) /\ Len(ids) \in Nat /\ Len(ids) <= size
    BY DEF ListIsRun
  <1>3. \A i \in 1 .. Len(ids) : ids[i] \in s \ {id}
    BY DEF ListIsRun
  <1>4. CASE Len(ids) = size
    BY <1>4 DEF PreferNext, NoRunLeft
  <1>5. CASE Len(ids) # size
    <2>1. ~\E i \in 1 .. Len(ids) : ids[i] % NumCPU = id % NumCPU
      BY <1>1, <1>3, OwnId
    <2>2. Len(ids) < size
      BY <1>2, <1>5
    <2>3. \A x \in Nat : x .. x + size - 1 \subseteq s => x = id
      <3> SUFFICES ASSUME NEW x \in Nat, x .. x + size - 1 \subseteq s, x # id PROVE FALSE
        OBVIOUS
      <3>1. x \in s
        BY <1>2, <2>2
      <3>2. id < x
        BY <1>1, <3>1
      <3>3. x .. x + size - 1 \subseteq s \ {id}
        BY <1>1, <3>2
      <3> QED
        BY <2>2, <3>3 DEF NoRunLeft
    <2>4. CASE ids = <<>> \/ Distance(Last(ids), id) # 1
      <3>1. PreferNext(ids, id, size) = <<id>>
        <4>1. CASE ids = <<>>
          <5>1. Append(<<>>, id) = <<id>>
            BY <1>1
          <5> QED
            BY <1>5, <2>1, <4>1, <5>1 DEF PreferNext
        <4>2. CASE ids # <<>>
          BY <1>5, <2>1, <2>4, <4>2 DEF PreferNext
        <4> QED
          BY <4>1, <4>2
      <3>2. id + 1 \notin s
        <4>1. CASE ids = <<>>
          <5>1. s \ {id} = {}
            BY <1>5, <4>1 DEF ListIsRun
          <5> QED
            BY <1>1, <5>1
        <4>2. CASE ids # <<>>
          <5> SUFFICES ASSUME id + 1 \in s PROVE FALSE
            OBVIOUS
          <5>1. id + 1 \in s \ {id}
            BY <1>1
          <5>2. Len(ids) \in 1 .. Len(ids)
            BY <1>2, <4>2
          <5>3. Last(ids) \in s \ {id}
            BY <1>3, <5>2 DEF Last
          <5>4. Last(ids) \in Nat /\ id < Last(ids) /\ Last(ids) <= id + 1
            BY <1>1, <2>2, <5>1, <5>3 DEF NoRunLeft
          <5> QED
            BY <1>1, <2>4, <4>2, <5>4 DEF Distance
        <4> QED
          BY <4>1, <4>2
      <3>3. Len(<<id>>) = 1 /\ <<id>>[1] = id /\ Last(<<id>>) = id
        BY DEF Last
      <3>4. ASSUME 1 < size, NEW x \in Nat PROVE ~(x .. x + size - 1 \subseteq s)
        BY <1>1, <2>3, <3>2, <3>4
      <3>5. \A y \in s : id <= y
        BY <1>1
      <3> QED
        BY <3>1, <3>2, <3>3, <3>4, <3>5 DEF NoRunLeft
    <2>5. CASE ids # <<>> /\ Distance(Last(ids), id) = 1
      <3> DEFINE new == Append(ids, id)
      <3>1. PreferNext(ids, id, size) = new
        BY <1>5, <2>1, <2>5 DEF PreferNext
      <3>2. Len(ids) \in 1 .. Len(ids) /\ 1 \in 1 .. Len(ids)
        BY <1>2, <2>5
      <3>3. Last(ids) \in Nat /\ id < Last(ids) /\ Last(ids) = ids[Len(ids)]
        BY <1>1, <1>3, <3>2 DEF Last
      <3>4. Last(ids) = id + 1
        BY <1>1, <2>5, <3>3 DEF Distance
      <3>5. ids[1] \in Nat /\ id < ids[1] /\ Last(ids) = ids[1] - (Len(ids) - 1)
        BY <1>1, <1>3, <3>2, <3>3 DEF ListIsRun
      <3>6. ids[1] = id + Len(ids)
        BY <1>1, <1>2, <3>3, <3>4, <3>5
      <3>7. Len(new) = Len(ids) + 1 /\ new[1] = ids[1] /\ Last(new) = id
        BY <1>1, <1>2, <3>2 DEF Last
      <3>8. ids[1] + 1 \notin s
        <4>1. s \ {id} # {} /\ ids[1] + 1 # id
          BY <1>1, <1>3, <3>2, <3>5
        <4> QED
          BY <2>2, <4>1 DEF NoRunLeft
      <3>9. ASSUME Len(ids) + 1 < size, NEW x \in Nat PROVE ~(x .. x + size - 1 \subseteq s)
        <4>1. id + Len(ids) + 1 \in id .. id + size - 1
          BY <1>1, <1>2, <3>9
        <4>2. ids[1] + 1 = id + Len(ids) + 1
          BY <1>1, <1>2, <3>6
        <4> QED
          BY <2>3, <3>8, <4>1, <4>2
      <3>10. \A y \in s : id <= y
        BY <1>1
      <3> HIDE DEF new
      <3> QED
        BY <3>1, <3>7, <3>8, <3>9, <3>10 DEF NoRunLeft
    <2> QED
      BY <2>4, <2>5
  <1> QED
    BY <1>4, <1>5

LEMMA VisitedLeavesNoRun ==
  ASSUME NEW devices \in SUBSET CPUs, NEW size \in Nat
  PROVE  NoRunLeft(Visited(devices, size)[devices], devices, size)
  <1> DEFINE list == Visited(devices, size)
             Holds(s) == ListIsRun(list[s], s, size) /\ NoRunLeft(list[s], s, size)
             G == {s \in SUBSET devices : Holds(s)}
  <1>0. devices \in SUBSET Nat /\ IsFiniteSet(devices)
    <2>1. devices \in SUBSET Nat
      BY NumCPUAssumption DEF CPUs
    <2> QED
      BY <2>1, CPUsFinite, FS_Subset
  <1>1. \A s \in SUBSET devices : list[s] = Round(list, s, size)
    BY <1>0, VisitedRound
  <1>2. {} \in G
    <2>1. list[{}] = <<>>
      BY <1>1 DEF Round
    <2>2. ListIsRun(<<>>, {}, size)
      BY DEF ListIsRun
    <2>3. NoRunLeft(<<>>, {}, size)
      <3>1. \A x \in Nat : 0 < size => x \in x .. x + size - 1
        OBVIOUS
      <3> QED
        BY <3>1 DEF NoRunLeft
    <2> HIDE DEF list
    <2> QED
      BY <2>1, <2>2, <2>3
  <1>3. ASSUME NEW s \in SUBSET devices, s # {}, s \ {First(s)} \in G
        PROVE  s \in G
    <2>1. list[s] = PreferNext(list[s \ {First(s)}], First(s), size)
      BY <1>1, <1>3 DEF Round
    <2>2. s \in SUBSET Nat /\ s \in SUBSET CPUs
      BY <1>0
    <2>3. StepsOfOne(s)
      <3>1. \A d \in s : d % NumCPU = d /\ (d + 1 \in s => (d + 1) % NumCPU = d + 1)
        BY <2>2, OwnId
      <3> QED
        BY <3>1 DEF StepsOfOne
    <2>4. Holds(s \ {First(s)})
      BY <1>3
    <2> HIDE DEF list
    <2>5. ListIsRun(list[s], s, size)
      BY <1>3, <2>1, <2>2, <2>3, <2>4, RoundKeepsRun
    <2>6. NoRunLeft(list[s], s, size)
      BY <1>3, <2>1, <2>2, <2>4, RoundLeavesNoRun
    <2> QED
      BY <2>5, <2>6
  <1>4. devices \in G
    <2> HIDE DEF G
    <2> QED
      BY <1>0, <1>2, <1>3, LoopInduction
  <1> QED
    BY <1>4

(* A set that is a run is an interval.                                     *)
LEMMA RunIsInterval ==
  ASSUME NEW s \in SUBSET Nat, IsFiniteSet(s), NEW size \in Nat \ {0}, Cardinality(s) = size, IsRun(s)
  PROVE  \E x \in Nat : s = x .. x + size - 1
  <1>1. s # {}
    BY FS_EmptySet
  <1> DEFINE x == First(s)
  <1>2. x \in s /\ \A y \in s : x <= y
    BY <1>1, FirstIsLowest
  <1> HIDE DEF x
  <1>3. \A y \in s : y \in Nat /\ x \in Nat /\ y < x + size
    BY <1>2 DEF IsRun, Distance
  <1>4. s \in SUBSET (x .. x + size - 1)
    BY <1>2, <1>3
  <1>5. IsFiniteSet(x .. x + size - 1) /\ Cardinality(x .. x + size - 1) = size
    BY <1>2, FS_Interval
  <1>6. s = x .. x + size - 1
    BY <1>4, <1>5, FS_Subset
  <1> QED
    BY <1>2, <1>6

LEMMA DeviceIDsFinite ==
  ASSUME NEW n \in PoolNames
  PROVE  IsFiniteSet(DeviceIDs(n))
  <1> DEFINE rounds == IF Pools[n].Overcommitment < 1 THEN 1 ELSE Pools[n].Overcommitment
  <1>1. rounds \in Nat /\ NumCPU \in Nat
    BY PoolsAssumption, NumCPUAssumption
  <1>2. rounds * NumCPU \in Nat
    BY <1>1
  <1>3. ASSUME NEW d \in DeviceIDs(n) PROVE d <= rounds * NumCPU
    <2>1. PICK cpu \in Pools[n].CPUset, k \in 0 .. rounds - 1 : d = cpu + k * NumCPU
      BY DEF DeviceIDs
    <2>2. cpu \in 0 .. NumCPU - 1 /\ k \in Nat /\ rounds - (k + 1) \in Nat
      BY <1>1, PoolsAssumption DEF CPUs
    <2> HIDE DEF rounds
    <2>3. rounds * NumCPU = (k + 1) * NumCPU + (rounds - (k + 1)) * NumCPU
      BY <1>1, <2>2
    <2>4. (rounds - (k + 1)) * NumCPU \in Nat /\ (k + 1) * NumCPU = k * NumCPU + NumCPU
      BY <1>1, <2>2
    <2>5. k * NumCPU \in Nat
      BY <1>1, <2>2
    <2> QED
      BY <1>1, <2>1, <2>2, <2>3, <2>4, <2>5
  <1>4. DeviceIDs(n) \in SUBSET Nat
    BY DeviceIDsType
  <1> HIDE DEF rounds
  <1> QED
    BY <1>2, <1>3, <1>4, FS_BoundedSetOfNaturals

(* Devices with consecutive ids are devices of neighbouring CPUs.          *)
LEMMA DevicesStepByOne ==
  ASSUME RoundsApart, NEW n \in OfferedPools, NEW s \in SUBSET DeviceIDs(n)
  PROVE  StepsOfOne(s)
  <1> SUFFICES ASSUME NEW d \in s, d + 1 \in s PROVE (d + 1) % NumCPU = (d % NumCPU) + 1
    BY DEF StepsOfOne
  <1> DEFINE rounds == IF Pools[n].Overcommitment < 1 THEN 1 ELSE Pools[n].Overcommitment
  <1>0. n \in PoolNames /\ NumCPU \in Nat \ {0} /\ rounds \in Nat
    BY PoolsAssumption, NumCPUAssumption DEF OfferedPools
  <1>1. PICK cpu \in Pools[n].CPUset, k \in 0 .. rounds - 1 : d = cpu + k * NumCPU
    BY DEF DeviceIDs
  <1>2. cpu \in 0 .. NumCPU - 1 /\ k \in Nat /\ k * NumCPU \in Nat
    BY <1>0, PoolsAssumption DEF CPUs
  <1>3. d % NumCPU = cpu
    BY <1>0, <1>1, <1>2
  <1>4. CASE cpu # NumCPU - 1
    <2>1. d + 1 = (cpu + 1) + k * NumCPU /\ cpu + 1 \in 0 .. NumCPU - 1
      BY <1>0, <1>1, <1>2, <1>4
    <2>2. ((cpu + 1) + k * NumCPU) % NumCPU = cpu + 1
      BY <1>0, <1>2, <2>1
    <2> QED
      BY <1>3, <2>1, <2>2
  <1>5. CASE cpu = NumCPU - 1
    <2>1. d + 1 = 0 + (k + 1) * NumCPU
      BY <1>0, <1>1, <1>2, <1>5
    <2>2. (0 + (k + 1) * NumCPU) % NumCPU = 0
      BY <1>0, <1>2
    <2>3. 0 \in Pools[n].CPUset
      BY <1>0, <2>1, <2>2, DeviceCpu
    <2>4. ~(Pools[n].Overcommitment > 1)
      BY <1>1, <1>5, <2>3 DEF RoundsApart
    <2>5. rounds = 1
      BY <1>0, <2>4, PoolsAssumption
    <2>6. PICK c \in Pools[n].CPUset, j \in 0 .. rounds - 1 : d + 1 = c + j * NumCPU
      BY DEF DeviceIDs
    <2>7. k = 0 /\ j = 0
      BY <2>5
    <2>8. d = NumCPU - 1 /\ d + 1 \in 0 .. NumCPU - 1
      <3>1. c \in 0 .. NumCPU - 1 /\ 0 * NumCPU = 0
        BY <1>0, PoolsAssumption DEF CPUs
      <3>2. d = cpu /\ d + 1 = c
        BY <1>0, <1>1, <1>2, <2>6, <2>7, <3>1
      <3> QED
        BY <1>5, <3>1, <3>2
    <2> QED
      BY <1>0, <2>8
  <1> QED
    BY <1>4, <1>5

-----------------------------------------------------------------------------
(* What the plugin answered and kubelet granted.                           *)
Proposed(a, size, ids) ==
  /\ size \in Nat /\ a.available \subseteq DeviceIDs(a.pool)
  /\ \E k : LET free == OnNode(a.available, k)
            IN  free # {} /\ a.ids = Visited(free, size)[free]
  /\ Range(a.ids) \subseteq ids /\ ids \subseteq a.available /\ Cardinality(ids) = size

(* A complete answer makes kubelet grant the devices of the list and no    *)
(* others.                                                                 *)
LEMMA ProposedTogether ==
  ASSUME RoundsApart, NEW a, a.pool \in OfferedPools, NEW size, NEW ids, Proposed(a, size, ids),
         Len(a.ids) = size, NEW cpus, cpus = CalculateFinalExclusiveSet(ids)
  PROVE  /\ Cardinality(cpus) = size
         /\ IsRun(cpus)
         /\ \A x, y \in cpus : NodeOf[x] = NodeOf[y]
  <1>1. PICK k : /\ OnNode(a.available, k) # {}
                 /\ a.ids = Visited(OnNode(a.available, k), size)[OnNode(a.available, k)]
    BY DEF Proposed
  <1> DEFINE free == OnNode(a.available, k)
             list == a.ids
             n == a.pool
  <1>2. n \in PoolNames /\ DeviceIDs(n) \in SUBSET Nat /\ IsFiniteSet(DeviceIDs(n))
    BY DeviceIDsType, DeviceIDsFinite DEF OfferedPools
  <1>3. free \in SUBSET DeviceIDs(n) /\ ids \in SUBSET DeviceIDs(n) /\ size \in Nat
    BY DEF Proposed, OnNode
  <1>4. free \in SUBSET Nat /\ IsFiniteSet(free) /\ IsFiniteSet(ids)
    BY <1>2, <1>3, FS_Subset
  <1>5. StepsOfOne(free)
    BY <1>3, DevicesStepByOne
  <1>6. ListIsRun(list, free, size)
    BY <1>1, <1>3, <1>4, <1>5, VisitedIsRun
  <1>7. CASE size = 0
    <2>1. ids = {}
      BY <1>4, <1>7, FS_EmptySet DEF Proposed
    <2>2. cpus = {}
      BY <2>1 DEF CalculateFinalExclusiveSet
    <2> QED
      BY <1>7, <2>2, FS_EmptySet DEF IsRun
  <1>8. CASE size # 0
    <2> DEFINE top == list[1]
               cpu == list[1] % NumCPU
    <2>1. list \in Seq(Nat) /\ Len(list) = size /\ 1 \in 1 .. size
      BY <1>3, <1>6, <1>8 DEF ListIsRun
    <2>2. top \in Nat /\ cpu \in Int
      BY <2>1, NumCPUAssumption
    <2>3. \A i \in 1 .. size : /\ list[i] \in free /\ list[i] = top - (i - 1)
                               /\ list[i] % NumCPU = cpu - (i - 1)
      BY <1>6, <2>1 DEF ListIsRun
    <2>4. Range(list) = {list[i] : i \in 1 .. size}
      BY <2>1 DEF Range
    <2> HIDE DEF list, top, cpu, free, n
    <2>5. Range(list) = top - (size - 1) .. top
      <3>1. \A i \in 1 .. size : list[i] \in top - (size - 1) .. top
        BY <1>3, <2>2, <2>3
      <3>2. \A y \in top - (size - 1) .. top : top - y + 1 \in 1 .. size /\ list[top - y + 1] = y
        BY <1>3, <2>2, <2>3
      <3> QED
        BY <2>4, <3>1, <3>2
    <2>6. ids = Range(list)
      <3>1. Cardinality(Range(list)) = size
        BY <1>3, <1>8, <2>2, <2>5, FS_Interval
      <3>2. Range(list) \in SUBSET ids /\ Cardinality(ids) = size
        BY DEF Proposed, list
      <3> QED
        BY <1>4, <3>1, <3>2, FS_Subset
    <2>7. cpus = {list[i] % NumCPU : i \in 1 .. size}
      BY <2>4, <2>6 DEF CalculateFinalExclusiveSet
    <2>8. cpus = cpu - (size - 1) .. cpu
      <3>1. \A i \in 1 .. size : list[i] % NumCPU \in cpu - (size - 1) .. cpu
        <4> SUFFICES ASSUME NEW i \in 1 .. size PROVE list[i] % NumCPU \in cpu - (size - 1) .. cpu
          OBVIOUS
        <4>1. list[i] % NumCPU = cpu - (i - 1)
          BY <2>3
        <4>2. cpu - (i - 1) \in cpu - (size - 1) .. cpu
          BY <1>3, <2>2
        <4> QED
          BY <4>1, <4>2
      <3>2. ASSUME NEW y \in cpu - (size - 1) .. cpu
            PROVE  \E i \in 1 .. size : list[i] % NumCPU = y
        <4>1. cpu - y + 1 \in 1 .. size /\ cpu - ((cpu - y + 1) - 1) = y
          BY <1>3, <2>2
        <4> QED
          BY <2>3, <4>1
      <3> QED
        BY <2>7, <3>1, <3>2
    <2>9. Cardinality(cpus) = size
      BY <1>3, <1>8, <2>2, <2>8, FS_Interval
    <2>10. IsRun(cpus)
      BY <1>3, <2>2, <2>8, <2>9 DEF IsRun, Distance
    <2>11. \A x \in cpus : NodeOf[x] = k
      <3>1. \A d \in free : NodeOf[d % NumCPU] = k
        BY DEF free, OnNode
      <3> QED
        BY <2>3, <2>7, <3>1
    <2> QED
      BY <2>9, <2>10, <2>11
  <1> QED
    BY <1>7, <1>8

(* A short answer is not the fault of the loop.                            *)
LEMMA ProposedComplete ==
  ASSUME NEW a, a.pool \in OfferedPools, Pools[a.pool].Overcommitment <= 1, NEW size, NEW ids,
         Proposed(a, size, ids), Len(a.ids) # size,
         NEW s \in SUBSET OnNode(a.available, NodeOf[Last(a.ids) % NumCPU])
  PROVE  ~(Cardinality(s) = size /\ IsRun(s))
  <1> SUFFICES ASSUME Cardinality(s) = size, IsRun(s) PROVE FALSE
    OBVIOUS
  <1>1. PICK k : /\ OnNode(a.available, k) # {}
                 /\ a.ids = Visited(OnNode(a.available, k), size)[OnNode(a.available, k)]
    BY DEF Proposed
  <1> DEFINE free == OnNode(a.available, k)
             n == a.pool
  <1>2. size \in Nat /\ n \in PoolNames
    BY DEF Proposed, OfferedPools
  <1>3. a.available \subseteq CPUs
    <2> DEFINE rounds == IF Pools[n].Overcommitment < 1 THEN 1 ELSE Pools[n].Overcommitment
    <2>1. rounds = 1
      BY <1>2, PoolsAssumption
    <2>2. ASSUME NEW d \in DeviceIDs(n) PROVE d \in CPUs
      <3>1. PICK cpu \in Pools[n].CPUset, j \in 0 .. rounds - 1 : d = cpu + j * NumCPU
        BY DEF DeviceIDs
      <3>2. j = 0 /\ 0 * NumCPU = 0 /\ cpu \in CPUs /\ cpu \in Int
        BY <1>2, <2>1, PoolsAssumption, NumCPUAssumption DEF CPUs
      <3> QED
        BY <3>1, <3>2
    <2> QED
      BY <2>2 DEF Proposed
  <1>4. free \in SUBSET CPUs /\ free \in SUBSET Nat /\ IsFiniteSet(free)
    <2>1. free \in SUBSET CPUs
      BY <1>3 DEF OnNode
    <2>2. free \in SUBSET Nat
      BY <2>1, NumCPUAssumption DEF CPUs
    <2> QED
      BY <2>1, <2>2, CPUsFinite, FS_Subset
  <1>5. StepsOfOne(free)
    <2>1. \A d \in free : d % NumCPU = d /\ (d + 1 \in free => (d + 1) % NumCPU = d + 1)
      BY <1>4, OwnId
    <2> QED
      BY <2>1 DEF StepsOfOne
  <1>6. ListIsRun(a.ids, free, size) /\ NoRunLeft(a.ids, free, size)
    BY <1>1, <1>2, <1>4, <1>5, VisitedIsRun, VisitedLeavesNoRun
  <1>7. Len(a.ids) \in Nat /\ Len(a.ids) < size /\ size \in Nat \ {0}
    BY <1>2, <1>6 DEF ListIsRun
  <1>8. NodeOf[Last(a.ids) % NumCPU] = k
    <2>1. a.ids # <<>> /\ a.ids \in Seq(Nat)
      BY <1>1, <1>6, <1>7 DEF ListIsRun
    <2>2. Len(a.ids) \in 1 .. Len(a.ids)
      BY <2>1
    <2>3. Last(a.ids) \in free
      BY <1>6, <2>2 DEF ListIsRun, Last
    <2> QED
      BY <2>3 DEF OnNode
  <1>9. s \in SUBSET free /\ s \in SUBSET Nat /\ IsFiniteSet(s)
    BY <1>4, <1>8, FS_Subset
  <1>10. PICK x \in Nat : s = x .. x + size - 1
    BY <1>7, <1>9, RunIsInterval
  <1> QED
    BY <1>6, <1>7, <1>9, <1>10 DEF NoRunLeft

-----------------------------------------------------------------------------
(* The invariant of the two theorems about the answers.                    *)

(* The pools the plugin was asked for have the devices it proposed.        *)
AnswersKept ==
  \A a \in answers :
    /\ a.pool \in Requested /\ a.pool \notin todo /\ DeterminePoolType(a.pool) # SharedPoolID
    /\ Proposed(a, case.requests[a.pool], devs[a.pool])

(* NUMA_CPUS of an allocation of a cloudphone pool.                        *)
NodeCpus(n, ids) == {k \in Pools[n].CPUset : NodeOf[k] = NodeOf[First(CpusAllocated(n, ids))]}

(* The variables of a cloudphone are those of its only cloudphone pool.    *)
CloudphoneEnv ==
  \A r \in Requested : DeterminePoolType(r) = CloudphonePoolID =>
    /\ r \in todo => env.cloudphone = {} /\ env.numa = {}
    /\ r \notin todo => /\ env.cloudphone = CpusAllocated(r, devs[r])
                        /\ env.numa = NodeCpus(r, devs[r])

LEMMA AllocateCloudphone ==
  ASSUME NEW n \in OfferedPools, NEW ids, NEW a, a = Allocate(n, ids)
  PROVE  /\ DeterminePoolType(n) # CloudphonePoolID => a.cloudphone = {} /\ a.numa = {}
         /\ DeterminePoolType(n) = CloudphonePoolID =>
              a.cloudphone = CpusAllocated(n, ids) /\ a.numa = NodeCpus(n, ids)
  <1>1. DeterminePoolType(n) # DefaultPoolID
    BY DEF OfferedPools
  <1>2. CASE DeterminePoolType(n) = SharedPoolID
    <2>1. a = [NoEnv EXCEPT !.shared = SharedCPUs]
      BY <1>2 DEF Allocate, SharedPoolID, CloudphonePoolID
    <2> QED
      BY <1>2, <2>1 DEF NoEnv, SharedPoolID, CloudphonePoolID
  <1>3. CASE DeterminePoolType(n) = CloudphonePoolID
    <2>1. a = [NoEnv EXCEPT !.cloudphone = CpusAllocated(n, ids), !.numa = NodeCpus(n, ids)]
      BY <1>3 DEF Allocate, NodeCpus, SharedPoolID, CloudphonePoolID
    <2> QED
      BY <1>3, <2>1 DEF NoEnv
  <1>4. CASE DeterminePoolType(n) = ExclusivePoolID
    <2>1. a = [NoEnv EXCEPT !.exclusive = CpusAllocated(n, ids)]
      BY <1>4 DEF Allocate, SharedPoolID, CloudphonePoolID, ExclusivePoolID
    <2> QED
      BY <1>4, <2>1 DEF NoEnv, ExclusivePoolID, CloudphonePoolID
  <1> QED
    BY <1>1, <1>2, <1>3, <1>4, PoolTypeCases

LEMMA MergedCloudphone ==
  ASSUME NEW a, NEW e \in MergedEnvs(a)
  PROVE  /\ a.cloudphone = {} => e.cloudphone = env.cloudphone
         /\ env.cloudphone = {} => e.cloudphone = a.cloudphone
         /\ a.numa = {} => e.numa = env.numa
         /\ env.numa = {} => e.numa = a.numa
  <1> DEFINE values(v) == IF a[v] = {} THEN {env[v]} ELSE {a[v], env[v]} \ {{}}
  <1>1. \A v \in DOMAIN NoEnv : e[v] \in values(v)
    BY DEF MergedEnvs
  <1>2. "cloudphone" \in DOMAIN NoEnv /\ "numa" \in DOMAIN NoEnv
    BY DEF NoEnv
  <1>3. e["cloudphone"] \in values("cloudphone") /\ e["numa"] \in values("numa")
    BY <1>1, <1>2
  <1> QED
    BY <1>3

LEMMA GrantedFrame ==
  ASSUME IInv, NEW r \in todo, NEW ids, NEW said, Granted(r, ids, said), case' = case
  PROVE  /\ r \in Requested /\ r \in OfferedPools /\ case \in Cases /\ Requested' = Requested
         /\ devs'[r] = ids /\ \A q \in Requested : q # r => devs'[q] = devs[q]
         /\ todo' = todo \ {r} /\ answers' = answers \cup said
         /\ env' \in MergedEnvs(Allocate(r, ids))
  <1>1. r \in Requested /\ case \in Cases /\ Requested' = Requested /\ r \in OfferedPools
    BY CasesAssumption DEF IInv, TypeOK, Requested, OfferedPools
  <1>2. devs' = [devs EXCEPT ![r] = ids] /\ devs \in [Requested -> SUBSET Nat]
    BY DEF Granted, IInv, TypesInside
  <1> QED
    BY <1>1, <1>2 DEF Granted

LEMMA GrantedAnswers ==
  ASSUME IInv, AnswersKept, NEW r \in todo, NEW ids, NEW said, Granted(r, ids, said),
         case' = case,
         \A a \in said : /\ a.pool = r /\ DeterminePoolType(r) # SharedPoolID
                         /\ Proposed(a, case.requests[r], ids)
  PROVE  AnswersKept'
  <1> SUFFICES ASSUME NEW a \in answers'
               PROVE  /\ a.pool \in Requested /\ a.pool \notin todo'
                      /\ DeterminePoolType(a.pool) # SharedPoolID
                      /\ Proposed(a, case.requests[a.pool], devs'[a.pool])
    BY GrantedFrame DEF AnswersKept
  <1>1. CASE a \in answers
    BY <1>1, GrantedFrame DEF AnswersKept
  <1>2. CASE a \in said
    BY <1>2, GrantedFrame
  <1> QED
    BY <1>1, <1>2, GrantedFrame

LEMMA NextAnswersKept == IInv /\ AnswersKept /\ [Next]_vars => AnswersKept'
  <1> SUFFICES ASSUME IInv, AnswersKept, [Next]_vars PROVE AnswersKept'
    OBVIOUS
  <1>1. CASE UNCHANGED allocVars
    <2>1. Requested' = Requested
      BY <1>1 DEF allocVars, Requested
    <2> QED
      BY <1>1, <2>1 DEF AnswersKept, allocVars
  <1>2. ASSUME NEW r \in Requested, AllocatePool(r)
        PROVE  AnswersKept'
    <2>1. r \in todo /\ case' = case /\ \E ids : Granted(r, ids, {})
      BY <1>2 DEF AllocatePool
    <2> QED
      BY <2>1, GrantedAnswers
  <1>3. ASSUME NEW r \in Requested, AskAndAllocatePool(r)
        PROVE  AnswersKept'
    <2> DEFINE size == case.requests[r]
    <2>1. r \in todo /\ case' = case /\ DeterminePoolType(r) # SharedPoolID
      BY <1>3 DEF AskAndAllocatePool
    <2>2. PICK available \in SUBSET DeviceIDs(r) :
            \E preferred \in GetPreferredAllocation(available, size) :
              \E ids \in Grants(r, Range(preferred), available) :
                Granted(r, ids, {[pool |-> r, available |-> available, ids |-> preferred]})
      BY <1>3 DEF AskAndAllocatePool
    <2>3. PICK preferred \in GetPreferredAllocation(available, size) :
            \E ids \in Grants(r, Range(preferred), available) :
              Granted(r, ids, {[pool |-> r, available |-> available, ids |-> preferred]})
      BY <2>2
    <2> DEFINE a == [pool |-> r, available |-> available, ids |-> preferred]
    <2>4. PICK ids \in Grants(r, Range(preferred), available) : Granted(r, ids, {a})
      BY <2>3
    <2>5. ids \in SUBSET available /\ Cardinality(ids) = size /\ Range(preferred) \subseteq ids
      BY DEF Grants
    <2>6. r \in PoolNames
      BY CasesAssumption DEF IInv, TypeOK, Requested
    <2>7. size \in Nat
      <3>1. IsFiniteSet(ids)
        BY <2>5, <2>6, DeviceIDsFinite, FS_Subset
      <3> QED
        BY <2>5, <3>1, FS_CardinalityType
    <2>8. PICK k \in {NodeOf[d % NumCPU] : d \in available} :
            preferred = Visited(OnNode(available, k), size)[OnNode(available, k)]
      BY DEF GetPreferredAllocation
    <2>9. OnNode(available, k) # {}
      BY <2>8 DEF OnNode
    <2>10. a.pool = r /\ a.available = available /\ a.ids = preferred
      OBVIOUS
    <2> HIDE DEF a, size
    <2>11. Proposed(a, size, ids)
      BY <2>2, <2>5, <2>7, <2>8, <2>9, <2>10 DEF Proposed
    <2> QED
      BY <2>1, <2>4, <2>10, <2>11, GrantedAnswers DEF size
  <1>4. CASE UNCHANGED allocVars \/ \E r \in Requested : AllocatePool(r) \/ AskAndAllocatePool(r)
    BY <1>1, <1>2, <1>3, <1>4
  <1> QED
    BY <1>4 DEF Next, Kubelet, AskForSharedPool, CpuSetterWrites, Migrate, Starter,
       PollCPUSetCompletion, GiveUp, SetAffinity, StartProcess, ExecCommand, vars

LEMMA AnswersOffered ==
  ASSUME IInv, AnswersKept, NEW a \in answers
  PROVE  /\ a.pool \in OfferedPools /\ a.pool \in Requested
         /\ Proposed(a, case.requests[a.pool], devs[a.pool])
  <1>1. a.pool \in Requested /\ Proposed(a, case.requests[a.pool], devs[a.pool])
    BY DEF AnswersKept
  <1>2. a.pool \in OfferedPools
    BY <1>1, CasesAssumption DEF IInv, TypeOK, Requested, OfferedPools
  <1> QED
    BY <1>1, <1>2

LEMMA InitAnswersKept == Init => AnswersKept
  BY DEF Init, AnswersKept

(* Whatever devices of a pool without overcommitment are free, the loop    *)
(* of GetPreferredAllocation that stops short of the requested number has  *)
(* not overlooked a run of that length on the node it chose.               *)
THEOREM PreferredCompleteThm == Spec => []PreferredComplete
  <1>1. IInv /\ AnswersKept => PreferredComplete
    <2> SUFFICES ASSUME IInv, AnswersKept, NEW a \in answers,
                        Pools[a.pool].Overcommitment <= 1, ~Complete(a),
                        NEW s \in SUBSET OnNode(a.available, NodeOf[Last(a.ids) % NumCPU])
                 PROVE  ~(Cardinality(s) = case.requests[a.pool] /\ IsRun(s))
      BY DEF PreferredComplete
    <2>1. Len(a.ids) # case.requests[a.pool]
      BY DEF Complete
    <2> QED
      BY <2>1, AnswersOffered, ProposedComplete
  <1> QED
    BY <1>1, InitAnswersKept, NextAnswersKept, Invariance, PTL DEF Spec

LEMMA GrantedCloudphone ==
  ASSUME OneCloudphone, IInv, CloudphoneEnv, NEW r \in todo, NEW ids, NEW said,
         Granted(r, ids, said), case' = case
  PROVE  CloudphoneEnv'
  <1> SUFFICES ASSUME NEW q \in Requested, DeterminePoolType(q) = CloudphonePoolID
               PROVE  /\ q \in todo' => env'.cloudphone = {} /\ env'.numa = {}
                      /\ q \notin todo' => /\ env'.cloudphone = CpusAllocated(q, devs'[q])
                                           /\ env'.numa = NodeCpus(q, devs'[q])
    BY GrantedFrame DEF CloudphoneEnv
  <1>1. r \in Requested /\ r \in OfferedPools /\ case \in Cases
    BY GrantedFrame
  <1>2. env' \in MergedEnvs(Allocate(r, ids)) /\ todo' = todo \ {r}
    BY GrantedFrame
  <1>3. CASE q = r
    <2>1. env.cloudphone = {} /\ env.numa = {}
      BY <1>3 DEF CloudphoneEnv
    <2>2. env'.cloudphone = CpusAllocated(r, ids) /\ env'.numa = NodeCpus(r, ids)
      BY <1>1, <1>2, <1>3, <2>1, AllocateCloudphone, MergedCloudphone
    <2>3. devs'[r] = ids
      BY GrantedFrame
    <2> QED
      BY <1>2, <1>3, <2>2, <2>3
  <1>4. CASE q # r
    <2>1. DeterminePoolType(r) # CloudphonePoolID
      BY <1>1, <1>4 DEF OneCloudphone, Requested
    <2>2. env'.cloudphone = env.cloudphone /\ env'.numa = env.numa
      BY <1>1, <1>2, <2>1, AllocateCloudphone, MergedCloudphone
    <2>3. devs'[q] = devs[q]
      BY <1>4, GrantedFrame
    <2> QED
      BY <1>2, <1>4, <2>2, <2>3 DEF CloudphoneEnv
  <1> QED
    BY <1>3, <1>4

LEMMA NextCloudphoneEnv ==
  ASSUME OneCloudphone
  PROVE  IInv /\ CloudphoneEnv /\ [Next]_vars => CloudphoneEnv'
  <1> SUFFICES ASSUME IInv, CloudphoneEnv, [Next]_vars PROVE CloudphoneEnv'
    OBVIOUS
  <1>1. CASE UNCHANGED allocVars
    <2>1. Requested' = Requested
      BY <1>1 DEF allocVars, Requested
    <2> QED
      BY <1>1, <2>1 DEF CloudphoneEnv, allocVars
  <1>2. ASSUME NEW r \in Requested, AllocatePool(r) \/ AskAndAllocatePool(r)
        PROVE  CloudphoneEnv'
    <2>1. r \in todo /\ case' = case /\ \E ids, said : Granted(r, ids, said)
      BY <1>2 DEF AllocatePool, AskAndAllocatePool
    <2> QED
      BY <2>1, GrantedCloudphone
  <1>3. CASE UNCHANGED allocVars \/ \E r \in Requested : AllocatePool(r) \/ AskAndAllocatePool(r)
    BY <1>1, <1>2, <1>3
  <1> QED
    BY <1>3 DEF Next, Kubelet, AskForSharedPool, CpuSetterWrites, Migrate, Starter,
       PollCPUSetCompletion, GiveUp, SetAffinity, StartProcess, ExecCommand, vars

(* Where the devices are on one node, so are the siblings Allocate adds.   *)
LEMMA AllocatedInNodeCpus ==
  ASSUME SiblingsInPool, NEW n \in PoolNames, DeterminePoolType(n) = CloudphonePoolID,
         NEW ids, ids \subseteq DeviceIDs(n),
         NEW cpus, cpus = CalculateFinalExclusiveSet(ids),
         \A x, y \in cpus : NodeOf[x] = NodeOf[y]
  PROVE  CpusAllocated(n, ids) \subseteq NodeCpus(n, ids)
  <1> DEFINE all == CpusAllocated(n, ids)
  <1>1. cpus = {d % NumCPU : d \in ids}
    BY DEF CalculateFinalExclusiveSet
  <1>2. cpus \subseteq Pools[n].CPUset
    BY <1>1, DeviceCpu
  <1>3. /\ \A x \in all : x \in Pools[n].CPUset /\ \E y \in cpus : NodeOf[x] = NodeOf[y]
        /\ all \subseteq Nat
    <2>1. CASE Pools[n].HTPolicy = MultiThreadHTPolicy
      <3>1. all = AddHTSiblingsToCPUSet(cpus)
        BY <1>1, <2>1 DEF CpusAllocated
      <3> QED
        BY <1>2, <2>1, <3>1, PoolsAssumption DEF SiblingsInPool, AddHTSiblingsToCPUSet, CPUs
    <2>2. CASE Pools[n].HTPolicy # MultiThreadHTPolicy
      <3>1. all = cpus
        BY <1>1, <2>2 DEF CpusAllocated
      <3> QED
        BY <1>2, <3>1, PoolsAssumption DEF CPUs
    <2> QED
      BY <2>1, <2>2
  <1>4. \A x, y \in all : NodeOf[x] = NodeOf[y]
    BY <1>3
  <1>5. all # {} => First(all) \in all
    BY <1>3, FirstIsLowest
  <1> QED
    BY <1>3, <1>4, <1>5 DEF NodeCpus

(* Devices taken as GetPreferredAllocation proposes give a container as    *)
(* many distinct CPUs as it asked for, side by side on one NUMA node, and  *)
(* a cloudphone no CPU outside the set it is confined to, whatever devices *)
(* are free and however the allocations of a container interleave: if no   *)
(* overcommitted pool has both ends of the node, a container asks for one  *)
(* cloudphone pool and the siblings of such a pool stay on their node.     *)
THEOREM CpusTogetherThm ==
  ASSUME RoundsApart, OneCloudphone, SiblingsInPool
  PROVE  Spec => []CpusTogether
  <1>1. Init => CloudphoneEnv
    BY DEF Init, CloudphoneEnv, Requested, NoEnv
  <1>2. IInv /\ AnswersKept /\ CloudphoneEnv => CpusTogether
    <2> SUFFICES ASSUME IInv, AnswersKept, CloudphoneEnv, NEW a \in answers, Complete(a),
                        NEW cpus, cpus = CalculateFinalExclusiveSet(devs[a.pool])
                 PROVE  /\ Cardinality(cpus) = case.requests[a.pool]
                        /\ IsRun(cpus)
                        /\ \A x, y \in cpus : NodeOf[x] = NodeOf[y]
                        /\ DeterminePoolType(a.pool) = CloudphonePoolID =>
                             env.cloudphone \subseteq env.numa
      BY DEF CpusTogether
    <2>1. /\ Cardinality(cpus) = case.requests[a.pool]
          /\ IsRun(cpus)
          /\ \A x, y \in cpus : NodeOf[x] = NodeOf[y]
      BY AnswersOffered, ProposedTogether DEF Complete
    <2>2. ASSUME DeterminePoolType(a.pool) = CloudphonePoolID
          PROVE  env.cloudphone \subseteq env.numa
      <3>1. /\ env.cloudphone = CpusAllocated(a.pool, devs[a.pool])
            /\ env.numa = NodeCpus(a.pool, devs[a.pool])
        BY <2>2 DEF AnswersKept, CloudphoneEnv
      <3>2. a.pool \in PoolNames /\ devs[a.pool] \subseteq DeviceIDs(a.pool)
        BY AnswersOffered DEF OfferedPools, Proposed
      <3> QED
        BY <2>1, <2>2, <3>1, <3>2, AllocatedInNodeCpus
    <2> QED
      BY <2>1, <2>2
  <1>3. IInv /\ CloudphoneEnv /\ [Next]_vars => CloudphoneEnv'
    BY NextCloudphoneEnv
  <1> QED
    BY <1>1, <1>2, <1>3, InitAnswersKept, NextAnswersKept, Invariance, PTL DEF Spec

=============================================================================
