-------------------------- MODULE PoolConfigProofs --------------------------
(***************************************************************************)
(* Facts about the operators of PoolConfig, for every configuration of     *)
(* pools: whatever determineCorrectCpuset and the device plugin compute    *)
(* consists of CPUs of the node, and device ids name the CPUs of their     *)
(* pool.  The proofs about CPUSetter and about the process-starter rest on *)
(* them.                                                                   *)
(***************************************************************************)
EXTENDS PoolConfig, TLAPS, FiniteSetTheorems

LEMMA CPUsFinite == IsFiniteSet(CPUs)
  <1>1. 0 \in Int /\ NumCPU - 1 \in Int
    BY NumCPUAssumption
  <1> QED
    BY <1>1, FS_Interval DEF CPUs

(* Device ids are taken modulo the number of CPUs, so they always name a   *)
(* CPU of the node.                                                        *)
LEMMA FinalSetType ==
  ASSUME NEW ids \in SUBSET Nat
  PROVE  CalculateFinalExclusiveSet(ids) \subseteq CPUs
  <1>1. \A d \in Nat : d % NumCPU \in 0 .. NumCPU - 1
    BY NumCPUAssumption, SMT
  <1> QED
    BY <1>1 DEF CalculateFinalExclusiveSet, CPUs

LEMMA SelectPoolType ==
  ASSUME NEW prefix, NEW pool \in SelectPool(prefix)
  PROVE  pool.CPUset \subseteq CPUs
  <1>1. CASE pool = ZeroPool
    BY <1>1 DEF ZeroPool
  <1>2. CASE \E n \in PoolNames : pool = Pools[n]
    BY <1>2, PoolsAssumption
  <1> QED
    BY <1>1, <1>2 DEF SelectPool

LEMMA DefaultSetsType == \A d \in DefaultSets \cup SharedPoolSets : d \subseteq CPUs
  BY SelectPoolType DEF DefaultSets, SharedPoolSets

LEMMA SiblingsType ==
  ASSUME NEW S \in SUBSET CPUs
  PROVE  AddHTSiblingsToCPUSet(S) \subseteq CPUs
  BY PoolsAssumption DEF AddHTSiblingsToCPUSet

LEMMA ExclusiveSetsOfType ==
  ASSUME NEW r, NEW ids \in SUBSET Nat, NEW s \in ExclusiveSetsOf(r, ids)
  PROVE  s \subseteq CPUs
  <1>1. CalculateFinalExclusiveSet(ids) \subseteq CPUs
    BY FinalSetType
  <1> QED
    BY <1>1, SiblingsType DEF ExclusiveSetsOf

LEMMA NumaCoresType ==
  ASSUME NEW pool, NEW r, NEW other \in SelectPool(r), NEW cpus
  PROVE  NumaCores(pool, other, cpus) \subseteq {CoreOf[k] : k \in other.CPUset}
  BY DEF NumaCores

LEMMA DecidedFields ==
  ASSUME NEW cfg, NEW real
  PROVE  /\ ~Decided(cfg, real).err
         /\ Decided(cfg, real).cfg = cfg
         /\ Decided(cfg, real).real = real
  BY DEF Decided

LEMMA FailedFields == Failed.err /\ Failed.cfg = {} /\ Failed.real = {}
  BY DEF Failed

LEMMA CloudphoneOutcomesType ==
  ASSUME NEW r, NEW ids \in SUBSET Nat, NEW o \in CloudphoneOutcomes(r, ids)
  PROVE  o.cfg \subseteq CPUs /\ o.real \subseteq CPUs
  <1> DEFINE cpus == CalculateFinalExclusiveSet(ids)
  <1>1. CASE o = Failed
    BY <1>1, FailedFields
  <1>2. CASE \E pool \in SelectPool(r), other \in SelectPool(r) :
               o = Decided(cpus, NumaCores(pool, other, cpus))
    <2>1. PICK pool \in SelectPool(r), other \in SelectPool(r) :
            o = Decided(cpus, NumaCores(pool, other, cpus))
      BY <1>2
    <2>2. NumaCores(pool, other, cpus) \subseteq CPUs
      BY NumaCoresType, SelectPoolType, PoolsAssumption
    <2> QED
      BY <2>1, <2>2, DecidedFields, FinalSetType
  <1> QED
    BY <1>1, <1>2 DEF CloudphoneOutcomes

(* Whatever determineCorrectCpuset returns consists of CPUs of the node.   *)
LEMMA OutcomesType ==
  ASSUME NEW reqs, NEW devs,
         \A r \in reqs : RequestKind(r) \in CheckpointKinds => devs[r] \in SUBSET Nat,
         NEW o \in DetermineCorrectCpuset(reqs, devs)
  PROVE  o.cfg \subseteq CPUs /\ o.real \subseteq CPUs
  <1> DEFINE cloud == OfKind(reqs, CloudphonePoolID)
  <1>1. CASE cloud # {}
    <2>1. PICK r \in cloud : o \in CloudphoneOutcomes(r, devs[r])
      BY <1>1 DEF DetermineCorrectCpuset
    <2>2. devs[r] \in SUBSET Nat
      BY DEF OfKind, CheckpointKinds
    <2> QED
      BY <2>1, <2>2, CloudphoneOutcomesType
  <1>2. CASE cloud = {}
    <2>1. PICK sh \in SharedSets(reqs), ex \in ExclusiveSets(reqs, devs) :
            \E s \in OwnOrDefault(sh, ex) : o = Decided(s, s)
      BY <1>2 DEF DetermineCorrectCpuset
    <2>2. sh \subseteq CPUs
      BY DefaultSetsType DEF SharedSets
    <2>3. ex \subseteq CPUs
      <3>1. CASE ex = {}
        BY <3>1
      <3>2. CASE \E r \in OfKind(reqs, ExclusivePoolID) : ex \in ExclusiveSetsOf(r, devs[r])
        <4>1. PICK r \in OfKind(reqs, ExclusivePoolID) : ex \in ExclusiveSetsOf(r, devs[r])
          BY <3>2
        <4>2. devs[r] \in SUBSET Nat
          BY DEF OfKind, CheckpointKinds
        <4> QED
          BY <4>1, <4>2, ExclusiveSetsOfType
      <3> QED
        BY <3>1, <3>2 DEF ExclusiveSets
    <2>4. PICK s \in OwnOrDefault(sh, ex) : o = Decided(s, s)
      BY <2>1
    <2>5. s \subseteq CPUs
      BY <2>2, <2>3, DefaultSetsType DEF OwnOrDefault
    <2> QED
      BY <2>4, <2>5, DecidedFields
  <1> QED
    BY <1>1, <1>2

LEMMA DeviceIDsType ==
  ASSUME NEW n \in PoolNames
  PROVE  DeviceIDs(n) \subseteq Nat
  <1>1. \A cpu \in Pools[n].CPUset : cpu \in Nat
    BY PoolsAssumption, NumCPUAssumption DEF CPUs
  <1>2. \A k \in Nat : k * NumCPU \in Nat
    BY NumCPUAssumption
  <1>3. \A cpu \in Pools[n].CPUset, k \in Nat : cpu + k * NumCPU \in Nat
    BY <1>1, <1>2
  <1> DEFINE rounds == IF Pools[n].Overcommitment < 1 THEN 1 ELSE Pools[n].Overcommitment
  <1>4. rounds \in Int
    BY PoolsAssumption
  <1>5. \A k \in 0 .. rounds - 1 : k \in Nat
    BY <1>4
  <1> QED
    BY <1>3, <1>5 DEF DeviceIDs

(* Every device id of a pool stands for a CPU of the pool, in whatever     *)
(* round of overcommitment it is offered.                                  *)
LEMMA DeviceCpu ==
  ASSUME NEW n \in PoolNames, NEW d \in DeviceIDs(n)
  PROVE  d % NumCPU \in Pools[n].CPUset
  <1> DEFINE rounds == IF Pools[n].Overcommitment < 1 THEN 1 ELSE Pools[n].Overcommitment
  <1>1. rounds \in Int
    BY PoolsAssumption
  <1>2. PICK cpu \in Pools[n].CPUset, k \in 0 .. rounds - 1 : d = cpu + k * NumCPU
    BY DEF DeviceIDs
  <1>3. cpu \in 0 .. NumCPU - 1 /\ k \in Nat /\ NumCPU \in Nat \ {0}
    BY <1>1, PoolsAssumption, NumCPUAssumption DEF CPUs
  <1>4. (cpu + k * NumCPU) % NumCPU = cpu
    BY <1>3
  <1> QED
    BY <1>2, <1>4
=============================================================================
