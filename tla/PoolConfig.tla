----------------------------- MODULE PoolConfig -----------------------------
(***************************************************************************)
(* The CPU pools of one node and what the code computes from them          *)
(* (pkg/types/pool.go, determineCorrectCpuset in                           *)
(* pkg/sethandler/controller.go).  There is no state here: the             *)
(* configuration is read once, when a process starts.                      *)
(*                                                                         *)
(* Go iterates over a map in an arbitrary order.  An operator whose result *)
(* depends on that order is given as the set of its possible results.      *)
(***************************************************************************)
EXTENDS PoolTypes, Integers, FiniteSets

CONSTANTS
  NumCPU,      \* numOfCpus: the number of CPUs of the node
  Pools,       \* pool name -> [CPUset, HTPolicy, Overcommitment]
  HTSiblings,  \* CPU -> its hyperthread siblings (lscpu, external)
  NodeOf,      \* CPU -> its NUMA node          (lscpu, external)
  CoreOf       \* CPU -> Topology.Core of it    (lscpu, external)

CPUs == 0 .. NumCPU - 1
AllCpus == CPUs

(* The pools are those ReadPoolConfigFile returns: where the file gives no *)
(* HTPolicy it is singleThreaded by then.                                  *)
PoolNames == DOMAIN Pools

ASSUME NumCPUAssumption == NumCPU \in Nat \ {0}

ASSUME PoolsAssumption ==
  /\ \A n \in PoolNames : Pools[n] \in [CPUset : SUBSET CPUs, HTPolicy : STRING,
                                        Overcommitment : Int]
  /\ HTSiblings \in [CPUs -> SUBSET CPUs]
  /\ NodeOf \in [CPUs -> Nat]
  /\ CoreOf \in [CPUs -> CPUs]

(* The zero value of a Pool, what SelectPool returns when nothing matches.  *)
ZeroPool == [CPUset |-> {}, HTPolicy |-> "", Overcommitment |-> 0]

(* The first match in map order: any pool whose name starts with prefix.   *)
SelectPool(prefix) ==
  LET matching == {n \in PoolNames : HasPrefix(n, prefix)}
  IN  IF matching = {} THEN {ZeroPool} ELSE {Pools[n] : n \in matching}

DefaultSets == {pool.CPUset : pool \in SelectPool(<<DefaultPoolID>>)}
SharedPoolSets == {pool.CPUset : pool \in SelectPool(<<SharedPoolID>>)}

(* The ids of the devices the plugin of a pool that is not shared offers:  *)
(* each CPU once per overcommitment round.                                 *)
DeviceIDs(name) ==
  LET rounds == IF Pools[name].Overcommitment < 1 THEN 1 ELSE Pools[name].Overcommitment
  IN  {cpu + k * NumCPU : cpu \in Pools[name].CPUset, k \in 0 .. rounds - 1}

-----------------------------------------------------------------------------
(* The branch of determineCorrectCpuset a requested pool falls into.  The  *)
(* words are looked for anywhere in the name, in this order.               *)
RequestKind(r) ==
  IF HasWord(r, SharedPoolID) THEN SharedPoolID
  ELSE IF HasWord(r, ExclusivePoolID) THEN ExclusivePoolID
  ELSE IF HasWord(r, CloudphonePoolID) THEN CloudphonePoolID
  ELSE DefaultPoolID

OfKind(reqs, kind) == {r \in reqs : RequestKind(r) = kind}

(* The requests whose CPUs are looked up in kubelet's checkpoint file.     *)
CheckpointKinds == {ExclusivePoolID, CloudphonePoolID}

(* Faulty variant: the CPUs are counted from one.                          *)
CalculateFinalExclusiveSetOffByOne(ids) == {(d + 1) % NumCPU : d \in ids}

(* Device ids are CPU numbers shifted by multiples of numOfCpus.           *)
CalculateFinalExclusiveSet(ids) == {d % NumCPU : d \in ids}

AddHTSiblingsToCPUSet(cpus) == cpus \cup UNION {HTSiblings[x] : x \in cpus}

(* Faulty variant: the HTPolicy is ignored.                                *)
ExclusiveSetsOfAnyPolicy(r, ids) == {AddHTSiblingsToCPUSet(CalculateFinalExclusiveSet(ids))}

(* What an exclusive request for pool r with the device ids contributes.   *)
ExclusiveSetsOf(r, ids) ==
  LET cpus == CalculateFinalExclusiveSet(ids)
  IN  {IF pool.HTPolicy = MultiThreadHTPolicy THEN AddHTSiblingsToCPUSet(cpus)
                                              ELSE cpus : pool \in SelectPool(r)}

(* A later shared or exclusive request replaces the set of an earlier one, *)
(* so one of each kind is left when the loop ends.                         *)
SharedSets(reqs) ==
  IF OfKind(reqs, SharedPoolID) = {} THEN {{}} ELSE SharedPoolSets

ExclusiveSets(reqs, devs) ==
  LET excl == OfKind(reqs, ExclusivePoolID)
  IN  IF excl = {} THEN {{}} ELSE UNION {ExclusiveSetsOf(r, devs[r]) : r \in excl}

(* Faulty variant: every core of the NUMA node.                            *)
NumaCoresOfNode(pool, other, cpus) ==
  {CoreOf[k] : k \in {x \in CPUs : \E y \in cpus : NodeOf[x] = NodeOf[y]}}

(* Every core of the pool that is on the NUMA node of the first allocated  *)
(* CPU.  A CPU outside the pool's CoreMap has the zero value's node 0.     *)
NumaCores(pool, other, cpus) ==
  LET first == CHOOSE x \in cpus : \A y \in cpus : x <= y
      node  == IF first \in pool.CPUset THEN NodeOf[first] ELSE 0
  IN  {CoreOf[k] : k \in {x \in other.CPUset : NodeOf[x] = node}}

Failed == [err |-> TRUE, cfg |-> {}, real |-> {}]
Decided(cfg, real) == [err |-> FALSE, cfg |-> cfg, real |-> real]

CloudphoneOutcomes(r, ids) ==
  LET cpus == CalculateFinalExclusiveSet(ids)
  IN  IF cpus = {} THEN {Failed}
      ELSE {Decided(cpus, NumaCores(pool, other, cpus)) :
              pool \in SelectPool(r), other \in SelectPool(r)}

(* Faulty variant: a shared request hides the exclusive one.               *)
SharedFirst(shared, exclusive) ==
  IF shared # {} THEN {shared} ELSE IF exclusive # {} THEN {exclusive} ELSE DefaultSets

OwnOrDefault(shared, exclusive) ==
  IF shared \cup exclusive # {} THEN {shared \cup exclusive} ELSE DefaultSets

(* The possible results of determineCorrectCpuset for a container that     *)
(* requests the pools reqs and whose checkpoint entries are devs.          *)
(* Reaching a cloudphone request ends the loop.                            *)
DetermineCorrectCpuset(reqs, devs) ==
  LET cloud == OfKind(reqs, CloudphonePoolID)
  IN  IF cloud # {}
      THEN UNION {CloudphoneOutcomes(r, devs[r]) : r \in cloud}
      ELSE {Decided(s, s) : s \in UNION {OwnOrDefault(sh, ex) :
              sh \in SharedSets(reqs), ex \in ExclusiveSets(reqs, devs)}}
=============================================================================
