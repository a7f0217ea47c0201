--------------------------- MODULE ProcessStarter ---------------------------
(***************************************************************************)
(* One container of a node from the allocation of its devices to the start *)
(* of its processes: the devices the plugin's GetPreferredAllocation       *)
(* proposes, the environment its Allocate returns, CPU_POOLS as the        *)
(* webhook sets it, and the process-starter that waits for CPUSetter       *)
(* (cmd/cpu-device-plugin/cpu-device-plugin.go,                            *)
(* cmd/process-starter/process_starter.go).                                *)
(*                                                                         *)
(* CPUSetter enters with the writes CpuSetter.tla shows it to make to the  *)
(* cgroup of a container, as often and as late as it may make them: a set  *)
(* determineCorrectCpuset may return, and for a container that was         *)
(* restarted also the default pool, by a worker or a reconciler that does  *)
(* not know the new container id yet.                                      *)
(*                                                                         *)
(* sched_setaffinity(0, ...) binds the calling thread.  The Go scheduler   *)
(* may move the main goroutine to another thread at any time (there is no  *)
(* LockOSThread), and a started process inherits the mask of the thread    *)
(* that starts it.                                                         *)
(***************************************************************************)
EXTENDS PoolConfig, CpuAnnotation

CONSTANTS
  Cases,     \* the containers, see below
  MaxPolls,  \* the code's 90
  Threads    \* the OS threads of the process-starter

(* A container is [requests : pool name -> quantity, processes : of its    *)
(* annotation, args : the starter is called with arguments, restarted : it *)
(* is not the first one of its name in the Pod].  Without annotation the   *)
(* webhook gives the starter the command as arguments.  Only the pools the *)
(* device plugin offers can be granted, so a container that requests       *)
(* another one is never admitted.                                          *)
ASSUME CasesAssumption ==
  /\ MaxPolls \in Nat \ {0}
  /\ Threads # {}
  /\ \A k \in Cases :
       /\ \A r \in DOMAIN k.requests : r \in PoolNames /\ DeterminePoolType(r) # DefaultPoolID
       /\ k.processes \in Seq([PoolName : PoolNames, CPUs : Int])
       /\ AnnotationAccepted(k)
       /\ k.args \in BOOLEAN /\ k.restarted \in BOOLEAN

VARIABLES
  case,     \* the container
  todo,     \* the requested pools kubelet has not allocated yet
  devs,     \* the device ids kubelet granted, by requested pool
  answers,  \* the answers of GetPreferredAllocation: sets of [pool, available, ids]
  env,      \* EXCLUSIVE_CPUS, SHARED_CPUS, CLOUDPHONE_CPUS, NUMA_CPUS
  cpuset,   \* cpuset.cpus of the container
  pc,       \* "admit" until the devices are allocated, then of the process-starter
  polls,
  excl, shared,  \* exclCPUs, sharedCPUs of main
  index,         \* the process of the annotation main is at
  thread,        \* the thread main runs on
  affinity,      \* the affinity mask of every thread
  mask,          \* the mask of the last setAffinity
  started        \* the processes: [PoolName, mask, cpus]

allocVars == <<case, todo, devs, answers, env>>
vars == <<allocVars, cpuset, pc, polls, excl, shared, index, thread, affinity, mask, started>>

Requested == DOMAIN case.requests

-----------------------------------------------------------------------------
(* GetPreferredAllocation.                                                 *)

First(cpus) == CHOOSE x \in cpus : \A y \in cpus : x <= y
Distance(x, y) == IF x < y THEN y - x ELSE x - y

(* Faulty variants: gaps do not count; devices behind a gap are skipped.   *)
PreferNextAnyway(ids, id, size) ==
  IF Len(ids) = size \/ \E i \in 1 .. Len(ids) : ids[i] % NumCPU = id % NumCPU THEN ids
  ELSE Append(ids, id)
PreferNextSkipping(ids, id, size) ==
  IF Len(ids) = size \/ \E i \in 1 .. Len(ids) : ids[i] % NumCPU = id % NumCPU THEN ids
  ELSE IF ids # <<>> /\ Distance(Last(ids), id) # 1 THEN ids
  ELSE Append(ids, id)

(* One round of the loop over the devices of a node.  A device of a CPU    *)
(* that is taken already is skipped, and behind a gap the list starts      *)
(* anew.                                                                   *)
PreferNext(ids, id, size) ==
  IF Len(ids) = size \/ \E i \in 1 .. Len(ids) : ids[i] % NumCPU = id % NumCPU THEN ids
  ELSE IF ids # <<>> /\ Distance(Last(ids), id) # 1 THEN <<id>>
  ELSE Append(ids, id)

OnNode(available, node) == {d \in available : NodeOf[d % NumCPU] = node}

(* The loop over the devices of a node, from the highest id down: the list *)
(* after it has visited the devices s, the lowest of them last.            *)
Visited(devices, size) ==
  LET list[s \in SUBSET devices] ==
        IF s = {} THEN <<>> ELSE PreferNext(list[s \ {First(s)}], First(s), size)
  IN  list

(* The smooth weighted choice of a node is used once, so the node with the *)
(* most devices wins; with several of them it is any.                      *)
GetPreferredAllocation(available, size) ==
  LET nodes == {NodeOf[d % NumCPU] : d \in available}
      best  == {k \in nodes : \A j \in nodes :
                  Cardinality(OnNode(available, k)) >= Cardinality(OnNode(available, j))}
  IN  {Visited(OnNode(available, k), size)[OnNode(available, k)] : k \in best}

-----------------------------------------------------------------------------
(* Allocate.                                                               *)

NoEnv == [exclusive |-> {}, shared |-> {}, cloudphone |-> {}, numa |-> {}]

(* Faulty variant: the policy of the pool is not looked at.                *)
CpusAllocatedOnly(n, ids) == {d % NumCPU : d \in ids}

(* The CPUs behind the granted devices, with siblings where the pool's     *)
(* policy says so.                                                         *)
CpusAllocated(n, ids) ==
  LET cpus == {d % NumCPU : d \in ids}
  IN  IF Pools[n].HTPolicy = MultiThreadHTPolicy THEN AddHTSiblingsToCPUSet(cpus) ELSE cpus

(* sharedPoolCPUs of every device manager.                                 *)
SharedCPUs ==
  UNION {Pools[n].CPUset : n \in {m \in PoolNames : DeterminePoolType(m) = SharedPoolID}}

(* The variables the plugin of pool n answers with.                        *)
Allocate(n, ids) ==
  LET cpus == CpusAllocated(n, ids)
      type == DeterminePoolType(n)
  IN  CASE type = SharedPoolID -> [NoEnv EXCEPT !.shared = SharedCPUs]
        [] type = CloudphonePoolID ->
             [NoEnv EXCEPT !.cloudphone = cpus,
                           !.numa = {k \in Pools[n].CPUset : NodeOf[k] = NodeOf[First(cpus)]}]
        [] OTHER -> [NoEnv EXCEPT !.exclusive = cpus]

(* Kubelet merges the answers (external).  A variable two plugins set has  *)
(* the value of either.                                                    *)
MergedEnvs(answer) ==
  LET values(v) == IF answer[v] = {} THEN {env[v]} ELSE {answer[v], env[v]} \ {{}}
  IN  {e \in [DOMAIN NoEnv -> UNION {values(v) : v \in DOMAIN NoEnv}] :
         \A v \in DOMAIN NoEnv : e[v] \in values(v)}

-----------------------------------------------------------------------------
Init ==
  /\ case \in Cases
  /\ todo = DOMAIN case.requests
  /\ devs = [r \in DOMAIN case.requests |-> {}] /\ answers = {} /\ env = NoEnv
  /\ cpuset = AllCpus
  /\ pc = "admit" /\ polls = 0
  /\ excl = {} /\ shared = {} /\ index = 1
  /\ thread \in Threads
  /\ affinity = [t \in Threads |-> AllCpus]
  /\ mask = {} /\ started = <<>>

-----------------------------------------------------------------------------
(* Kubelet's side of the allocation (external).                            *)

(* Devices of r are free, and kubelet takes as many as requested: first    *)
(* the ones the plugin prefers, if kubelet asks for them at all.           *)
Grants(r, preferred, available) ==
  {g \in SUBSET available : /\ Cardinality(g) = case.requests[r]
                            /\ preferred \subseteq g}

Granted(r, ids, said) ==
  /\ devs' = [devs EXCEPT ![r] = ids]
  /\ answers' = answers \cup said
  /\ env' \in MergedEnvs(Allocate(r, ids))
  /\ todo' = todo \ {r}
  /\ pc' = IF todo' = {} THEN "poll" ELSE "admit"

(* The devices of a shared pool are thousandths of a CPU; which of them    *)
(* are granted says nothing about CPUs.                                    *)
AllocatePool(r) ==
  /\ pc = "admit" /\ r \in todo
  /\ IF DeterminePoolType(r) = SharedPoolID THEN Granted(r, {0}, {})
     ELSE \E available \in SUBSET DeviceIDs(r) :
            \E ids \in Grants(r, {}, available) : Granted(r, ids, {})
  /\ UNCHANGED <<case, cpuset, polls, excl, shared, index, thread, affinity, mask, started>>

AskAndAllocatePool(r) ==
  /\ pc = "admit" /\ r \in todo /\ DeterminePoolType(r) # SharedPoolID
  /\ \E available \in {a \in SUBSET DeviceIDs(r) : Cardinality(a) >= case.requests[r]} :
       \E preferred \in GetPreferredAllocation(available, case.requests[r]) :
         \E ids \in Grants(r, Range(preferred), available) :
           Granted(r, ids, {[pool |-> r, available |-> available, ids |-> preferred]})
  /\ UNCHANGED <<case, cpuset, polls, excl, shared, index, thread, affinity, mask, started>>

(* The plugin knows the NUMA nodes of no device of a shared pool and       *)
(* panics; the container is not admitted.                                  *)
AskForSharedPool(r) ==
  /\ pc = "admit" /\ r \in todo /\ DeterminePoolType(r) = SharedPoolID
  /\ pc' = "refused"
  /\ UNCHANGED <<allocVars, cpuset, polls, excl, shared, index, thread, affinity, mask, started>>

Kubelet == \E r \in Requested : AllocatePool(r) \/ AskAndAllocatePool(r) \/ AskForSharedPool(r)

(* What CPUSetter may compute for the container.                           *)
OwnSets == {o.real : o \in {x \in DetermineCorrectCpuset(Requested, devs) : ~x.err}} \ {{}}

(* What it may write: on the first start of the container nothing else     *)
(* (FirstStartOwnThm in GrantedCpusProofs); a restarted one it may also    *)
(* take for the infra container and give the default pool.                 *)
WrittenSets == (OwnSets \cup (IF case.restarted THEN DefaultSets ELSE {})) \ {{}}

(* applyCpusetToContainer or applyCpusetToInfraContainer, called by a      *)
(* worker or by the reconciler at any time while the container exists and  *)
(* any number of times.  Writing what is there already does nothing; else  *)
(* the kernel gives every thread and process of the cgroup the new set,    *)
(* whatever it was bound to.                                               *)
CpuSetterWrites ==
  /\ pc \notin {"admit", "refused"}
  /\ cpuset' \in WrittenSets \ {cpuset}
  /\ affinity' = [t \in Threads |-> cpuset']
  /\ started' = [i \in 1 .. Len(started) |-> [started[i] EXCEPT !.cpus = cpuset']]
  /\ UNCHANGED <<allocVars, pc, polls, excl, shared, index, thread, mask>>

(* The Go scheduler moves the main goroutine (external).                   *)
Migrate ==
  /\ pc \in {"pin", "start", "exec"}
  /\ thread' \in Threads \ {thread}
  /\ UNCHANGED <<allocVars, cpuset, pc, polls, excl, shared, index, affinity, mask, started>>

-----------------------------------------------------------------------------
(* pollCPUSetCompletion.                                                   *)

(* expCpus: {} stands for "a variable is still empty, sleep and retry".    *)
ExpectedCpus ==
  CASE CPUPools(case) = {CloudphonePoolID} -> IF env.cloudphone = {} THEN {} ELSE env.numa
    [] CPUPools(case) = {ExclusivePoolID, SharedPoolID} ->
         IF env.exclusive = {} \/ env.shared = {} THEN {} ELSE env.exclusive \cup env.shared
    [] CPUPools(case) = {ExclusivePoolID} -> env.exclusive
    [] CPUPools(case) = {SharedPoolID} -> env.shared
    [] OTHER -> {}

(* The cgroup file is opened once the variables are there, and where       *)
(* CPU_POOLS names none of these kinds.                                    *)
OpensCgroup == ExpectedCpus # {} \/ CPUPools(case) = {DefaultPoolID}
Completed == ExpectedCpus # {} /\ ExpectedCpus = cpuset

(* A list is only read where CPU_POOLS names its kind.                     *)
ListOf(kind, cpus) == IF kind \in CPUPools(case) THEN cpus ELSE {}
AfterPolls == IF case.processes = <<>> THEN "exec" ELSE "pin"

(* Faulty variant: having the expected CPUs is taken for being confined.   *)
PollSubset ==
  /\ pc = "poll" /\ polls < MaxPolls
  /\ IF ExpectedCpus # {} /\ ExpectedCpus \subseteq cpuset
     THEN /\ pc' = AfterPolls
          /\ excl' = ListOf(ExclusivePoolID, env.exclusive)
          /\ shared' = ListOf(SharedPoolID, env.shared)
          /\ UNCHANGED polls
     ELSE polls' = polls + 1 /\ UNCHANGED <<pc, excl, shared>>
  /\ UNCHANGED <<allocVars, cpuset, index, thread, affinity, mask, started>>

(* Faulty variant: one round too many.                                     *)
PollOnceMore ==
  /\ pc = "poll" /\ polls <= MaxPolls
  /\ polls' = polls + 1
  /\ UNCHANGED <<allocVars, cpuset, pc, excl, shared, index, thread, affinity, mask, started>>

(* One round of the loop, one second apart: the container is provisioned,  *)
(* or not yet, or the cgroup file cannot be opened, which ends the starter *)
(* at once.                                                                *)
PollCPUSetCompletion ==
  /\ pc = "poll" /\ polls < MaxPolls
  /\ \/ /\ Completed /\ pc' = AfterPolls
        /\ excl' = ListOf(ExclusivePoolID, env.exclusive)
        /\ shared' = ListOf(SharedPoolID, env.shared)
        /\ UNCHANGED polls
     \/ ~Completed /\ polls' = polls + 1 /\ UNCHANGED <<pc, excl, shared>>
     \/ OpensCgroup /\ pc' = "noCgroup" /\ UNCHANGED <<polls, excl, shared>>
  /\ UNCHANGED <<allocVars, cpuset, index, thread, affinity, mask, started>>

GiveUp ==
  /\ pc = "poll" /\ polls = MaxPolls
  /\ pc' = "exited"
  /\ UNCHANGED <<allocVars, cpuset, polls, excl, shared, index, thread, affinity, mask, started>>

-----------------------------------------------------------------------------
(* main.                                                                   *)

Process == case.processes[index]

(* The first n CPUs of the sorted list.                                    *)
FirstCpus(cpus, n) == {x \in cpus : Cardinality({y \in cpus : y < x}) < n}

(* No n CPUs can be cut off the list: it is too short, which main finds    *)
(* out, or n is negative, which the annotation may say and panics.         *)
CannotTake(n) == Cardinality(excl) < n \/ n < 0

(* sched_setaffinity on the current thread.  Its error for a mask without  *)
(* a CPU of the cpuset is ignored.                                         *)
SchedSetaffinity(m) ==
  /\ mask' = m
  /\ affinity' = IF m \cap cpuset = {} THEN affinity
                 ELSE [affinity EXCEPT ![thread] = m \cap cpuset]

(* Faulty variant: the CPUs handed out stay in the list.                   *)
SetAffinityAgain ==
  /\ pc = "pin"
  /\ IF ~HasPrefix(Process.PoolName, <<ExclusivePoolID>>)
     THEN SchedSetaffinity(shared) /\ pc' = "start"
     ELSE IF CannotTake(Process.CPUs)
          THEN pc' = "exited" /\ UNCHANGED <<mask, affinity>>
          ELSE SchedSetaffinity(FirstCpus(excl, Process.CPUs)) /\ pc' = "start"
  /\ UNCHANGED <<allocVars, cpuset, polls, excl, shared, index, thread, started>>

(* setAffinity for the current process: an exclusive process takes the     *)
(* next CPUs of the list, and the starter ends when it cannot.             *)
SetAffinity ==
  /\ pc = "pin"
  /\ IF ~HasPrefix(Process.PoolName, <<ExclusivePoolID>>)
     THEN SchedSetaffinity(shared) /\ pc' = "start" /\ UNCHANGED excl
     ELSE IF CannotTake(Process.CPUs)
          THEN pc' = "exited" /\ UNCHANGED <<excl, mask, affinity>>
          ELSE /\ SchedSetaffinity(FirstCpus(excl, Process.CPUs)) /\ pc' = "start"
               /\ excl' = excl \ mask'
  /\ UNCHANGED <<allocVars, cpuset, polls, shared, index, thread, started>>

Starts(name) ==
  started' = Append(started, [PoolName |-> name, mask |-> mask, cpus |-> affinity[thread]])

(* cmd.Start for every process but the last, which replaces the starter.   *)
(* A process that cannot be started is skipped; behind a failing last one  *)
(* main goes on to the command, as for a container without annotation.     *)
StartProcess ==
  /\ pc = "start"
  /\ \/ Starts(Process.PoolName) /\ pc' = IF index = Len(case.processes) THEN "running" ELSE "pin"
     \/ UNCHANGED started /\ pc' = IF index = Len(case.processes) THEN "exec" ELSE "pin"
  /\ index' = IF index = Len(case.processes) THEN index ELSE index + 1
  /\ UNCHANGED <<allocVars, cpuset, polls, excl, shared, thread, affinity, mask>>

(* The end of main: the command in the arguments replaces the starter,     *)
(* with what the thread is bound to.  Without arguments os.Args[1] panics. *)
ExecCommand ==
  /\ pc = "exec"
  /\ \/ case.args /\ Starts(<<>>) /\ pc' = "running"
     \/ UNCHANGED started /\ pc' = "exited"
  /\ UNCHANGED <<allocVars, cpuset, polls, excl, shared, index, thread, affinity, mask>>

Starter == PollCPUSetCompletion \/ GiveUp \/ SetAffinity \/ StartProcess \/ ExecCommand
Next == Kubelet \/ CpuSetterWrites \/ Migrate \/ Starter

Spec == Init /\ [][Next]_vars

(* The process-starter is a running process.  Nothing is assumed of the    *)
(* time CPUSetter takes.                                                   *)
FairSpec == Spec /\ WF_vars(Starter)

-----------------------------------------------------------------------------
(* Properties.                                                             *)

TypeOK ==
  /\ case \in Cases /\ cpuset \subseteq CPUs /\ todo \subseteq Requested
  /\ \A r \in Requested : devs[r] \subseteq DeviceIDs(r) \cup {0}
  /\ DOMAIN env = DOMAIN NoEnv /\ \A v \in DOMAIN env : env[v] \subseteq CPUs
  /\ pc \in {"admit", "refused", "poll", "noCgroup", "pin", "start", "exec", "running", "exited"}
  /\ polls \in 0 .. MaxPolls
  /\ excl \subseteq CPUs /\ shared \subseteq CPUs /\ mask \subseteq CPUs
  /\ index \in Nat \ {0} /\ thread \in Threads
  /\ affinity \in [Threads -> SUBSET CPUs]
  /\ \A i \in 1 .. Len(started) : started[i].cpus \subseteq CPUs /\ started[i].mask \subseteq CPUs

(* "The container's entrypoint is only executed once the proper CPU        *)
(* configuration has been provisioned" (README.md): processes of the       *)
(* container run only when what the starter waited for is a set CPUSetter  *)
(* computed for the container, and only inside the container's cpuset,     *)
(* which never becomes the node's again.  It stays a set computed for the  *)
(* container, whoever writes it how often, except in a restarted container *)
(* that CPUSetter moves to the default pool behind the starter's back.     *)
EntrypointProvisioned ==
  started # <<>> =>
    /\ ExpectedCpus \in OwnSets
    /\ cpuset \in OwnSets \cup (IF case.restarted THEN DefaultSets ELSE {})
    /\ \A i \in 1 .. Len(started) : started[i].cpus # {} /\ started[i].cpus \subseteq cpuset

(* At most one of the requested pools is exclusive or cloudphone.          *)
PlainRequests ==
  \A r, t \in Requested : {RequestKind(r), RequestKind(t)} \subseteq CheckpointKinds => r = t

(* The plugin and CPUSetter compute the cpuset of a container apart, one   *)
(* from kubelet's request and one from the checkpoint file, and the        *)
(* environment is to keep them in step (Allocate): a starter that finds    *)
(* the container provisioned in time accepts it and does not give up,      *)
(* unless CPUSetter takes the set away again.  This is for containers with *)
(* at most one exclusive or cloudphone pool.  With an exclusive and a      *)
(* cloudphone pool CPU_POOLS is exclusive while CPUSetter writes the set   *)
(* of the NUMA node, and of two exclusive pools the variable and the       *)
(* cpuset may be of one each: there the starter gives up.                  *)
StarterProceeds ==
  pc = "poll" /\ polls < MaxPolls /\ PlainRequests /\ cpuset \in OwnSets
    ~> pc \notin {"poll", "exited"} \/ cpuset \notin OwnSets

(* A run of devices: consecutive ids, so distinct CPUs side by side.       *)
IsRun(ids) == \A x, y \in ids : Distance(x, y) < Cardinality(ids)
Complete(a) == Len(a.ids) = case.requests[a.pool]

(* Devices taken as the plugin proposes give a container as many distinct  *)
(* CPUs as it asked for, side by side on one NUMA node, and a cloudphone   *)
(* none outside the set it will be confined to (GetPreferredAllocation     *)
(* against Allocate and kubelet's checkpoint).                             *)
CpusTogether ==
  \A a \in answers : Complete(a) =>
    LET cpus == CalculateFinalExclusiveSet(devs[a.pool])
    IN  /\ Cardinality(cpus) = case.requests[a.pool]
        /\ IsRun(cpus)
        /\ \A x, y \in cpus : NodeOf[x] = NodeOf[y]
        /\ DeterminePoolType(a.pool) = CloudphonePoolID => env.cloudphone \subseteq env.numa

(* The loop over the devices finds a run of the requested length wherever  *)
(* the chosen node has one, however the free devices are spread.  This is  *)
(* for pools without overcommitment: otherwise a device of a CPU that is   *)
(* taken already is skipped and the run behind it is not found             *)
(* (GetPreferredAllocation).                                               *)
PreferredComplete ==
  \A a \in answers :
    /\ Pools[a.pool].Overcommitment <= 1
    /\ ~Complete(a)
    => \A s \in SUBSET OnNode(a.available, NodeOf[Last(a.ids) % NumCPU]) :
         ~(Cardinality(s) = case.requests[a.pool] /\ IsRun(s))

IsExclusive(p) == HasPrefix(p.PoolName, <<ExclusivePoolID>>)

(* main hands out the exclusive CPUs of the container without giving one   *)
(* to two processes, and nothing but these CPUs to an exclusive process.   *)
MasksDisjoint ==
  \A i \in 1 .. Len(started) : IsExclusive(started[i]) =>
    /\ started[i].mask \subseteq env.exclusive
    /\ \A j \in 1 .. i - 1 : started[j].mask \cap started[i].mask = {}

(* "CPU Pooler takes care of pinning the processes to allocated -but only  *)
(* to the allocated- CPUs" (README.md): an exclusive process runs on the   *)
(* CPUs main took for it.                                                  *)
PinnedToAllocated ==
  \A i \in 1 .. Len(started) : IsExclusive(started[i]) => started[i].cpus = started[i].mask

-----------------------------------------------------------------------------
(* What a pool configuration has to provide for the theorems of            *)
(* ProcessStarterProofs; the code checks none of it.                       *)

(* The CPUs Allocate can hand out for pool n.                              *)
CpusOfPool(n) ==
  IF Pools[n].HTPolicy = MultiThreadHTPolicy THEN AddHTSiblingsToCPUSet(Pools[n].CPUset)
                                             ELSE Pools[n].CPUset

OfferedPools == {n \in PoolNames : DeterminePoolType(n) # DefaultPoolID}
ExclusivePools == {n \in PoolNames : DeterminePoolType(n) = ExclusivePoolID}

(* Neither the node nor a default pool consists only of CPUs the plugin    *)
(* hands out.                                                              *)
DefaultApart ==
  \A s \in (DefaultSets \cup {AllCpus}) \ {{}} :
    ~(s \subseteq UNION {CpusOfPool(n) : n \in OfferedPools})

(* No shared pool has a CPU of an exclusive one, or a sibling that the     *)
(* plugin adds to it.                                                      *)
SharedApart == \A n \in ExclusivePools : CpusOfPool(n) \cap SharedCPUs = {}

(* An overcommitted pool does not have both the first and the last CPU of  *)
(* the node: their devices of two rounds would pass for neighbours.        *)
RoundsApart ==
  \A n \in OfferedPools : Pools[n].Overcommitment > 1 => ~({0, NumCPU - 1} \subseteq Pools[n].CPUset)

(* A container asks for one cloudphone pool, and the siblings that the     *)
(* plugin adds to its CPUs are in the pool and on their node.              *)
OneCloudphone ==
  \A k \in Cases : \A r, t \in DOMAIN k.requests :
    DeterminePoolType(r) = CloudphonePoolID /\ DeterminePoolType(t) = CloudphonePoolID => r = t
SiblingsInPool ==
  \A n \in PoolNames :
    DeterminePoolType(n) = CloudphonePoolID /\ Pools[n].HTPolicy = MultiThreadHTPolicy =>
      \A x \in Pools[n].CPUset : \A y \in HTSiblings[x] :
        y \in Pools[n].CPUset /\ NodeOf[y] = NodeOf[x]
=============================================================================
